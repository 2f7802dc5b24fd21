------------------------------- MODULE Process -------------------------------
(***************************************************************************)
(* The life of a gateway process (cmd/gateway/main.go, jobs/manager.go):   *)
(* the store is opened, the manager's goroutines start, abandoned jobs are *)
(* fed to the workers, the listener serves, and a signal lets requests and *)
(* jobs finish within a grace period before everything is cancelled, waited*)
(* for, and the store closed.  A worker, and a synchronous request, makes  *)
(* one call to its container (Upstream); retries are the engine's.         *)
(***************************************************************************)
EXTENDS Upstream, Sequences

CONSTANTS
    Surfaces,    \* di, read
    Recovered,   \* the surfaces of the jobs a previous process left, in the order they are fed
    Submits,     \* submits
    Requests,    \* synchronous requests
    Slots        \* admits and queue slots of a surface (MaxInflight + QueueDepth)

ASSUME ProcessAssumption ==
    /\ Slots \in Nat \ {0}
    /\ Recovered \in Seq(Surfaces)
    /\ Calls = Surfaces \union Requests

VARIABLES
    main,        \* where serve is
    graceOver,   \* the grace period has ended
    listenFailed,
    stopped,     \* the contexts cancelled: the manager's, and the one requests run under
    admits,      \* jobs admitted on each surface
    queue,       \* jobs handed to each surface's worker
    worker,      \* where each surface's worker is
    feeder,      \* the recovery feeder, and the jobs it has still to hand over
    sweeping,    \* the sweeper runs
    drain,       \* the surfaces Drain has still to look at, and whether one was busy
    request,     \* each synchronous request: none, the surface that serves it, done
    submit,      \* each submit: where its handler is, and its surface
    wronged      \* a job was failed because its call was cut short

processVars == <<main, graceOver, listenFailed, stopped, admits, queue, worker,
                 feeder, sweeping, drain, request, submit, wronged>>
allVars == <<processVars, upstreamVars>>

Unsent == [at |-> "none", surface |-> "none"]

ProcessInit ==
    /\ UpstreamInit
    /\ main = "start" /\ graceOver = FALSE /\ listenFailed = FALSE
    /\ stopped = {}
    /\ admits = [s \in Surfaces |-> 0]
    /\ queue = [s \in Surfaces |-> 0]
    /\ worker = [s \in Surfaces |-> "unborn"]
    /\ feeder = [at |-> "none", todo |-> <<>>]
    /\ sweeping = FALSE
    /\ drain = [todo |-> {}, busy |-> FALSE]
    /\ request = [r \in Requests |-> "none"]
    /\ submit = [x \in Submits |-> Unsent]
    /\ wronged = FALSE

---------------------------------------------------------------------------
(* serve *)

\* Manager.Start; Recover claims the abandoned jobs and leaves the feeder
\* behind; only then does the listener open.
Start ==
    /\ main = "start"
    /\ main' = "recover"
    /\ worker' = [s \in Surfaces |-> "select"]
    /\ sweeping' = TRUE
    /\ UNCHANGED <<graceOver, listenFailed, stopped, admits, queue, feeder, drain,
                   request, submit, wronged, upstreamVars>>

Recover ==
    /\ main = "recover"
    /\ main' = "serve"
    /\ feeder' = [at |-> "admit", todo |-> Recovered]
    /\ UNCHANGED <<graceOver, listenFailed, stopped, admits, queue, worker, sweeping,
                   drain, request, submit, wronged, upstreamVars>>

\* The listener fails: serve returns, and its deferred calls stop the manager
\* at once.
ListenFails ==
    /\ main = "serve"
    /\ main' = "stop" /\ listenFailed' = TRUE
    /\ UNCHANGED <<graceOver, stopped, admits, queue, worker, feeder, sweeping, drain,
                   request, submit, wronged, upstreamVars>>

\* A signal that comes earlier waits for serve's select.
Signal ==
    /\ main = "serve"
    /\ main' = "shutdown"
    /\ UNCHANGED <<graceOver, listenFailed, stopped, admits, queue, worker, feeder, sweeping, drain,
                   request, submit, wronged, upstreamVars>>

GraceEnds ==
    /\ main \in {"shutdown", "drain", "tick"} /\ ~graceOver
    /\ graceOver' = TRUE
    /\ UNCHANGED <<main, listenFailed, stopped, admits, queue, worker, feeder, sweeping,
                   drain, request, submit, wronged, upstreamVars>>

\* http.Server.Shutdown returns when the handlers have, or with the grace.
Idle(r) == request[r] \notin Surfaces
Answered(x) == submit[x].at \notin {"upload", "enqueue"}
NoHandlers == (\A r \in Requests : Idle(r)) /\ \A x \in Submits : Answered(x)
HandlersReturned ==
    /\ main = "shutdown" /\ (NoHandlers \/ graceOver)
    /\ main' = "drain"
    /\ drain' = [todo |-> Surfaces, busy |-> FALSE]
    /\ UNCHANGED <<graceOver, listenFailed, stopped, admits, queue, worker, feeder,
                   sweeping, request, submit, wronged, upstreamVars>>

\* Drain looks at one surface after another, and again at the next tick unless
\* all were idle or the grace is over.
DrainLooks(s) ==
    /\ main = "drain" /\ s \in drain.todo
    /\ drain' = [todo |-> drain.todo \ {s}, busy |-> drain.busy \/ admits[s] > 0]
    /\ UNCHANGED <<main, graceOver, listenFailed, stopped, admits, queue, worker, feeder,
                   sweeping, request, submit, wronged, upstreamVars>>

Drained ==
    /\ main = "drain" /\ drain.todo = {}
    /\ main' = IF drain.busy THEN "tick" ELSE "stop"
    /\ UNCHANGED <<graceOver, listenFailed, stopped, admits, queue, worker, feeder,
                   sweeping, drain, request, submit, wronged, upstreamVars>>

DrainAgain ==
    /\ main = "tick"
    /\ main' = "drain" /\ drain' = [todo |-> Surfaces, busy |-> FALSE]
    /\ UNCHANGED <<graceOver, listenFailed, stopped, admits, queue, worker, feeder,
                   sweeping, request, submit, wronged, upstreamVars>>

DrainGivesUp ==
    /\ main = "tick" /\ graceOver
    /\ main' = "stop"
    /\ UNCHANGED <<graceOver, listenFailed, stopped, admits, queue, worker, feeder,
                   sweeping, drain, request, submit, wronged, upstreamVars>>

\* Manager.Stop cancels the manager's context, and so the workers' calls, and
\* waits for every tracked goroutine.
Stop ==
    /\ main = "stop"
    /\ main' = "wait"
    /\ stopped' = stopped \union {"manager"}
    /\ left' = [c \in Calls |-> left[c] \/ c \in Surfaces]
    /\ UNCHANGED <<graceOver, listenFailed, admits, queue, worker, feeder, sweeping,
                   drain, request, submit, wronged, call>>

TrackedGone ==
    /\ \A s \in Surfaces : worker[s] = "exited"
    /\ feeder.at = "none" /\ ~sweeping

\* Wrong: nothing is waited for.
StopRunUnwaited ==
    /\ main = "wait"
    /\ main' = "close"
    /\ stopped' = stopped \union {"run"}
    /\ left' = [c \in Calls |-> TRUE]
    /\ UNCHANGED <<graceOver, listenFailed, admits, queue, worker, feeder, sweeping,
                   drain, request, submit, wronged, call>>

StopRun ==
    /\ main = "wait" /\ TrackedGone
    /\ main' = "close"
    /\ stopped' = stopped \union {"run"}
    /\ left' = [c \in Calls |-> TRUE]
    /\ UNCHANGED <<graceOver, listenFailed, admits, queue, worker, feeder, sweeping,
                   drain, request, submit, wronged, call>>

\* The last deferred call, and the end of serve: until then handlers that
\* outlive the grace go on.
Close ==
    /\ main = "close"
    /\ main' = "closed"
    /\ UNCHANGED <<graceOver, listenFailed, stopped, admits, queue, worker, feeder,
                   sweeping, drain, request, submit, wronged, upstreamVars>>

ServeReturns ==
    /\ main = "closed"
    /\ main' = "exited"
    /\ UNCHANGED <<graceOver, listenFailed, stopped, admits, queue, worker, feeder,
                   sweeping, drain, request, submit, wronged, upstreamVars>>

---------------------------------------------------------------------------
(* The manager's goroutines *)

\* feed waits for admission, then for the queue, or until the manager stops.
Fed == Head(feeder.todo)
FeedAdmit ==
    /\ feeder.at = "admit" /\ feeder.todo # <<>> /\ admits[Fed] < Slots
    /\ admits' = [admits EXCEPT ![Fed] = @ + 1]
    /\ feeder' = [feeder EXCEPT !.at = "hand"]
    /\ UNCHANGED <<main, graceOver, listenFailed, stopped, queue, worker, sweeping, drain,
                   request, submit, wronged, upstreamVars>>

FeedHands ==
    /\ feeder.at = "hand" /\ queue[Fed] < Slots
    /\ queue' = [queue EXCEPT ![Fed] = @ + 1]
    /\ feeder' = [at |-> "admit", todo |-> Tail(feeder.todo)]
    /\ UNCHANGED <<main, graceOver, listenFailed, stopped, admits, worker, sweeping, drain,
                   request, submit, wronged, upstreamVars>>

FeedHearsRun == "run" \in stopped   \* wrong: Stop waits for it without cancelling it
FeedHears == "manager" \in stopped
FeedEnds ==
    /\ \/ feeder.at = "admit" /\ (feeder.todo = <<>> \/ FeedHears) /\ UNCHANGED admits
       \/ /\ feeder.at = "hand" /\ FeedHears
          /\ admits' = [admits EXCEPT ![Fed] = @ - 1]
    /\ feeder' = [at |-> "none", todo |-> <<>>]
    /\ UNCHANGED <<main, graceOver, listenFailed, stopped, queue, worker, sweeping, drain,
                   request, submit, wronged, upstreamVars>>

SweeperEnds ==
    /\ sweeping /\ "manager" \in stopped
    /\ sweeping' = FALSE
    /\ UNCHANGED <<main, graceOver, listenFailed, stopped, admits, queue, worker, feeder,
                   drain, request, submit, wronged, upstreamVars>>

\* worker: its select takes either a job or the end, whichever it likes.
TakeJob(s) ==
    /\ worker[s] = "select" /\ queue[s] > 0
    /\ worker' = [worker EXCEPT ![s] = "mark"]
    /\ queue' = [queue EXCEPT ![s] = @ - 1]
    /\ UNCHANGED <<main, graceOver, listenFailed, stopped, admits, feeder, sweeping, drain,
                   request, submit, wronged, upstreamVars>>

WorkerEnds(s) ==
    /\ worker[s] = "select" /\ "manager" \in stopped
    /\ worker' = [worker EXCEPT ![s] = "exited"]
    /\ UNCHANGED <<main, graceOver, listenFailed, stopped, admits, queue, feeder, sweeping,
                   drain, request, submit, wronged, upstreamVars>>

\* run: reading the row and marking it running fail once the context ended.
MarkRunning(s) ==
    /\ worker[s] = "mark" /\ "manager" \notin stopped
    /\ worker' = [worker EXCEPT ![s] = "call"]
    /\ BeginCall(s)
    /\ UNCHANGED <<main, graceOver, listenFailed, stopped, admits, queue, feeder, sweeping,
                   drain, request, submit, wronged, left>>

MarkFails(s) ==
    /\ worker[s] = "mark" /\ "manager" \in stopped
    /\ worker' = [worker EXCEPT ![s] = "release"]
    /\ UNCHANGED <<main, graceOver, listenFailed, stopped, admits, queue, feeder, sweeping,
                   drain, request, submit, wronged, upstreamVars>>

\* A run that was interrupted leaves its job to the next start; a result is
\* stored, and a failure recorded, whatever the contexts say then.
Interrupted(s) == "manager" \in stopped \/ call[s].outcome = "cancelled"
Fails(s) == call[s].outcome # "success" /\ ~Interrupted(s)
CallReturned(s) ==
    /\ worker[s] = "call" /\ CallAt(s, "returned")
    /\ wronged' = (wronged \/ (Fails(s) /\ call[s].leftAtReturn))
    /\ worker' = [worker EXCEPT ![s] = "release"]
    /\ EndCall(s)
    /\ UNCHANGED <<main, graceOver, listenFailed, stopped, admits, queue, feeder, sweeping,
                   drain, request, submit, left>>

Release(s) ==
    /\ worker[s] = "release"
    /\ admits' = [admits EXCEPT ![s] = @ - 1]
    /\ worker' = [worker EXCEPT ![s] = "select"]
    /\ UNCHANGED <<main, graceOver, listenFailed, stopped, queue, feeder, sweeping, drain,
                   request, submit, wronged, upstreamVars>>

---------------------------------------------------------------------------
(* The listener's requests *)

\* submit: admitted or refused at once.  Its document may take as long as it
\* likes or never come; its row is committed under the context requests run
\* under; it is handed over, to workers that may have ended.
SubmitBegins(x) ==
    /\ main = "serve" /\ submit[x].at = "none"
    /\ \E s \in Surfaces :
        /\ admits[s] < Slots
        /\ admits' = [admits EXCEPT ![s] = @ + 1]
        /\ submit' = [submit EXCEPT ![x] = [at |-> "upload", surface |-> s]]
    /\ UNCHANGED <<main, graceOver, listenFailed, stopped, queue, worker, feeder, sweeping, drain,
                   request, wronged, upstreamVars>>

SubmitFails(x) ==
    /\ submit[x].at = "upload" /\ main # "exited"
    /\ submit' = [submit EXCEPT ![x].at = "done"]
    /\ admits' = [admits EXCEPT ![submit[x].surface] = @ - 1]
    /\ UNCHANGED <<main, graceOver, listenFailed, stopped, queue, worker, feeder, sweeping, drain,
                   request, wronged, upstreamVars>>

RowCommits(x) ==
    /\ submit[x].at = "upload" /\ "run" \notin stopped
    /\ submit' = [submit EXCEPT ![x].at = "enqueue"]
    /\ UNCHANGED <<main, graceOver, listenFailed, stopped, admits, queue, worker, feeder, sweeping,
                   drain, request, wronged, upstreamVars>>

Enqueue(x) ==
    /\ submit[x].at = "enqueue" /\ main # "exited"
    /\ submit' = [submit EXCEPT ![x].at = "done"]
    /\ queue' = [queue EXCEPT ![submit[x].surface] = @ + 1]
    /\ UNCHANGED <<main, graceOver, listenFailed, stopped, admits, worker, feeder, sweeping, drain,
                   request, wronged, upstreamVars>>

\* syncAnalyze: it takes a slot as a job does, receives its document, and
\* makes its call; a document that never arrives is a call that is not sent.
RequestBegins(r) ==
    /\ main = "serve" /\ request[r] = "none"
    /\ \E s \in Surfaces :
        /\ admits[s] < Slots
        /\ admits' = [admits EXCEPT ![s] = @ + 1]
        /\ request' = [request EXCEPT ![r] = s]
    /\ BeginCall(r)
    /\ UNCHANGED <<main, graceOver, listenFailed, stopped, queue, worker, feeder,
                   sweeping, drain, submit, wronged, left>>

ClientLeaves(r) ==
    /\ ~Idle(r) /\ ~left[r]
    /\ left' = [left EXCEPT ![r] = TRUE]
    /\ UNCHANGED <<processVars, call>>

RequestEnds(r) ==
    /\ ~Idle(r) /\ CallAt(r, "returned") /\ main # "exited"
    /\ request' = [request EXCEPT ![r] = "done"]
    /\ admits' = [admits EXCEPT ![request[r]] = @ - 1]
    /\ EndCall(r)
    /\ UNCHANGED <<main, graceOver, listenFailed, stopped, queue, worker, feeder,
                   sweeping, drain, submit, wronged, left>>

---------------------------------------------------------------------------

\* A call goes on until the process has ended.
Wire(c) == main # "exited" /\ CallStep(c) /\ UNCHANGED <<processVars, left>>
WireLate(c) == main # "exited" /\ DeadlinePasses(c) /\ UNCHANGED <<processVars, left>>

ServeStep ==
    \/ Start \/ Recover \/ HandlersReturned
    \/ (\E s \in Surfaces : DrainLooks(s)) \/ Drained \/ DrainAgain \/ DrainGivesUp \/ Stop \/ StopRun
    \/ Close \/ ServeReturns
WorkerStep(s) ==
    TakeJob(s) \/ WorkerEnds(s) \/ MarkRunning(s) \/ MarkFails(s) \/ CallReturned(s) \/ Release(s)
FeedStep == FeedAdmit \/ FeedHands \/ FeedEnds

ProcessNext ==
    \/ ServeStep \/ Signal \/ ListenFails \/ GraceEnds \/ FeedStep \/ SweeperEnds
    \/ \E s \in Surfaces : WorkerStep(s)
    \/ \E x \in Submits : SubmitBegins(x) \/ SubmitFails(x) \/ RowCommits(x) \/ Enqueue(x)
    \/ \E r \in Requests : RequestBegins(r) \/ ClientLeaves(r) \/ RequestEnds(r)
    \/ \E c \in Calls : Wire(c) \/ WireLate(c)

\* Some goroutine that can run does, a call whose context ended returns, the
\* grace period ends, and Drain's select hears of it.  A call otherwise takes
\* as long as it likes.
CallReturns(c) == (left[c] \/ CallAt(c, "classified")) /\ Wire(c)
Progress ==
    \/ ServeStep \/ FeedStep \/ SweeperEnds
    \/ \E s \in Surfaces : WorkerStep(s)
    \/ \E c \in Calls : CallReturns(c)

---------------------------------------------------------------------------

\* A process that a signal, or its listener, took out of service ends, whatever
\* the workers, the feeder and the container are doing: nothing that is waited
\* for waits for something Stop does not cancel (manager.go: the INVARIANT on wg).
SignalEnds == <>[](main \in {"start", "recover", "serve", "exited"})

\* What a shutdown keeps.  A handler, of a submit or a synchronous request, is
\* cut short only once the grace is over (main.go:145, the listener failing
\* apart); the store is closed only when the goroutines Stop waits for are gone,
\* so that only a handler that outlived the grace, or a heartbeat, may find it
\* closed; and no job is failed because its call was cut short ("its 202 has
\* already been promised, so it must not be failed", main.go:190).
RequestsServed == "run" \in stopped => graceOver \/ listenFailed \/ NoHandlers
StoreOutlivesWork == main \in {"closed", "exited"} => TrackedGone
JobsKept == ~wronged
ShutdownKeepsWork == RequestsServed /\ StoreOutlivesWork /\ JobsKept
=============================================================================
