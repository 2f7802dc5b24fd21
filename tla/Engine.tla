-------------------------------- MODULE Engine --------------------------------
(***************************************************************************)
(* One run of internal/engine: Engine.Run on one document.  It decides     *)
(* between whole and split, runs the parts side by side (attempts, hedges, *)
(* halving, re-checks against the original), merges their results, and     *)
(* falls back to the whole document when the merge is not to be trusted.   *)
(*                                                                         *)
(* The scheduler's slots and the splitter's permits are shared with the    *)
(* other runs of the process, which appear as what they hold of both.      *)
(* Answers of the container are chosen freely; the code's own limits bound *)
(* how many there are.  Page positions stand for pages, a task is the pair *)
(* of positions it analyses, and the loop of Engine.whole on the document  *)
(* itself is the task of all positions, Doc.                               *)
(***************************************************************************)
EXTENDS Integers, Sequences, FiniteSets, PdfSplit

CONSTANTS
    N,              \* pages selected
    SplitPages,     \* SPLIT_PAGES
    PartAttempts, WholeAttempts, RetryOnceLimit,    \* as in engine.go
    Slots,          \* slots of the surface's scheduler
    Permits,        \* documents the splitter may have open
    MaxOthers, MaxOtherDocs,    \* bounds: slots, and permits, the other runs may hold
    Ends            \* bound: whether the parent may stop, the deadline pass

ASSUME EngineAssumption ==
    /\ {N, SplitPages, PartAttempts, WholeAttempts, RetryOnceLimit, Slots, Permits}
           \subseteq Nat \ {0}
    /\ {MaxOthers, MaxOtherDocs} \subseteq Nat /\ Ends \subseteq {"stop", "deadline"}

Doc == <<1, N>>
Tasks == {t \in (1 .. N) \X (1 .. N) : t[1] <= t[2]}
Parts == Tasks \ {Doc}

Calls == {"first", "hedge"}

\* What each loop tells apart of upstream.Outcome, with AnalysisFailed among the
\* Terminal ones.  RetryOnce is a Retry to a part, RouteMissing is Terminal to
\* the loop of whole.
Answers(whole) ==
    {"Success", "Terminal", "Retry"} \union (IF whole THEN {"RetryOnce"} ELSE {"RouteMissing"})
Outcomes == Answers(TRUE) \union Answers(FALSE) \union {"Cancelled"}

VARIABLES
    phase,      \* where run, decide or split is
    task,       \* each goroutine of fanout, and the loop of whole for Doc
    err,        \* fanout.err, then the error of the run
    cancelled,  \* fanout.cancel was called
    results,    \* results added: the task and the call whose answer it is
    files,      \* result files on disk, by task and call
    folder,     \* the work folder exists
    output,     \* where the returned output lives
    verdict,    \* what Run returned
    stopped,    \* the parent context has ended
    late,       \* the job deadline has passed
    inUse,      \* slots taken
    open,       \* splitter permits taken
    others, otherDocs   \* of these, by other runs

run == <<phase, err, cancelled, results, files, folder, output, verdict>>
contexts == <<stopped, late>>
shared == <<inUse, open>>
environment == <<others, otherDocs>>
vars == <<run, task, contexts, shared, environment>>

\* at: the step; whole: under the rules of whole; n, once: the loop's counters;
\* timer: the hedge timer is armed; running: calls in flight; heard: answers not
\* read yet; won: the call whose success was read; cuts: halves already written.
New == [at |-> "none", whole |-> FALSE, n |-> 1, once |-> 0, timer |-> FALSE,
        running |-> {}, heard |-> <<>>, won |-> "none", cuts |-> 0]
Started == [New EXCEPT !.at = "want"]
Ended == [New EXCEPT !.at = "ended"]

Over == stopped \/ late
Done(t) == Over \/ (t # Doc /\ cancelled)       \* the task's context has ended
Free == inUse < Slots
Unparsed == open < Permits

Init ==
    /\ phase = "decide" /\ task = [t \in Tasks |-> New]
    /\ err = "none" /\ cancelled = FALSE
    /\ results = {} /\ files = {} /\ folder = TRUE
    /\ output = "none" /\ verdict = "none"
    /\ stopped = FALSE /\ late = FALSE
    /\ inUse = 0 /\ open = 0 /\ others = 0 /\ otherDocs = 0

-----------------------------------------------------------------------------
(* run, decide *)

\* The loop of whole starts on the document itself.
SendWhole ==
    /\ phase' = "whole"
    /\ task' = [task EXCEPT ![Doc] = [Started EXCEPT !.whole = TRUE]]
    /\ UNCHANGED <<err, cancelled, results, files, folder, output, verdict>>

FailRun(e) ==
    /\ phase' = "failed" /\ err' = e
    /\ UNCHANGED <<task, cancelled, results, files, folder, output, verdict>>

\* Not a PDF, or splitting is off; or the input cannot be read.
DecideUnsplit ==
    /\ phase = "decide"
    /\ SendWhole \/ FailRun("gateway")
    /\ UNCHANGED <<contexts, shared, environment>>

OpenSource ==
    /\ phase = "decide" /\ ~Over /\ Unparsed
    /\ phase' = "cut" /\ open' = open + 1
    /\ UNCHANGED <<task, err, cancelled, results, files, folder, output, verdict,
                   contexts, inUse, environment>>

OpenSourceEnded ==
    /\ phase = "decide" /\ Over
    /\ FailRun("context")
    /\ UNCHANGED <<contexts, shared, environment>>

\* Wrong: the document is closed only when the run is over.
CutPartsKeepOpen ==
    /\ phase = "cut" /\ N > SplitPages
    /\ phase' = "parts"
    /\ task' = [t \in Tasks |->
                   IF \E i \in DOMAIN Plan(N, SplitPages) : Plan(N, SplitPages)[i] = t
                   THEN Started ELSE New]
    /\ UNCHANGED <<err, cancelled, results, files, folder, output, verdict,
                   open, contexts, inUse, environment>>

\* Every part is cut and the document closed before any part is analysed.
CutParts ==
    /\ phase = "cut" /\ N > SplitPages
    /\ phase' = "parts" /\ open' = open - 1
    /\ task' = [t \in Tasks |->
                   IF \E i \in DOMAIN Plan(N, SplitPages) : Plan(N, SplitPages)[i] = t
                   THEN Started ELSE New]
    /\ UNCHANGED <<err, cancelled, results, files, folder, output, verdict,
                   contexts, inUse, environment>>

\* Few enough pages, or a fault of the document: whole.  A failed write or read
\* is the gateway's own.  A context that ended comes before either.
CutNothing ==
    /\ phase = "cut" /\ open' = open - 1
    /\ \/ SendWhole
       \/ FailRun(IF Over THEN "context" ELSE "gateway")
    /\ UNCHANGED <<contexts, inUse, environment>>

-----------------------------------------------------------------------------
(* The end of a task: fanout.fail and fanout.add, or the return of whole. *)

\* Wrong: a later failure takes the place of the first.
FailPartLast(t, e) ==
    /\ task' = [task EXCEPT ![t] = Ended]
    /\ err' = e /\ cancelled' = TRUE
    /\ UNCHANGED <<phase, results, files>>

\* Only the first error of the parts is kept; it cancels the others.
FailPart(t, e) ==
    /\ task' = [task EXCEPT ![t] = Ended]
    /\ err' = (IF err = "none" THEN e ELSE err)
    /\ cancelled' = TRUE
    /\ UNCHANGED <<phase, results, files>>

Cleanup == files' = files \ results /\ results' = {}

\* The results of parts a failed merge left behind go when split returns.
FailDoc(e) ==
    /\ task' = [task EXCEPT ![Doc] = Ended]
    /\ phase' = "failed" /\ err' = e
    /\ Cleanup
    /\ UNCHANGED cancelled

Fail(t, e) ==
    /\ IF t = Doc THEN FailDoc(e) ELSE FailPart(t, e)
    /\ UNCHANGED <<folder, output, verdict>>

KeepPart(t, c) ==
    /\ task' = [task EXCEPT ![t] = Ended]
    /\ results' = results \union {<<t, c>>}
    /\ UNCHANGED <<phase, files, folder, output, verdict>>

\* The output is the container's answer; the work folder goes.
KeepDoc(c) ==
    /\ task' = [task EXCEPT ![Doc] = Ended]
    /\ phase' = "returned" /\ output' = "whole" /\ verdict' = "output"
    /\ Cleanup /\ folder' = FALSE

Keep(t, c) ==
    /\ IF t = Doc THEN KeepDoc(c) ELSE KeepPart(t, c)
    /\ UNCHANGED <<err, cancelled>>

Set(t, new) == task' = [task EXCEPT ![t] = new] /\ UNCHANGED run
-----------------------------------------------------------------------------
(* fanout.part and Engine.whole: one attempt *)

\* A slot is granted in turn (Scheduler); an ended context gets none.
Acquire(t) ==
    /\ task[t].at = "want" /\ ~Done(t) /\ Free
    /\ inUse' = inUse + 1
    /\ Set(t, [task[t] EXCEPT !.at = "call", !.running = {"first"}, !.timer = ~task[t].whole])
    /\ UNCHANGED <<contexts, open, environment>>

AcquireEnded(t) ==
    /\ task[t].at = "want" /\ Done(t)
    /\ Fail(t, "context")
    /\ UNCHANGED <<contexts, shared, environment>>

\* The file of the part cannot be read.
PartUnreadable(t) ==
    /\ task[t].at = "want" /\ task[t].n = 1 /\ ~task[t].whole
    /\ Fail(t, "gateway")
    /\ UNCHANGED <<contexts, shared, environment>>

\* Wrong: a call that was cancelled keeps its slot.
ReturnSlotUnlessCancelled(o) == inUse' = IF o = "Cancelled" THEN inUse ELSE inUse - 1
ReturnSlot(o) == inUse' = inUse - 1

\* Client.Do returns: Cancelled, whatever came, if its context has ended, else
\* any answer; a Success leaves a file.  The slot is back before the answer can
\* be read.
CallReturns(t, c, o) ==
    /\ c \in task[t].running
    /\ IF Done(t) \/ task[t].at = "drain" THEN o = "Cancelled" ELSE o \in Answers(task[t].whole)
    /\ task' = [task EXCEPT ![t].running = @ \ {c}, ![t].heard = Append(@, <<c, o>>)]
    /\ files' = IF o = "Success" THEN files \union {<<t, c>>} ELSE files
    /\ ReturnSlot(o)
    /\ UNCHANGED <<phase, err, cancelled, results, folder, output, verdict,
                   contexts, open, environment>>

\* The hedge timer fires while the loop waits: one duplicate, if a slot is idle.
HedgeFires(t) ==
    /\ task[t].at = "call" /\ task[t].timer
    /\ IF Free
       THEN /\ inUse' = inUse + 1
            /\ Set(t, [task[t] EXCEPT !.timer = FALSE, !.running = @ \union {"hedge"}])
       ELSE /\ Set(t, [task[t] EXCEPT !.timer = FALSE])
            /\ UNCHANGED inUse
    /\ UNCHANGED <<contexts, open, environment>>

Recheck(t) == Set(t, [Started EXCEPT !.whole = TRUE])
Backoff(t, once) == Set(t, [New EXCEPT !.at = "backoff", !.whole = task[t].whole,
                                      !.n = task[t].n, !.once = once])

\* A part's attempt has failed: a terminal answer is checked against the
\* original, and so is a single page out of attempts; a larger part is halved.
PartFailed(t, o) ==
    \/ o = "Cancelled" /\ Fail(t, "context")
    \/ o = "RouteMissing" /\ Fail(t, "route")
    \/ o = "Terminal" /\ Recheck(t)
    \/ /\ o = "Retry"
       /\ IF task[t].n < PartAttempts THEN Backoff(t, 0)
          ELSE IF Size(t) = 1 THEN Recheck(t)
          ELSE Set(t, [New EXCEPT !.at = "recut"])

WholeFailed(t, o) ==
    LET once == task[t].once + (IF o = "RetryOnce" THEN 1 ELSE 0) IN
    \/ o = "Cancelled" /\ Fail(t, "context")
    \/ o = "Terminal" /\ Fail(t, "original")
    \/ /\ o \in {"Retry", "RetryOnce"}
       /\ IF task[t].n >= WholeAttempts \/ once >= RetryOnceLimit
          THEN Fail(t, "original")
          ELSE Backoff(t, once)

\* Wrong: the first failure ends the attempt, whatever the other call does.
LastAnswerAny(t) == TRUE

\* The loop's running is 0: no call is in flight and no other answer is unread.
LastAnswer(t) == task[t].running = {} /\ Len(task[t].heard) = 1

\* The first success wins and cancels the other call; a failure counts only
\* when the other call has failed too.
Hear(t) ==
    LET answer == Head(task[t].heard)
        rest == [task[t] EXCEPT !.heard = Tail(@)]
    IN
    /\ task[t].at = "call" /\ task[t].heard # <<>>
    /\ IF answer[2] = "Success"
       THEN IF LastAnswer(t) THEN Keep(t, answer[1])
            ELSE Set(t, [rest EXCEPT !.at = "drain", !.timer = FALSE, !.won = answer[1]])
       ELSE IF LastAnswer(t)
       THEN IF task[t].whole THEN WholeFailed(t, answer[2]) ELSE PartFailed(t, answer[2])
       ELSE Set(t, rest)
    /\ UNCHANGED <<contexts, shared, environment>>

\* The other call is waited for and its file removed.
Drain(t) ==
    /\ task[t].at = "drain" /\ LastAnswer(t)
    /\ task' = [task EXCEPT ![t] = Ended]
    /\ results' = results \union {<<t, task[t].won>>}
    /\ files' = files \ {<<t, Head(task[t].heard)[1]>>}
    /\ UNCHANGED <<phase, err, cancelled, folder, output, verdict, contexts, shared, environment>>

\* The timer and the end of the context may both be there: either may be seen.
BackoffEnds(t) ==
    /\ task[t].at = "backoff"
    /\ \/ Set(t, [task[t] EXCEPT !.at = "want", !.n = @ + 1])
       \/ Done(t) /\ Fail(t, "context")
    /\ UNCHANGED <<contexts, shared, environment>>

-----------------------------------------------------------------------------
(* fanout.halve, Splitter.Recut *)

RecutOpens(t) ==
    /\ task[t].at = "recut" /\ ~Done(t) /\ Unparsed
    /\ open' = open + 1
    /\ Set(t, [task[t] EXCEPT !.at = "cutting"])
    /\ UNCHANGED <<contexts, inUse, environment>>

RecutEnded(t) ==
    /\ task[t].at = "recut" /\ Done(t)
    /\ Fail(t, "context")
    /\ UNCHANGED <<contexts, shared, environment>>

\* Wrong: the second half is forgotten.
StartFirstHalf(t) == task' = [task EXCEPT ![t] = Ended, ![FirstHalf(t)] = Started]

StartHalves(t) ==
    task' = [task EXCEPT ![t] = Ended, ![FirstHalf(t)] = Started, ![SecondHalf(t)] = Started]

\* Both halves are cut, one after the other, before either is started.
RecutDone(t) ==
    /\ task[t].at = "cutting"
    /\ open' = open - 1
    /\ IF task[t].cuts = 0
       THEN task' = [task EXCEPT ![t].at = "recut", ![t].cuts = 1]
       ELSE StartHalves(t)
    /\ UNCHANGED <<run, contexts, inUse, environment>>

\* A part that cannot be cut fails the job with the part's own failure.
RecutFails(t) ==
    /\ task[t].at = "cutting"
    /\ open' = open - 1
    /\ \E e \in {"part", "gateway"} : Fail(t, IF Done(t) THEN "context" ELSE e)
    /\ UNCHANGED <<contexts, inUse, environment>>

-----------------------------------------------------------------------------
(* runParts after Wait, merge, and the return of Run *)

AllEnded == \A t \in Parts : task[t].at \in {"none", "ended"}

\* Wrong: what the other parts answered stays on disk.
PartsFailedKeep ==
    /\ phase = "parts" /\ AllEnded /\ err # "none"
    /\ phase' = "failed" /\ results' = {}
    /\ UNCHANGED <<task, err, cancelled, files, folder, output, verdict, contexts, shared, environment>>

\* A part has failed: what the others answered goes.
PartsFailed ==
    /\ phase = "parts" /\ AllEnded /\ err # "none"
    /\ phase' = "failed" /\ Cleanup
    /\ UNCHANGED <<task, err, cancelled, folder, output, verdict, contexts, shared, environment>>

\* Sorted by first page, the results are adjacent and leave no page out.
Covers(rs) ==
    /\ \E r \in rs : r[1] = 1
    /\ \A r \in rs : r[2] = N \/ \E s \in rs : s[1] = r[2] + 1
    /\ \A r, s \in rs : r # s => Pages(r) \intersect Pages(s) = {}

Merge ==
    /\ phase = "parts" /\ AllEnded /\ err = "none"
    /\ Covers({r[1] : r \in results})
    /\ phase' = "returned" /\ output' = "merged" /\ verdict' = "output"
    /\ files' = files \ results
    /\ UNCHANGED <<task, err, cancelled, results, folder, contexts, shared, environment>>

\* The pages do not match, or one of the checks of internal/merge fails: the
\* document is sent whole, while the parts' results still wait for split's end.
MergeCheckFails ==
    /\ phase = "parts" /\ AllEnded /\ err = "none"
    /\ SendWhole
    /\ UNCHANGED <<contexts, shared, environment>>

\* The merged result is too large, or cannot be written.
MergeFails ==
    /\ phase = "parts" /\ AllEnded /\ err = "none"
    /\ phase' = "failed" /\ err' \in {"tooLarge", "gateway"}
    /\ Cleanup
    /\ UNCHANGED <<task, cancelled, folder, output, verdict, contexts, shared, environment>>

\* Wrong: the error is passed on as it came.
VerdictRaw == IF stopped THEN "interrupted" ELSE IF late THEN "deadline" ELSE err

\* Wrong: the deadline is looked at before the parent context.
VerdictLateFirst == IF late THEN "deadline" ELSE IF stopped THEN "interrupted" ELSE "failed"

\* A shutdown is told apart first, whatever error it surfaced as.
Verdict == IF stopped THEN "interrupted" ELSE IF late THEN "deadline" ELSE "failed"

ReturnError ==
    /\ phase = "failed"
    /\ phase' = "returned" /\ verdict' = Verdict /\ folder' = FALSE
    /\ UNCHANGED <<task, err, cancelled, results, files, output, contexts, shared, environment>>

-----------------------------------------------------------------------------
(* The world around the run *)

Stop ==
    /\ "stop" \in Ends /\ phase # "returned" /\ ~stopped /\ stopped' = TRUE
    /\ UNCHANGED <<run, task, late, shared, environment>>

Expire ==
    /\ "deadline" \in Ends /\ phase # "returned" /\ ~late /\ late' = TRUE
    /\ UNCHANGED <<run, task, stopped, shared, environment>>

OthersTake ==
    /\ phase # "returned"
    /\ \/ /\ Free /\ others < MaxOthers
          /\ inUse' = inUse + 1 /\ others' = others + 1 /\ UNCHANGED <<open, otherDocs>>
       \/ /\ Unparsed /\ otherDocs < MaxOtherDocs
          /\ open' = open + 1 /\ otherDocs' = otherDocs + 1 /\ UNCHANGED <<inUse, others>>
    /\ UNCHANGED <<run, task, contexts>>

OthersCall ==
    /\ phase # "returned" /\ others > 0
    /\ inUse' = inUse - 1 /\ others' = others - 1
    /\ UNCHANGED <<run, task, contexts, open, otherDocs>>

OthersClose ==
    /\ phase # "returned" /\ otherDocs > 0
    /\ open' = open - 1 /\ otherDocs' = otherDocs - 1
    /\ UNCHANGED <<run, task, contexts, inUse, others>>

\* The run is over: nothing more happens that concerns it.
Returned == phase = "returned" /\ UNCHANGED vars

Attempt(t) ==
    \/ Acquire(t) \/ AcquireEnded(t) \/ PartUnreadable(t)
    \/ \E c \in Calls, o \in Outcomes : CallReturns(t, c, o)
    \/ HedgeFires(t) \/ Hear(t) \/ Drain(t) \/ BackoffEnds(t)

Halve(t) == RecutOpens(t) \/ RecutEnded(t) \/ RecutDone(t) \/ RecutFails(t)

Next ==
    \/ DecideUnsplit \/ OpenSource \/ OpenSourceEnded \/ CutParts \/ CutNothing
    \/ \E t \in Tasks : Attempt(t) \/ Halve(t)
    \/ PartsFailed \/ Merge \/ MergeCheckFails \/ MergeFails \/ ReturnError
    \/ Stop \/ Expire \/ OthersTake \/ OthersCall \/ OthersClose
    \/ Returned

Spec == Init /\ [][Next]_vars

-----------------------------------------------------------------------------
(* Properties *)

Analysed == {r[1] : r \in results}
Live(t) == task[t].at \notin {"none", "ended"}

TaskType ==
    [at : {"none", "want", "call", "drain", "backoff", "recut", "cutting", "ended"},
     whole : BOOLEAN, n : Nat \ {0}, once : Nat, timer : BOOLEAN, running : SUBSET Calls,
     heard : Seq(Calls \X Outcomes), won : Calls \union {"none"}, cuts : 0 .. 1]

TypeOK ==
    /\ phase \in {"decide", "cut", "parts", "whole", "failed", "returned"}
    /\ task \in [Tasks -> TaskType]
    /\ err \in {"none", "context", "gateway", "route", "part", "original", "tooLarge"}
    /\ results \subseteq Tasks \X Calls /\ files \subseteq Tasks \X Calls
    /\ output \in {"none", "merged", "whole"}
    /\ verdict \in {"none", "output", "interrupted", "deadline", "failed"}
    /\ cancelled \in BOOLEAN /\ folder \in BOOLEAN /\ stopped \in BOOLEAN /\ late \in BOOLEAN
    /\ {inUse, open, others, otherDocs} \subseteq Int

\* Slots are held by calls in flight and permits by documents being cut, and by
\* nothing else, so that none is left behind when a part fails, a hedge loses
\* or the run is cancelled (hedged, Engine.call, Splitter.Recut).
SlotsHeldByCalls ==
    /\ inUse <= Slots /\ open <= Permits
    /\ inUse = others + Cardinality({tc \in Tasks \X Calls : tc[2] \in task[tc[1]].running})
    /\ open = otherDocs + Cardinality({t \in Tasks : task[t].at = "cutting"})
                        + (IF phase = "cut" THEN 1 ELSE 0)

\* As long as no part has failed, every selected page belongs to exactly one
\* task, at work or with its result: halving and re-checking neither lose a page
\* nor analyse one twice (fanout.halve, fanout.recheck, Engine.merge).
PagesOwned ==
    phase = "parts" /\ err = "none" =>
        \A page \in 1 .. N :
            Cardinality({t \in Parts : page \in Pages(t) /\ (Live(t) \/ t \in Analysed)}) = 1

\* The cancellation of the sibling parts never passes for the error of the job:
\* that is a cancellation only when the run itself was ended from outside
\* (fanout.fail, ctxErr).
CancelledFromOutside == err = "context" => Over

\* A result file exists as long as its task may need it, and no longer: the
\* answer not read yet, the winner while the loser is waited for, one file per
\* result until the merge (hedged, fanout.add, Result.Cleanup).
FilesOwned ==
    phase # "returned" =>
        \A t \in Tasks :
            LET mine == {c \in Calls : <<t, c>> \in files}
                unread == {c \in Calls : \E i \in DOMAIN task[t].heard : task[t].heard[i] = <<c, "Success">>}
            IN  mine = unread \union ({task[t].won} \ {"none"})
                           \union {c \in Calls : <<t, c>> \in results}

\* When Run returns, no goroutine and no call of the run is left, and of its
\* files only those of the output it returns (Run, split, runWhole).
NothingLeft ==
    verdict # "none" =>
        /\ inUse = others /\ open = otherDocs
        /\ \A t \in Tasks : ~Live(t)
        /\ folder <=> output = "merged"
        /\ files = IF output = "whole" THEN {<<Doc, "first">>} ELSE {}

\* "So a document fails only when Azure would have failed it whole" (engine.go):
\* the answer of a part, which is not the client's document, fails no job.  A
\* container without the route would not have analysed the document either.
FailsOnlyAsWhole == err # "part"

\* A run is what Analysis promises: every page is answered once, and the output
\* covers them all.
Answered == IF output = "merged" \/ phase \in {"parts", "failed"}
            THEN UNION {Pages(t) : t \in Analysed}
            ELSE IF output = "whole" THEN 1 .. N ELSE {}
Abstract == INSTANCE Analysis WITH answered <- Answered
Promise == Abstract!Spec
=============================================================================
