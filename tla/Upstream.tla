------------------------------- MODULE Upstream -------------------------------
(***************************************************************************)
(* One attempt at a container's synchronous route (upstream/attempt.go,    *)
(* classify.go, result.go): a POST, its answer downloaded to a scratch     *)
(* file, and the outcome the caller decides on.                            *)
(*                                                                         *)
(* Two contexts may end at any moment: the caller's (left), and with it    *)
(* the attempt's own, which also ends at its deadline (late).  The         *)
(* transport reports both, and a broken connection, as the same error;     *)
(* cause remembers which it was.                                           *)
(***************************************************************************)
EXTENDS Naturals, FiniteSets

CONSTANT Calls   \* those who make calls, one at a time

VARIABLES
    call,   \* each caller's attempt: where it is, whether its deadline passed, its outcome, which context ended it, whether its file exists
    left    \* the caller's context has ended

upstreamVars == <<call, left>>

NoCall == [at |-> "idle", late |-> FALSE, outcome |-> "none", cause |-> "none", file |-> FALSE,
           leftAtReturn |-> FALSE]

UpstreamInit ==
    /\ call = [c \in Calls |-> NoCall]
    /\ left = [c \in Calls |-> FALSE]

CallAt(c, place) == call[c].at = place

\* Outcomes that no retry follows are one here: terminal, a missing route, a
\* failed analysis.
Classified(c, outcome, cause, file) ==
    call' = [call EXCEPT ![c] = [NoCall EXCEPT !.at = "classified", !.outcome = outcome,
                                               !.cause = cause, !.file = file]]

\* No model is named, or the stored input cannot be opened: a failure of the
\* gateway's own.
NotSent(c) == Classified(c, "terminal", "other", FALSE)

BeginCall(c) ==
    /\ CallAt(c, "idle")
    /\ \/ call' = [call EXCEPT ![c].at = "wait"]
       \/ NotSent(c)

\* What a container says of a failing request: an Azure error, one that says
\* no endpoint matched, or nothing an error can be read from.
Bodies == {"azure", "noEndpoint", "unreadable"}
Statuses == {204, 302, 400, 404, 405, 408, 413, 415, 429, 500, 501, 502, 503, 504}

\* The gateway had to make the error up from the status; and a body whose text
\* names no endpoint.
Synthesised(body) == body = "unreadable"
NamesNoEndpoint(body) == body = "noEndpoint"

RouteMissing(status, body) ==
    \/ status \in {404, 405, 501} /\ (Synthesised(body) \/ NamesNoEndpoint(body))
    \/ status = 500 /\ NamesNoEndpoint(body)

OutcomeOf(status, body) ==
    IF RouteMissing(status, body) THEN "terminal"
    ELSE IF status \in {500, 504} THEN "retryOnce"
    ELSE IF status \in {408, 429, 502, 503} THEN "retry"
    ELSE "terminal"

\* classify: every answer but a 200; a 202 is not followed.
FailingAnswer(c) ==
    /\ CallAt(c, "wait")
    /\ \/ \E outcome \in {OutcomeOf(a[1], a[2]) : a \in Statuses \X Bodies} :
            Classified(c, outcome, "other", FALSE)
       \/ Classified(c, "retry", "other", FALSE)

\* readResult: the scratch file is made before the body is read.
ResultBegins(c) ==
    /\ CallAt(c, "wait")
    /\ \/ call' = [call EXCEPT ![c].at = "body", ![c].file = TRUE]
       \/ Classified(c, "terminal", "other", FALSE)

\* The contexts only say which it was, the caller's first.
TransportFailure(c, cause) ==
    Classified(c, IF left[c] THEN "cancelled" ELSE IF call[c].late THEN "retryOnce" ELSE "retry",
               cause, FALSE)

\* Waiting for the answer, or reading its body, when the connection breaks, or
\* a context that ended breaks it.
Breaks(c) ==
    /\ call[c].at \in {"wait", "body"}
    /\ \/ TransportFailure(c, "other")
       \/ left[c] /\ TransportFailure(c, "left")
       \/ call[c].late /\ TransportFailure(c, "late")

\* downloadBody: over the limit, or the gateway's own write failed.
DownloadFails(c) ==
    /\ CallAt(c, "body")
    /\ Classified(c, "terminal", "other", FALSE)

\* inspectOperation: a failed status first, then an analyzeResult, or a bare one.
Inspect(c) ==
    /\ CallAt(c, "body")
    /\ \/ Classified(c, "success", "other", TRUE)
       \/ Classified(c, "terminal", "other", FALSE)

\* Wrong: what the wire said is believed of a caller who has left.
ReturnUnchecked(c) ==
    /\ CallAt(c, "classified")
    /\ call' = [call EXCEPT ![c].at = "returned", ![c].leftAtReturn = left[c]]

\* Do: whatever the wire said, a caller who has left gets a cancellation.
Return(c) ==
    /\ CallAt(c, "classified")
    /\ call' = [call EXCEPT ![c].at = "returned", ![c].leftAtReturn = left[c],
           ![c].outcome = IF left[c] THEN "cancelled" ELSE @,
           ![c].file = @ /\ ~left[c]]

\* The caller has taken what it wants, and removed the file (Result.Cleanup).
EndCall(c) == call' = [call EXCEPT ![c] = NoCall]

CallStep(c) ==
    \/ FailingAnswer(c) \/ ResultBegins(c) \/ Breaks(c) \/ DownloadFails(c) \/ Inspect(c)
    \/ Return(c)

DeadlinePasses(c) ==
    /\ call[c].at \in {"wait", "body"} /\ ~call[c].late
    /\ call' = [call EXCEPT ![c].late = TRUE]

\* What Do returns is what happened, whichever of the contexts, the answer and
\* the connection ended first: cancelled exactly when the caller had left, so a
\* shutdown is never a container's fault; the attempt's deadline is never taken
\* for a connection that may be retried freely; and only a success leaves a
\* file behind (attempt.go: "Only a Success leaves a file behind").
OutcomeTrue ==
    \A c \in Calls : CallAt(c, "returned") =>
        LET a == call[c]
        IN  /\ (a.outcome = "cancelled") = a.leftAtReturn
            /\ a.cause = "left" => a.outcome = "cancelled"
            /\ a.cause = "late" => a.outcome \in {"cancelled", "retryOnce"}
            /\ a.file = (a.outcome = "success")
=============================================================================
