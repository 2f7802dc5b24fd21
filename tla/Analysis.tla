------------------------------- MODULE Analysis -------------------------------
(***************************************************************************)
(* What internal/engine promises of one run, without parts, attempts or    *)
(* slots: pages are answered, each once, until either all of them make up  *)
(* the output or the run ends without one.  Answers may be thrown away, to *)
(* ask for the whole document again or because the run fails.  A run is    *)
(* interrupted only by a shutdown, and passes its deadline only when the   *)
(* deadline has passed; a shutdown comes before both the deadline and any  *)
(* failure, so that the job runs again after a restart.                    *)
(***************************************************************************)
EXTENDS Integers

CONSTANT N

VARIABLES answered, verdict, stopped, late

vars == <<answered, verdict, stopped, late>>

Init == answered = {} /\ verdict = "none" /\ stopped = FALSE /\ late = FALSE

Answer ==
    /\ \E first \in 1 .. N : \E last \in first .. N :
        /\ (first .. last) \intersect answered = {}
        /\ answered' = answered \union (first .. last)
    /\ UNCHANGED <<verdict, stopped, late>>

Discard == answered' = {} /\ UNCHANGED <<verdict, stopped, late>>

Deliver ==
    /\ answered' = 1 .. N /\ verdict' = "output"
    /\ answered \in {{}, 1 .. N}
    /\ UNCHANGED <<stopped, late>>

GiveUp ==
    /\ verdict' = IF stopped THEN "interrupted" ELSE IF late THEN "deadline" ELSE "failed"
    /\ answered' = {}
    /\ UNCHANGED <<stopped, late>>

Outside ==
    /\ stopped' \in {stopped, TRUE} /\ late' \in {late, TRUE}
    /\ UNCHANGED <<answered, verdict>>

Next == verdict = "none" /\ (Answer \/ Discard \/ Deliver \/ GiveUp \/ Outside)

Spec == Init /\ [][Next]_vars
=============================================================================
