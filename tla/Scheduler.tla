----------------------------- MODULE Scheduler -----------------------------
(***************************************************************************)
(* internal/sched: the slots of one surface, shared between jobs.          *)
(*                                                                         *)
(* Every goroutine that may want a slot is a member of Callers; JobOf says *)
(* for which job it calls Acquire.  A critical section of Scheduler.mu is  *)
(* one step, except the one that frees a slot: there the loop of           *)
(* grantLocked takes a step per grant with mu held, because a token it     *)
(* sends can be received before mu is released.                            *)
(***************************************************************************)
EXTENDS Integers, Sequences, FiniteSets

CONSTANTS
    Callers,    \* goroutines that call Acquire or TryAcquireIdle
    Jobs,       \* job ids
    JobOf,      \* the job each caller works for
    Limit,      \* the limit New is called with
    None        \* nobody holds mu

ASSUME CallersAssumption == IsFiniteSet(Callers) /\ None \notin Callers
ASSUME JobOfAssumption == JobOf \in [Callers -> Jobs]
ASSUME LimitAssumption == Limit \in Int

VARIABLES
    mu,         \* the caller inside freeLocked, or None
    inUse,      \* slots held
    ring,       \* jobs with a waiting caller, next turn first
    waiters,    \* each job's waiting callers, in arrival order
    waiting,    \* how many callers wait in all
    token,      \* token[c]: the channel of c's waiter holds its grant
    ended,      \* ended[c]: the context of c's call is done
    pc          \* where each caller is

vars == <<mu, inUse, ring, waiters, waiting, token, ended, pc>>

\* idle      not in a call
\* parked    in the select of Acquire
\* handback  received its grant, saw its context done: about to call release
\* giveup    saw its context done: about to lock mu
\* held      has a slot and its release function
\* released  has called release once; the deferred second call is to come
PC == {"idle", "parked", "handback", "giveup", "held", "released"}

\* New: a limit below 1 is treated as 1.
slots == IF Limit < 1 THEN 1 ELSE Limit

Init == /\ mu = None
        /\ inUse = 0
        /\ ring = <<>>
        /\ waiters = [j \in Jobs |-> <<>>]
        /\ waiting = 0
        /\ token = [c \in Callers |-> FALSE]
        /\ ended = [c \in Callers |-> FALSE]
        /\ pc = [c \in Callers |-> "idle"]

In(e, s) == \E i \in DOMAIN s : s[i] = e

NoRepeats(s) == \A i, k \in DOMAIN s : s[i] = s[k] => i = k

Goto(c, label) == pc' = [pc EXCEPT ![c] = label]

\* The call is over; the caller's next call has a context of its own.
Return(c, label) == /\ Goto(c, label)
                    /\ ended' = [ended EXCEPT ![c] = FALSE]

-----------------------------------------------------------------------------
(* Acquire *)

\* The context was over before the call: its error, even when a slot is free.
AcquireEnded(c) ==
    /\ mu = None
    /\ pc[c] = "idle" /\ ended[c]
    /\ Return(c, "idle")
    /\ UNCHANGED <<mu, inUse, ring, waiters, waiting, token>>

\* Mutant of MayTake: one slot too many.
MayTakeOneMore == inUse <= slots /\ waiting = 0

MayTake == inUse < slots /\ waiting = 0

AcquireFree(c) ==
    /\ mu = None
    /\ pc[c] = "idle" /\ ~ended[c]
    /\ MayTake
    /\ inUse' = inUse + 1
    /\ Goto(c, "held")
    /\ UNCHANGED <<mu, ring, waiters, waiting, token, ended>>

\* A job whose first caller starts waiting goes to the back of the ring.
Enqueue(c) ==
    LET job == JobOf[c] IN
    /\ ring' = IF waiters[job] = <<>> THEN Append(ring, job) ELSE ring
    /\ waiters' = [waiters EXCEPT ![job] = Append(@, c)]
    /\ waiting' = waiting + 1

AcquireWait(c) ==
    /\ mu = None
    /\ pc[c] = "idle" /\ ~ended[c]
    /\ ~MayTake
    /\ Enqueue(c)
    /\ Goto(c, "parked")
    /\ UNCHANGED <<mu, inUse, token, ended>>

\* A hedge: spare capacity only, and it never blocks.
TryAcquireIdle(c) ==
    /\ mu = None
    /\ pc[c] = "idle"
    /\ inUse < slots /\ waiting = 0
    /\ inUse' = inUse + 1
    /\ Goto(c, "held")
    /\ UNCHANGED <<mu, ring, waiters, waiting, token, ended>>

\* The select took the grant.  If the context ended meanwhile the slot goes on.
TakeToken(c) ==
    /\ pc[c] = "parked" /\ token[c]
    /\ token' = [token EXCEPT ![c] = FALSE]
    /\ Goto(c, IF ended[c] THEN "handback" ELSE "held")
    /\ UNCHANGED <<mu, inUse, ring, waiters, waiting, ended>>

\* The select took ctx.Done, though the grant may be there or be on its way.
SeeDone(c) ==
    /\ pc[c] = "parked" /\ ended[c]
    /\ Goto(c, "giveup")
    /\ UNCHANGED <<mu, inUse, ring, waiters, waiting, token, ended>>

-----------------------------------------------------------------------------
(* Freeing a slot *)

\* Mutant of FreeLocked: the slot is freed and nobody is chosen for it.
FreeWithoutGrant(c) == /\ mu' = mu
                       /\ inUse' = IF inUse > 0 THEN inUse - 1 ELSE inUse

\* freeLocked up to the call of grantLocked; c keeps mu for the loop.
FreeLocked(c) == /\ mu' = c
                 /\ inUse' = IF inUse > 0 THEN inUse - 1 ELSE inUse

\* Mutant of GrantOne: a job that has more callers waiting keeps the turn.
GrantOneKeepTurn ==
    LET job == Head(ring)
        w   == Head(waiters[job])
        q   == Tail(waiters[job])
    IN  /\ waiting' = waiting - 1
        /\ token' = [token EXCEPT ![w] = TRUE]
        /\ inUse' = inUse + 1
        /\ waiters' = [waiters EXCEPT ![job] = q]
        /\ ring' = IF q = <<>> THEN Tail(ring) ELSE ring

\* One turn of the loop in grantLocked.
GrantOne ==
    LET job == Head(ring)
        w   == Head(waiters[job])
        q   == Tail(waiters[job])
    IN  /\ waiting' = waiting - 1
        /\ token' = [token EXCEPT ![w] = TRUE]
        /\ inUse' = inUse + 1
        /\ waiters' = [waiters EXCEPT ![job] = q]
        /\ ring' = IF q = <<>> THEN Tail(ring) ELSE Append(Tail(ring), job)

MoreToGrant == inUse < slots /\ ring # <<>>

GrantLocked ==
    /\ mu # None
    /\ MoreToGrant
    /\ GrantOne
    /\ UNCHANGED <<mu, ended, pc>>

Unlock ==
    /\ mu # None
    /\ ~MoreToGrant
    /\ mu' = None
    /\ UNCHANGED <<inUse, ring, waiters, waiting, token, ended, pc>>

\* The release function, the first time it is called.
Release(c) ==
    /\ mu = None
    /\ pc[c] = "held"
    /\ FreeLocked(c)
    /\ Goto(c, "released")
    /\ UNCHANGED <<ring, waiters, waiting, token, ended>>

\* Mutant of ReleaseAgain: a release function without the once.
ReleaseTwice(c) ==
    /\ mu = None
    /\ pc[c] = "released"
    /\ FreeLocked(c)
    /\ Return(c, "idle")
    /\ UNCHANGED <<ring, waiters, waiting, token>>

\* The release function, called again: once.Do does nothing.
ReleaseAgain(c) ==
    /\ pc[c] = "released"
    /\ Return(c, "idle")
    /\ UNCHANGED <<mu, inUse, ring, waiters, waiting, token>>

HandBack(c) ==
    /\ mu = None
    /\ pc[c] = "handback"
    /\ FreeLocked(c)
    /\ Return(c, "idle")
    /\ UNCHANGED <<ring, waiters, waiting, token>>

\* Mutant of GiveUpGranted: the waiter leaves without passing its grant on.
GiveUpGrantedAndLost(c) ==
    /\ mu = None
    /\ pc[c] = "giveup" /\ token[c]
    /\ token' = [token EXCEPT ![c] = FALSE]
    /\ Return(c, "idle")
    /\ UNCHANGED <<mu, inUse, ring, waiters, waiting>>

\* Under mu, a waiter that gives up finds that it has been granted after all.
GiveUpGranted(c) ==
    /\ mu = None
    /\ pc[c] = "giveup" /\ token[c]
    /\ token' = [token EXCEPT ![c] = FALSE]
    /\ FreeLocked(c)
    /\ Return(c, "idle")
    /\ UNCHANGED <<ring, waiters, waiting>>

\* s without its element e, if it has one (slices.Index and slices.Delete).
Without(s, e) ==
    IF In(e, s)
    THEN LET at == CHOOSE i \in DOMAIN s : s[i] = e
         IN  [i \in 1 .. Len(s) - 1 |-> IF i < at THEN s[i] ELSE s[i + 1]]
    ELSE s

\* Mutant of DequeueLocked: a job without waiters stays in the ring.
DequeueStayInRing(c) ==
    /\ waiting' = waiting - 1
    /\ waiters' = [waiters EXCEPT ![JobOf[c]] = Without(@, c)]
    /\ ring' = ring

\* The job keeps its place in the ring unless c was its last waiter.
DequeueLocked(c) ==
    LET job == JobOf[c] IN
    /\ waiting' = waiting - 1
    /\ waiters' = [waiters EXCEPT ![job] = Without(@, c)]
    /\ ring' = IF Len(waiters[job]) = 1 THEN Without(ring, job) ELSE ring

GiveUpQueued(c) ==
    /\ mu = None
    /\ pc[c] = "giveup" /\ ~token[c]
    /\ DequeueLocked(c)
    /\ Return(c, "idle")
    /\ UNCHANGED <<mu, inUse, token>>

-----------------------------------------------------------------------------

\* The context of a call may end at any moment of the call, or before it.
EndContext(c) ==
    /\ pc[c] \in {"idle", "parked"}
    /\ ~ended[c]
    /\ ended' = [ended EXCEPT ![c] = TRUE]
    /\ UNCHANGED <<mu, inUse, ring, waiters, waiting, token, pc>>

Step(c) ==
    \/ AcquireEnded(c) \/ AcquireFree(c) \/ AcquireWait(c)
    \/ TryAcquireIdle(c)
    \/ TakeToken(c) \/ SeeDone(c)
    \/ Release(c) \/ ReleaseAgain(c)
    \/ HandBack(c) \/ GiveUpGranted(c) \/ GiveUpQueued(c)
    \/ EndContext(c)

Next == GrantLocked \/ Unlock \/ \E c \in Callers : Step(c)

Spec == Init /\ [][Next]_vars

\* A goroutine that can run does.  Those that need mu compete for it, and Go's
\* mutex hands it to a waiter that has starved, hence strong fairness.  A call
\* to Azure is cut off by its timeout, so a held slot is released.  Nothing
\* makes a caller call, or a context end.
Fairness ==
    /\ WF_vars(GrantLocked) /\ WF_vars(Unlock)
    /\ \A c \in Callers :
        /\ WF_vars(TakeToken(c)) /\ WF_vars(SeeDone(c))
        /\ SF_vars(Release(c)) /\ WF_vars(ReleaseAgain(c))
        /\ SF_vars(HandBack(c))
        /\ SF_vars(GiveUpGranted(c)) /\ SF_vars(GiveUpQueued(c))

FairSpec == Spec /\ Fairness

-----------------------------------------------------------------------------
(* Properties *)

\* The calls that have a slot: those that know it and those whose grant is in
\* their channel still.
Holders == {c \in Callers : token[c] \/ pc[c] \in {"held", "handback"}}

\* The calls that wait for one.
Queued == {c \in Callers : pc[c] \in {"parked", "giveup"} /\ ~token[c]}

\* Types, and the limit on concurrent calls to Azure: inUse never leaves
\* 0 .. slots, whatever is granted, handed back or given up at the same time.
TypeOK ==
    /\ mu \in Callers \union {None}
    /\ inUse \in 0 .. slots
    /\ ring \in Seq(Jobs)
    /\ waiters \in [Jobs -> Seq(Callers)]
    /\ waiting \in Nat
    /\ token \in [Callers -> BOOLEAN]
    /\ ended \in [Callers -> BOOLEAN]
    /\ pc \in [Callers -> PC]

\* No slot is lost and none is held twice: inUse counts exactly the calls that
\* hold one, including a grant its waiter has not seen yet, or will refuse
\* because its context ended (the handback and giveup paths of Acquire).
SlotsConserved == inUse = Cardinality(Holders)

\* "Outside the lock a call is waiting only while every slot is in use"
\* (grantLocked, and the doc of Stats.Waiting).
NoIdleSlot == mu = None /\ waiting > 0 => inUse = slots

\* "A waiter that gives up finds itself either still queued or already
\* granted, never in between": a waiting call is in its job's queue exactly
\* once, nobody else is in a queue, the ring holds every job with a waiter
\* once and no other, and waiting counts the waiters.
QueuedOrGranted ==
    /\ \A c \in Callers, j \in Jobs : In(c, waiters[j]) <=> c \in Queued /\ JobOf[c] = j
    /\ \A j \in Jobs : NoRepeats(waiters[j])
    /\ \A j \in Jobs : waiters[j] # <<>> <=> In(j, ring)
    /\ NoRepeats(ring)
    /\ waiting = Cardinality(Queued)

\* A call that waits for a slot gets one or gives up, whatever backlog other
\* jobs have and however often they come back: nobody starves in the ring.
EveryWaitEnds == \A c \in Callers : (pc[c] = "parked") ~> (pc[c] # "parked")
=============================================================================
