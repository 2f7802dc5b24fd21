----------------------------- MODULE EngineProofs -----------------------------
(***************************************************************************)
(* Engine for documents of any size, any limits on attempts and any number *)
(* of slots and permits: what its variables hold, and who owns the slots,  *)
(* the permits and the pages.                                              *)
(***************************************************************************)
EXTENDS Engine, PdfSplitProofs, FiniteSetTheorems, SequenceTheorems, TLAPS

Errors == {"context", "gateway", "route", "part", "original", "tooLarge"}

\* A task waits for a loser only once a winner is known, and, as long as its
\* loop waits for a first answer, hears of a cancelled call only when its own
\* context has ended.  Calls and answers are there only during an attempt.
HeardCancelled(x) == \E i \in DOMAIN x.heard : x.heard[i][2] = "Cancelled"
Sound(t, x) ==
    /\ x \in TaskType
    /\ x.at \notin {"call", "drain"} => x.heard = <<>> /\ x.running = {}
    /\ x.at = "drain" => x.won \in Calls
    /\ x.at = "call" /\ HeardCancelled(x) => Done(t)
TasksSound ==
    /\ DOMAIN task = Tasks /\ task = [t \in Tasks |-> task[t]]
    /\ \A t \in Tasks : Sound(t, task[t])

\* The part of the type that is about the run.
RunTyped ==
    /\ phase \in {"decide", "cut", "parts", "whole", "failed", "returned"}
    /\ err \in Errors \union {"none"}
    /\ results \subseteq Tasks \X Calls /\ files \subseteq Tasks \X Calls
    /\ output \in {"none", "merged", "whole"}
    /\ verdict \in {"none", "output", "interrupted", "deadline", "failed"}
    /\ cancelled \in BOOLEAN /\ folder \in BOOLEAN /\ stopped \in BOOLEAN /\ late \in BOOLEAN

SharedTyped == {inUse, open, others, otherDocs} \subseteq Int

\* Siblings are cancelled after the first error is kept, and that error is a
\* cancellation only when the run was ended from outside.
ErrorKept == (cancelled => err # "none") /\ CancelledFromOutside

IInv == TasksSound /\ RunTyped /\ SharedTyped /\ ErrorKept

LEMMA NewTyped ==
    \A x \in {New, Started, [Started EXCEPT !.whole = TRUE], Ended, [New EXCEPT !.at = "recut"]} :
        x \in TaskType /\ x.at \in {"none", "want", "ended", "recut"} /\ x.heard = <<>> /\ x.running = {}
  <1>1. <<>> \in Seq(Calls \X Outcomes)
    OBVIOUS
  <1>2. New \in TaskType /\ New.at = "none" /\ New.heard = <<>> /\ New.running = {}
    BY <1>1 DEF New, TaskType
  <1> DEFINE Fine(x) == x \in TaskType /\ x.at \in {"none", "want", "ended", "recut"} /\ x.heard = <<>> /\ x.running = {}
  <1>3. Fine(New) /\ Fine(Started) /\ Fine(Ended)
    BY <1>2 DEF Started, Ended, TaskType
  <1>4. Fine([Started EXCEPT !.whole = TRUE]) /\ Fine([New EXCEPT !.at = "recut"])
    BY <1>2, <1>3 DEF TaskType
  <1> QED BY <1>3, <1>4

\* An idle task is sound.
LEMMA IdleSound ==
    ASSUME NEW t, NEW x \in TaskType, x.at \notin {"call", "drain"}, x.heard = <<>>, x.running = {}
    PROVE  Sound(t, x)
  BY DEF Sound

LEMMA InitInv == Init => IInv
  <1> SUFFICES ASSUME Init PROVE IInv
    OBVIOUS
  <1>1. TasksSound
    BY NewTyped, IdleSound DEF Init, TasksSound
  <1>2. RunTyped
    BY DEF Init, RunTyped
  <1>3. SharedTyped
    BY DEF Init, SharedTyped
  <1>4. ErrorKept
    BY DEF Init, ErrorKept, CancelledFromOutside
  <1> QED BY <1>1, <1>2, <1>3, <1>4 DEF IInv

\* IInv is what the type invariant and the property need.
LEMMA InvTyped == IInv => TypeOK
  <1> SUFFICES ASSUME IInv PROVE TypeOK
    OBVIOUS
  <1>1. task \in [Tasks -> TaskType]
    BY DEF IInv, TasksSound, Sound
  <1> QED BY <1>1 DEF IInv, RunTyped, SharedTyped, TypeOK, Errors
-----------------------------------------------------------------------------
(* Helpers of the actions *)

\* What no step takes back.
Onward == (stopped => stopped') /\ (late => late') /\ (cancelled => cancelled')

LEMMA SoundOnward ==
    ASSUME Onward, NEW t, NEW x, Sound(t, x)
    PROVE  Sound(t, x)'
  BY DEF Sound, Onward, Done, Over

\* One task changes.
LEMMA TaskChanges ==
    ASSUME TasksSound, Onward, NEW t \in Tasks, NEW x, Sound(t, x)',
           task' = [task EXCEPT ![t] = x]
    PROVE  TasksSound'
  <1>1. \A s \in Tasks : Sound(s, task[s])'
    BY SoundOnward DEF TasksSound
  <1> QED BY <1>1 DEF TasksSound

\* No task changes.
LEMMA TasksStay ==
    ASSUME TasksSound, Onward, UNCHANGED task
    PROVE  TasksSound'
  BY SoundOnward DEF TasksSound

LEMMA SetInv ==
    ASSUME IInv, NEW t \in Tasks, NEW x, Sound(t, x), Set(t, x), UNCHANGED contexts, SharedTyped'
    PROVE  IInv'
  <1>1. Onward
    BY DEF Set, run, contexts, Onward
  <1>2. TasksSound'
    BY <1>1, SoundOnward, TaskChanges DEF Set, IInv
  <1>3. RunTyped' /\ ErrorKept'
    BY DEF Set, IInv, run, contexts, RunTyped, ErrorKept, CancelledFromOutside, Over
  <1> QED BY <1>2, <1>3 DEF IInv

\* Only a task whose context has ended fails with the context's error.
LEMMA FailInv ==
    ASSUME IInv, NEW t \in Tasks, NEW e \in Errors, e = "context" => Done(t),
           Fail(t, e), UNCHANGED contexts, SharedTyped'
    PROVE  IInv'
  <1>1. Onward
    BY DEF Fail, FailDoc, FailPart, contexts, Onward
  <1>2. TasksSound'
    <2>1. task' = [task EXCEPT ![t] = Ended]
      BY DEF Fail, FailDoc, FailPart
    <2>2. Sound(t, Ended)'
      BY <1>1, NewTyped, IdleSound, SoundOnward
    <2> QED BY <1>1, <2>1, <2>2, TaskChanges DEF IInv
  <1>3. ErrorKept'
    BY DEF Fail, FailDoc, FailPart, IInv, ErrorKept, CancelledFromOutside, Done, Over, contexts,
       Errors, RunTyped
  <1>4. RunTyped'
    BY DEF Fail, FailDoc, FailPart, Cleanup, IInv, RunTyped, contexts
  <1> QED BY <1>2, <1>3, <1>4 DEF IInv

LEMMA KeepInv ==
    ASSUME IInv, NEW t \in Tasks, NEW c \in Calls, Keep(t, c), UNCHANGED contexts, SharedTyped'
    PROVE  IInv'
  <1>1. Onward
    BY DEF Keep, contexts, Onward
  <1>2. TasksSound'
    <2>1. task' = [task EXCEPT ![t] = Ended]
      BY DEF Keep, KeepDoc, KeepPart
    <2>2. Sound(t, Ended)'
      BY <1>1, NewTyped, IdleSound, SoundOnward
    <2> QED BY <1>1, <2>1, <2>2, TaskChanges DEF IInv
  <1>3. ErrorKept'
    BY DEF Keep, IInv, ErrorKept, CancelledFromOutside, Over, contexts
  <1>4. RunTyped'
    <2>1. CASE t = Doc
      BY <2>1 DEF Keep, KeepDoc, Cleanup, IInv, RunTyped, contexts
    <2>2. CASE t # Doc
      BY <2>2 DEF Keep, KeepPart, IInv, RunTyped, contexts
    <2> QED BY <2>1, <2>2
  <1> QED BY <1>2, <1>3, <1>4 DEF IInv

LEMMA SendWholeInv ==
    ASSUME IInv, SendWhole, UNCHANGED contexts, SharedTyped'
    PROVE  IInv'
  <1>1. Onward /\ Doc \in Tasks
    BY EngineAssumption DEF SendWhole, contexts, Onward, Doc, Tasks
  <1>2. TasksSound'
    <2>1. Sound(Doc, [Started EXCEPT !.whole = TRUE])'
      BY <1>1, NewTyped, IdleSound, SoundOnward
    <2> QED BY <1>1, <2>1, TaskChanges DEF IInv, SendWhole
  <1>3. RunTyped' /\ ErrorKept'
    BY DEF SendWhole, IInv, RunTyped, ErrorKept, CancelledFromOutside, Over, contexts
  <1> QED BY <1>2, <1>3 DEF IInv

LEMMA FailRunInv ==
    ASSUME IInv, NEW e \in Errors, e = "context" => Over, FailRun(e), UNCHANGED contexts, SharedTyped'
    PROVE  IInv'
  <1>1. TasksSound'
    BY TasksStay DEF FailRun, contexts, Onward, IInv
  <1>2. RunTyped' /\ ErrorKept'
    BY DEF FailRun, IInv, RunTyped, ErrorKept, CancelledFromOutside, Over, contexts, Errors
  <1> QED BY <1>1, <1>2 DEF IInv

-----------------------------------------------------------------------------
(* The actions *)

\* A task whose type is known, the record it becomes, field by field.
LEMMA HeadTyped ==
    ASSUME NEW x \in TaskType, x.heard # <<>>
    PROVE  /\ Head(x.heard)[1] \in Calls /\ Head(x.heard)[2] \in Outcomes
           /\ Tail(x.heard) \in Seq(Calls \X Outcomes)
           /\ Head(x.heard) = x.heard[1] /\ 1 \in DOMAIN x.heard
           /\ \A i \in DOMAIN Tail(x.heard) : i + 1 \in DOMAIN x.heard
                                              /\ Tail(x.heard)[i] = x.heard[i + 1]
  <1>1. x.heard \in Seq(Calls \X Outcomes)
    BY DEF TaskType
  <1>2. Head(x.heard) \in Calls \X Outcomes /\ Tail(x.heard) \in Seq(Calls \X Outcomes)
    BY <1>1, HeadTailProperties
  <1>3. /\ Len(x.heard) \in Nat \ {0} /\ DOMAIN x.heard = 1 .. Len(x.heard)
        /\ Len(Tail(x.heard)) = Len(x.heard) - 1 /\ Head(x.heard) = x.heard[1]
        /\ \A i \in 1 .. Len(Tail(x.heard)) : Tail(x.heard)[i] = x.heard[i + 1]
    BY <1>1, HeadTailProperties, LenProperties, EmptySeq
  <1>4. DOMAIN Tail(x.heard) = 1 .. Len(Tail(x.heard))
    BY <1>2, LenProperties
  <1> QED BY <1>2, <1>3, <1>4

LEMMA DecideInv ==
    ASSUME IInv,
           DecideUnsplit \/ OpenSource \/ OpenSourceEnded \/ CutParts \/ CutNothing
    PROVE  IInv'
  <1>1. CASE DecideUnsplit
    <2>1. SharedTyped' /\ UNCHANGED contexts
      BY <1>1 DEF DecideUnsplit, shared, environment, IInv, SharedTyped
    <2> QED BY <1>1, <2>1, SendWholeInv, FailRunInv DEF DecideUnsplit, Errors
  <1>2. CASE OpenSource
    <2>1. TasksSound'
      BY <1>2, TasksStay DEF OpenSource, contexts, Onward, IInv
    <2>2. SharedTyped'
      BY <1>2 DEF OpenSource, environment, IInv, SharedTyped
    <2>3. RunTyped'
      BY <1>2 DEF OpenSource, contexts, IInv, RunTyped
    <2>4. ErrorKept'
      BY <1>2 DEF OpenSource, contexts, IInv, ErrorKept, CancelledFromOutside, Over
    <2> QED BY <2>1, <2>2, <2>3, <2>4 DEF IInv
  <1>3. CASE OpenSourceEnded
    <2>1. SharedTyped' /\ UNCHANGED contexts
      BY <1>3 DEF OpenSourceEnded, shared, environment, IInv, SharedTyped
    <2> QED BY <1>3, <2>1, FailRunInv DEF OpenSourceEnded, Errors
  <1>4. CASE CutParts
    <2>1. TasksSound'
      <3>1. \A t \in Tasks : Sound(t, New)' /\ Sound(t, Started)'
        BY NewTyped, IdleSound, SoundOnward, <1>4 DEF CutParts, contexts, Onward
      <3>2. \A t \in Tasks : task'[t] \in {New, Started}
        BY <1>4 DEF CutParts
      <3>3. DOMAIN task' = Tasks /\ task' = [t \in Tasks |-> task'[t]]
        BY <1>4 DEF CutParts
      <3> QED BY <3>1, <3>2, <3>3 DEF TasksSound
    <2>2. SharedTyped'
      BY <1>4 DEF CutParts, environment, IInv, SharedTyped
    <2>3. RunTyped'
      BY <1>4 DEF CutParts, contexts, IInv, RunTyped
    <2>4. ErrorKept'
      BY <1>4 DEF CutParts, contexts, IInv, ErrorKept, CancelledFromOutside, Over
    <2> QED BY <2>1, <2>2, <2>3, <2>4 DEF IInv
  <1>5. CASE CutNothing
    <2>1. SharedTyped' /\ UNCHANGED contexts
      BY <1>5 DEF CutNothing, environment, IInv, SharedTyped
    <2>2. CASE SendWhole
      BY <2>1, <2>2, SendWholeInv
    <2>3. CASE FailRun(IF Over THEN "context" ELSE "gateway")
      <3>1. (IF Over THEN "context" ELSE "gateway") \in Errors
        BY DEF Errors
      <3> QED BY <2>1, <2>3, <3>1, FailRunInv
    <2> QED BY <1>5, <2>2, <2>3 DEF CutNothing
  <1> QED BY <1>1, <1>2, <1>3, <1>4, <1>5

\* The steps that end a wait, with a slot or without.
LEMMA WaitInv ==
    ASSUME IInv, NEW t \in Tasks,
           Acquire(t) \/ AcquireEnded(t) \/ PartUnreadable(t) \/ HedgeFires(t) \/ BackoffEnds(t)
    PROVE  IInv'
  <1> DEFINE x == task[t]
  <1>0. x \in TaskType /\ Sound(t, x)
    BY DEF IInv, TasksSound, Sound
  <1>1. CASE Acquire(t)
    <2> DEFINE y == [x EXCEPT !.at = "call", !.running = {"first"}, !.timer = ~x.whole]
    <2>1. SharedTyped' /\ UNCHANGED contexts /\ Set(t, y)
      BY <1>1 DEF Acquire, environment, IInv, SharedTyped
    <2>2. Sound(t, y)
      <3>1. y \in TaskType /\ y.at = "call" /\ y.heard = x.heard
        BY <1>0 DEF TaskType, Calls
      <3>2. x.heard = <<>>
        BY <1>0, <1>1 DEF Sound, Acquire
      <3> QED BY <3>1, <3>2 DEF Sound, HeardCancelled
    <2> QED BY <2>1, <2>2, SetInv
  <1>2. CASE AcquireEnded(t)
    <2>1. SharedTyped' /\ UNCHANGED contexts
      BY <1>2 DEF AcquireEnded, shared, environment, IInv, SharedTyped
    <2> QED BY <1>2, <2>1, FailInv DEF AcquireEnded, Errors
  <1>3. CASE PartUnreadable(t)
    <2>1. SharedTyped' /\ UNCHANGED contexts
      BY <1>3 DEF PartUnreadable, shared, environment, IInv, SharedTyped
    <2> QED BY <1>3, <2>1, FailInv DEF PartUnreadable, Errors
  <1>4. CASE HedgeFires(t)
    <2> DEFINE y == [x EXCEPT !.timer = FALSE, !.running = @ \union {"hedge"}]
               z == [x EXCEPT !.timer = FALSE]
    <2>1. SharedTyped' /\ UNCHANGED contexts
      BY <1>4 DEF HedgeFires, environment, IInv, SharedTyped
    <2>2. /\ y \in TaskType /\ y.at = x.at /\ y.heard = x.heard /\ y.won = x.won
          /\ z \in TaskType /\ z.at = x.at /\ z.heard = x.heard /\ z.won = x.won
      BY <1>0 DEF TaskType, Calls
    <2>0. x.at = "call"
      BY <1>4 DEF HedgeFires
    <2> HIDE DEF x, y, z
    <2>3. Sound(t, y) /\ Sound(t, z)
      BY <1>0, <2>0, <2>2 DEF Sound, HeardCancelled
    <2>4. Set(t, y) \/ Set(t, z)
      BY <1>4 DEF HedgeFires, x, y, z
    <2> QED BY <2>1, <2>3, <2>4, SetInv
  <1>5. CASE BackoffEnds(t)
    <2> DEFINE y == [x EXCEPT !.at = "want", !.n = @ + 1]
    <2>1. SharedTyped' /\ UNCHANGED contexts
      BY <1>5 DEF BackoffEnds, shared, environment, IInv, SharedTyped
    <2>2. Sound(t, y)
      <3>1. y \in TaskType /\ y.at = "want" /\ y.heard = x.heard /\ y.running = x.running
        <4>1. x.n + 1 \in Nat \ {0}
          BY <1>0 DEF TaskType
        <4> DEFINE m == x.n + 1
        <4> HIDE DEF m, x
        <4>2. [x EXCEPT !.at = "want", !.n = m] \in TaskType
          BY <1>0, <4>1 DEF TaskType, m
        <4> QED BY <1>0, <4>2 DEF m, TaskType
      <3>2. x.heard = <<>> /\ x.running = {}
        BY <1>0, <1>5 DEF Sound, BackoffEnds
      <3> QED BY <3>1, <3>2, IdleSound
    <2>3. CASE Set(t, y)
      BY <2>1, <2>2, <2>3, SetInv
    <2>4. CASE Done(t) /\ Fail(t, "context")
      BY <2>1, <2>4, FailInv DEF Errors
    <2> QED BY <1>5, <2>3, <2>4 DEF BackoffEnds
  <1> QED BY <1>1, <1>2, <1>3, <1>4, <1>5

\* An answer arrives.
LEMMA CallReturnsInv ==
    ASSUME IInv, NEW t \in Tasks, NEW c \in Calls, NEW o \in Outcomes, CallReturns(t, c, o)
    PROVE  IInv'
  <1> DEFINE x == task[t]
             h == Append(x.heard, <<c, o>>)
             y == [x EXCEPT !.running = @ \ {c}, !.heard = h]
  <1>0. x \in TaskType /\ Sound(t, x)
    BY DEF IInv, TasksSound, Sound
  <1>1. Onward /\ SharedTyped' /\ ErrorKept'
    BY DEF CallReturns, ReturnSlot, contexts, environment, Onward, SharedTyped, ErrorKept, IInv,
       CancelledFromOutside, Over
  <1>2. RunTyped'
    BY DEF CallReturns, contexts, RunTyped, IInv
  <1>3. x.heard \in Seq(Calls \X Outcomes) /\ x.running \subseteq Calls
    BY <1>0 DEF TaskType
  <1>4. /\ h \in Seq(Calls \X Outcomes)
        /\ \A i \in DOMAIN h : (i \in DOMAIN x.heard /\ h[i] = x.heard[i]) \/ h[i] = <<c, o>>
    BY <1>3, AppendProperties, LenProperties
  <1>5. x.at \in {"call", "drain"}
    BY <1>0 DEF CallReturns, Sound
  <1>6. /\ y \in TaskType /\ y.at = x.at /\ y.heard = h /\ y.won = x.won
    <2> HIDE DEF h
    <2> QED BY <1>0, <1>3, <1>4 DEF TaskType
  <1>7. Done(t)' <=> Done(t)
    BY DEF CallReturns, contexts, Done, Over
  <1>8. x.at = "call" /\ HeardCancelled(y) => Done(t)
    <2>1. CASE o = "Cancelled" /\ x.at = "call"
      BY <2>1 DEF CallReturns, Answers
    <2>2. CASE o # "Cancelled"
      <3> SUFFICES ASSUME x.at = "call", HeardCancelled(y) PROVE Done(t)
        OBVIOUS
      <3>1. PICK i \in DOMAIN h : h[i][2] = "Cancelled"
        BY <1>6 DEF HeardCancelled
      <3> HIDE DEF h
      <3>2. i \in DOMAIN x.heard /\ h[i] = x.heard[i]
        BY <1>4, <2>2, <3>1
      <3>3. HeardCancelled(x)
        BY <3>1, <3>2 DEF HeardCancelled
      <3> QED BY <1>0, <3>3 DEF Sound
    <2> QED BY <2>1, <2>2
  <1> PICK w : w = y
    OBVIOUS
  <1>9. Sound(t, w)'
    <2>1. Sound(t, w)
      <3> HIDE DEF x, y
      <3> QED BY <1>0, <1>5, <1>6, <1>8 DEF Sound
    <2> QED BY <1>1, <2>1, SoundOnward
  <1>10. TasksSound'
    <2>1. task' = [task EXCEPT ![t] = w]
      BY DEF CallReturns
    <2> QED BY <1>1, <1>9, <2>1, TaskChanges DEF IInv
  <1> QED BY <1>1, <1>2, <1>10 DEF IInv

\* The loop reads an answer, or the loser's end.
LEMMA HearInv ==
    ASSUME IInv, NEW t \in Tasks, Hear(t)
    PROVE  IInv'
  <1> DEFINE x == task[t]
             c == Head(x.heard)[1]
             o == Head(x.heard)[2]
             rest == [x EXCEPT !.heard = Tail(@)]
  <1>0. x \in TaskType /\ Sound(t, x) /\ x.at = "call" /\ x.heard # <<>>
    BY DEF IInv, TasksSound, Sound, Hear
  <1>1. SharedTyped' /\ UNCHANGED contexts
    BY DEF Hear, shared, environment, IInv, SharedTyped
  <1>2. c \in Calls /\ o \in Outcomes
    BY <1>0, HeadTyped
  <1>3. o = "Cancelled" => Done(t)
    BY <1>0, HeadTyped DEF Sound, HeardCancelled
  <1>4. rest \in TaskType /\ rest.at = "call" /\ (HeardCancelled(rest) => Done(t))
    <2>1. rest \in TaskType /\ rest.at = "call" /\ rest.heard = Tail(x.heard)
      BY <1>0, HeadTyped DEF TaskType
    <2>2. HeardCancelled(rest) => HeardCancelled(x)
      <3> HIDE DEF x, rest
      <3> QED BY <1>0, <2>1, HeadTyped DEF HeardCancelled
    <2> QED BY <1>0, <2>1, <2>2 DEF Sound
  <1>5. CASE Keep(t, c)
    BY <1>1, <1>2, <1>5, KeepInv
  <1>6. CASE Set(t, [rest EXCEPT !.at = "drain", !.timer = FALSE, !.won = c])
    <2> DEFINE y == [rest EXCEPT !.at = "drain", !.timer = FALSE, !.won = c]
    <2>1. Sound(t, y)
      <3> HIDE DEF rest, c
      <3>1. y \in TaskType /\ y.at = "drain" /\ y.won = c
        BY <1>2, <1>4 DEF TaskType
      <3> HIDE DEF y
      <3> QED BY <1>2, <3>1 DEF Sound
    <2> QED BY <1>1, <1>6, <2>1, SetInv
  <1>7. CASE Set(t, rest)
    <2>1. Sound(t, rest)
      <3> HIDE DEF rest
      <3> QED BY <1>4 DEF Sound
    <2> QED BY <1>1, <1>7, <2>1, SetInv
  <1>8. ASSUME NEW e \in Errors, e = "context" => o = "Cancelled", Fail(t, e)
        PROVE  IInv'
    BY <1>1, <1>3, <1>8, FailInv
  <1>9. ASSUME NEW k \in Nat, Backoff(t, k)
        PROVE  IInv'
    <2> DEFINE y == [New EXCEPT !.at = "backoff", !.whole = x.whole, !.n = x.n, !.once = k]
    <2>1. y \in TaskType /\ y.at = "backoff" /\ y.heard = <<>> /\ y.running = {}
      BY <1>0, NewTyped DEF TaskType
    <2>2. Sound(t, y)
      <3> HIDE DEF y
      <3> QED BY <2>1, IdleSound
    <2> QED BY <1>1, <1>9, <2>2, SetInv DEF Backoff
  <1>10. ASSUME Recheck(t) \/ Set(t, [New EXCEPT !.at = "recut"])
         PROVE  IInv'
    <2>1. Sound(t, [Started EXCEPT !.whole = TRUE]) /\ Sound(t, [New EXCEPT !.at = "recut"])
      BY NewTyped, IdleSound
    <2> QED BY <1>1, <1>10, <2>1, SetInv DEF Recheck
  <1>11. CASE WholeFailed(t, o)
    <2> DEFINE k == x.once + (IF o = "RetryOnce" THEN 1 ELSE 0)
    <2>1. k \in Nat
      BY <1>0 DEF TaskType
    <2>2. \/ o = "Cancelled" /\ Fail(t, "context")
          \/ Fail(t, "original")
          \/ Backoff(t, k)
      BY <1>11 DEF WholeFailed
    <2> HIDE DEF k, o
    <2> QED BY <2>1, <2>2, <1>8, <1>9 DEF Errors
  <1>12. CASE PartFailed(t, o)
    <2>1. \/ o = "Cancelled" /\ Fail(t, "context")
          \/ Fail(t, "route")
          \/ Backoff(t, 0)
          \/ Recheck(t) \/ Set(t, [New EXCEPT !.at = "recut"])
      BY <1>12 DEF PartFailed
    <2> HIDE DEF o
    <2> QED BY <2>1, <1>8, <1>9, <1>10 DEF Errors
  <1>13. \/ Keep(t, c) \/ Set(t, [rest EXCEPT !.at = "drain", !.timer = FALSE, !.won = c])
         \/ Set(t, rest) \/ WholeFailed(t, o) \/ PartFailed(t, o)
    BY DEF Hear
  <1> QED BY <1>5, <1>6, <1>7, <1>11, <1>12, <1>13

LEMMA DrainInv ==
    ASSUME IInv, NEW t \in Tasks, Drain(t)
    PROVE  IInv'
  <1>1. Onward /\ SharedTyped' /\ ErrorKept'
    BY DEF Drain, contexts, shared, environment, Onward, SharedTyped, ErrorKept, IInv,
       CancelledFromOutside, Over
  <1>2. task[t].won \in Calls
    BY DEF Drain, IInv, TasksSound, Sound
  <1>3. RunTyped'
    BY <1>2 DEF Drain, contexts, RunTyped, IInv
  <1>4. TasksSound'
    <2>1. Sound(t, Ended)'
      BY <1>1, NewTyped, IdleSound, SoundOnward
    <2> QED BY <1>1, <2>1, TaskChanges DEF Drain, IInv
  <1> QED BY <1>1, <1>3, <1>4 DEF IInv

LEMMA HalveInv ==
    ASSUME IInv, NEW t \in Tasks, Halve(t)
    PROVE  IInv'
  <1> DEFINE x == task[t]
  <1>0. x \in TaskType /\ Sound(t, x)
    BY DEF IInv, TasksSound, Sound
  <1>1. SharedTyped' /\ UNCHANGED contexts
    BY DEF Halve, RecutOpens, RecutEnded, RecutDone, RecutFails, shared, environment, IInv, SharedTyped
  <1>2. CASE RecutOpens(t)
    <2> DEFINE y == [x EXCEPT !.at = "cutting"]
    <2>1. Sound(t, y)
      <3>1. y \in TaskType /\ y.at = "cutting" /\ y.heard = x.heard /\ y.running = x.running
        BY <1>0 DEF TaskType
      <3>2. x.heard = <<>> /\ x.running = {}
        BY <1>0, <1>2 DEF RecutOpens, Sound
      <3> QED BY <3>1, <3>2, IdleSound
    <2> QED BY <1>1, <1>2, <2>1, SetInv DEF RecutOpens
  <1>3. CASE RecutEnded(t)
    BY <1>1, <1>3, FailInv DEF RecutEnded, Errors
  <1>4. CASE RecutDone(t)
    <2>1. Onward /\ UNCHANGED run
      BY <1>4 DEF RecutDone, run, contexts, Onward
    <2>2. RunTyped' /\ ErrorKept'
      BY <1>1, <2>1 DEF run, contexts, RunTyped, ErrorKept, IInv, CancelledFromOutside, Over
    <2>3. TasksSound'
      <3>1. CASE x.cuts = 0
        <4> DEFINE y == [x EXCEPT !.at = "recut", !.cuts = 1]
        <4>1. y \in TaskType /\ y.at = "recut" /\ y.heard = x.heard /\ y.running = x.running
          <5> HIDE DEF x
          <5>1. 1 \in 0 .. 1
            OBVIOUS
          <5> QED BY <1>0, <5>1 DEF TaskType
        <4>2. x.heard = <<>> /\ x.running = {}
          BY <1>0, <1>4 DEF RecutDone, Sound
        <4>3. Sound(t, y)
          BY <4>1, <4>2, IdleSound
        <4>4. PICK w : w = y
          OBVIOUS
        <4>5. task' = [task EXCEPT ![t] = w] /\ Sound(t, w)'
          BY <1>4, <2>1, <3>1, <4>3, <4>4, SoundOnward DEF RecutDone
        <4> QED BY <2>1, <4>5, TaskChanges DEF IInv
      <3>2. CASE StartHalves(t)
        <4>1. \A s \in Tasks : Sound(s, Ended)' /\ Sound(s, Started)'
          BY <2>1, NewTyped, IdleSound, SoundOnward
        <4>2. \A s \in Tasks : Sound(s, task[s])'
          <5>1. \A s \in Tasks : task'[s] \in {task[s], Ended, Started}
            BY <3>2 DEF StartHalves, IInv, TasksSound
          <5>2. \A s \in Tasks : Sound(s, task[s])
            BY DEF IInv, TasksSound
          <5>3. ASSUME NEW s \in Tasks
                PROVE  Sound(s, task[s])'
            <6>1. PICK w : w = task'[s]
              OBVIOUS
            <6>2. Sound(s, w)'
              BY <2>1, <4>1, <5>1, <5>2, <6>1, SoundOnward
            <6> QED BY <6>1, <6>2
          <5> QED BY <5>3
        <4> QED BY <3>2, <4>2 DEF StartHalves, IInv, TasksSound
      <3> QED BY <1>4, <3>1, <3>2 DEF RecutDone
    <2> QED BY <1>1, <2>2, <2>3 DEF IInv
  <1>5. CASE RecutFails(t)
    <2>1. PICK e \in {"part", "gateway"} : Fail(t, IF Done(t) THEN "context" ELSE e)
      BY <1>5 DEF RecutFails
    <2>2. (IF Done(t) THEN "context" ELSE e) \in Errors
      BY <2>1 DEF Errors
    <2> QED BY <1>1, <2>1, <2>2, FailInv
  <1> QED BY <1>2, <1>3, <1>4, <1>5 DEF Halve

\* The steps of run once its parts have ended.
LEMMA PartsEndInv ==
    ASSUME IInv, PartsFailed \/ Merge \/ MergeCheckFails \/ MergeFails \/ ReturnError
    PROVE  IInv'
  <1>1. SharedTyped' /\ UNCHANGED contexts
    BY DEF PartsFailed, Merge, MergeCheckFails, MergeFails, ReturnError, shared, environment,
       IInv, SharedTyped
  <1>2. CASE MergeCheckFails
    BY <1>1, <1>2, SendWholeInv DEF MergeCheckFails
  <1>3. CASE PartsFailed \/ Merge \/ MergeFails \/ ReturnError
    <2>1. TasksSound'
      BY <1>3, TasksStay DEF PartsFailed, Merge, MergeFails, ReturnError, contexts, Onward, IInv
    <2>2. RunTyped'
      BY <1>3 DEF PartsFailed, Merge, MergeFails, ReturnError, Cleanup, Verdict, contexts,
         RunTyped, IInv, Errors
    <2>3. ErrorKept'
      BY <1>3 DEF PartsFailed, Merge, MergeFails, ReturnError, contexts, IInv, ErrorKept,
         CancelledFromOutside, Over
    <2> QED BY <1>1, <2>1, <2>2, <2>3 DEF IInv
  <1> QED BY <1>2, <1>3

\* The world around the run, which keeps the tasks and only ever ends contexts.
LEMMA WorldInv ==
    ASSUME IInv, Stop \/ Expire \/ OthersTake \/ OthersCall \/ OthersClose \/ UNCHANGED vars
    PROVE  IInv'
  <1>1. Onward /\ UNCHANGED <<run, task>> /\ stopped' \in BOOLEAN /\ late' \in BOOLEAN
    <2>1. stopped \in BOOLEAN /\ late \in BOOLEAN
      BY DEF IInv, RunTyped
    <2>2. CASE Stop \/ Expire
      <3>1. UNCHANGED <<run, task>> /\ (stopped' = stopped \/ stopped' = TRUE)
            /\ (late' = late \/ late' = TRUE)
        BY <2>2 DEF Stop, Expire
      <3>2. cancelled' = cancelled
        BY <3>1 DEF run
      <3>3. stopped' \in BOOLEAN /\ late' \in BOOLEAN
        BY <2>1, <3>1
      <3>4. Onward
        BY <3>1, <3>2 DEF Onward
      <3> QED BY <3>1, <3>3, <3>4
    <2>3. CASE OthersTake \/ OthersCall \/ OthersClose \/ UNCHANGED vars
      <3>1. UNCHANGED <<run, task, contexts>>
        BY <2>3 DEF OthersTake, OthersCall, OthersClose, vars
      <3> QED BY <2>1, <3>1 DEF run, contexts, Onward
    <2> QED BY <2>2, <2>3
  <1>2. TasksSound'
    BY <1>1, TasksStay DEF IInv
  <1>3. SharedTyped'
    BY DEF Stop, Expire, OthersTake, OthersCall, OthersClose, vars, shared, environment, IInv,
       SharedTyped
  <1>4. RunTyped' /\ ErrorKept'
    BY <1>1 DEF run, Onward, IInv, RunTyped, ErrorKept, CancelledFromOutside, Over
  <1> QED BY <1>2, <1>3, <1>4 DEF IInv

LEMMA StepInv == IInv /\ [Next]_vars => IInv'
  <1> SUFFICES ASSUME IInv, [Next]_vars PROVE IInv'
    OBVIOUS
  <1>1. ASSUME NEW t \in Tasks, Attempt(t)
        PROVE  IInv'
    <2>1. CASE \E c \in Calls, o \in Outcomes : CallReturns(t, c, o)
      BY <2>1, CallReturnsInv
    <2>2. CASE Hear(t)
      BY <2>2, HearInv
    <2>3. CASE Drain(t)
      BY <2>3, DrainInv
    <2>4. CASE Acquire(t) \/ AcquireEnded(t) \/ PartUnreadable(t) \/ HedgeFires(t) \/ BackoffEnds(t)
      BY <2>4, WaitInv
    <2> QED BY <1>1, <2>1, <2>2, <2>3, <2>4 DEF Attempt
  <1>2. ASSUME NEW t \in Tasks, Halve(t)
        PROVE  IInv'
    BY <1>2, HalveInv
  <1>3. CASE DecideUnsplit \/ OpenSource \/ OpenSourceEnded \/ CutParts \/ CutNothing
    BY <1>3, DecideInv
  <1>4. CASE PartsFailed \/ Merge \/ MergeCheckFails \/ MergeFails \/ ReturnError
    BY <1>4, PartsEndInv
  <1>5. CASE Stop \/ Expire \/ OthersTake \/ OthersCall \/ OthersClose \/ UNCHANGED vars
    BY <1>5, WorldInv
  <1> QED BY <1>1, <1>2, <1>3, <1>4, <1>5 DEF Next, Returned

LEMMA Invariant == Spec => []IInv
  BY InitInv, StepInv, PTL DEF Spec

\* Every variable of a run keeps its type, at any size of document: in
\* particular a run returns one of the three verdicts, whatever the error.
THEOREM TypeCorrect == Spec => []TypeOK
  BY Invariant, InvTyped, PTL

\* The error of a run is a cancellation only when its context was ended from
\* outside: that a failed part cancels its siblings never shows as the error
\* of the job (fanout.fail keeps the first, ctxErr names the rest).
THEOREM CancelledOutside == Spec => []CancelledFromOutside
  <1>1. IInv => CancelledFromOutside
    BY DEF IInv, ErrorKept
  <1> QED BY <1>1, Invariant, PTL

-----------------------------------------------------------------------------
(* Who owns the slots, the permits and the pages *)

\* A task at work fits the phase: parts while there are parts, the document
\* while the whole is analysed.  The first attempt has no hedge before its timer
\* fires, and only a part of two pages or more is cut again.
Busy(x) == x.at \notin {"none", "ended"}
Fits(t, x, ph) ==
    /\ Busy(x) => (ph = "parts" /\ t # Doc) \/ (ph = "whole" /\ t = Doc /\ x.whole)
    /\ x.at = "call" /\ x.timer => "hedge" \notin x.running
    /\ x.at \in {"recut", "cutting"} => ~x.whole /\ t[1] < t[2]
Placed ==
    /\ phase \in {"decide", "cut"} => results = {}
    /\ \A t \in Tasks : Fits(t, task[t], phase)

\* The tasks that own pages share none and, until one fails, own them all.
Owner(t) == Busy(task[t]) \/ t \in Analysed
Disjoint(s, t) == s[2] < t[1] \/ t[2] < s[1]
Settled == Doc \notin Analysed /\ \A t \in Tasks : t \in Analysed => ~Busy(task[t])
Apart ==
    phase = "parts" => /\ Settled
                       /\ \A s, t \in Tasks : Owner(s) /\ Owner(t) /\ s # t => Disjoint(s, t)
Covered ==
    phase = "parts" /\ err = "none" =>
        \A page \in 1 .. N : \E t \in Tasks : Owner(t) /\ page \in Pages(t)
Owned == Placed /\ Apart /\ Covered

\* The calls in flight and the tasks that cut, of the tasks f.
CallsOf(f) == {tc \in Tasks \X Calls : tc[2] \in f[tc[1]].running}
CutsOf(f) == {t \in Tasks : f[t].at = "cutting"}
Counted ==
    /\ inUse <= Slots /\ open <= Permits
    /\ inUse = others + Cardinality(CallsOf(task))
    /\ open = otherDocs + Cardinality(CutsOf(task)) + (IF phase = "cut" THEN 1 ELSE 0)

-----------------------------------------------------------------------------
(* Counting *)

LEMMA CallsFinite == ASSUME NEW f PROVE IsFiniteSet(CallsOf(f)) /\ IsFiniteSet(CutsOf(f))
  <1>1. IsFiniteSet(1 .. N)
    BY EngineAssumption, FS_Interval
  <1>2. IsFiniteSet((1 .. N) \X (1 .. N))
    BY <1>1, FS_Product
  <1>3. IsFiniteSet(Tasks)
    BY <1>2, FS_Subset DEF Tasks
  <1>4. IsFiniteSet(Calls)
    <2>1. IsFiniteSet({"first"})
      BY FS_Singleton
    <2>2. IsFiniteSet({"first"} \union {"hedge"})
      BY <2>1, FS_AddElement
    <2>3. Calls = {"first"} \union {"hedge"}
      BY DEF Calls
    <2> QED BY <2>2, <2>3
  <1>5. IsFiniteSet(Tasks \X Calls)
    BY <1>3, <1>4, FS_Product
  <1>6. CallsOf(f) \in SUBSET (Tasks \X Calls) /\ CutsOf(f) \in SUBSET Tasks
    BY DEF CallsOf, CutsOf
  <1> QED BY <1>3, <1>5, <1>6, FS_Subset

\* One task changes: its calls, and whether it cuts, decide what changes.
LEMMA CallsSame ==
    ASSUME NEW f, DOMAIN f = Tasks, NEW t \in Tasks, NEW y, y.running = f[t].running
    PROVE  CallsOf([f EXCEPT ![t] = y]) = CallsOf(f)
  BY DEF CallsOf

LEMMA CallsMore ==
    ASSUME NEW f, DOMAIN f = Tasks, NEW t \in Tasks, NEW c \in Calls, c \notin f[t].running,
           NEW y, y.running = f[t].running \union {c}
    PROVE  Cardinality(CallsOf([f EXCEPT ![t] = y])) = Cardinality(CallsOf(f)) + 1
  <1>1. CallsOf([f EXCEPT ![t] = y]) = CallsOf(f) \union {<<t, c>>} /\ <<t, c>> \notin CallsOf(f)
    BY DEF CallsOf
  <1> QED BY <1>1, CallsFinite, FS_AddElement

LEMMA CallsLess ==
    ASSUME NEW f, DOMAIN f = Tasks, NEW t \in Tasks, NEW c \in Calls, c \in f[t].running,
           NEW y, y.running = f[t].running \ {c}
    PROVE  Cardinality(CallsOf([f EXCEPT ![t] = y])) = Cardinality(CallsOf(f)) - 1
  <1>1. CallsOf([f EXCEPT ![t] = y]) = CallsOf(f) \ {<<t, c>>} /\ <<t, c>> \in CallsOf(f)
    BY DEF CallsOf
  <1> QED BY <1>1, CallsFinite, FS_RemoveElement

LEMMA CutsSame ==
    ASSUME NEW f, DOMAIN f = Tasks, NEW t \in Tasks, NEW y, y.at = "cutting" <=> f[t].at = "cutting"
    PROVE  CutsOf([f EXCEPT ![t] = y]) = CutsOf(f)
  BY DEF CutsOf

LEMMA CutsMore ==
    ASSUME NEW f, DOMAIN f = Tasks, NEW t \in Tasks, NEW y, y.at = "cutting", f[t].at # "cutting"
    PROVE  Cardinality(CutsOf([f EXCEPT ![t] = y])) = Cardinality(CutsOf(f)) + 1
  <1>1. CutsOf([f EXCEPT ![t] = y]) = CutsOf(f) \union {t} /\ t \notin CutsOf(f)
    BY DEF CutsOf
  <1> QED BY <1>1, CallsFinite, FS_AddElement

LEMMA CutsLess ==
    ASSUME NEW f, DOMAIN f = Tasks, NEW t \in Tasks, NEW y, y.at # "cutting", f[t].at = "cutting"
    PROVE  Cardinality(CutsOf([f EXCEPT ![t] = y])) = Cardinality(CutsOf(f)) - 1
  <1>1. CutsOf([f EXCEPT ![t] = y]) = CutsOf(f) \ {t} /\ t \in CutsOf(f)
    BY DEF CutsOf
  <1> QED BY <1>1, CallsFinite, FS_RemoveElement

\* No task is at work: nothing is held.
LEMMA NothingHeld ==
    ASSUME NEW f, \A t \in Tasks : f[t].running = {} /\ f[t].at # "cutting"
    PROVE  Cardinality(CallsOf(f)) = 0 /\ Cardinality(CutsOf(f)) = 0
  <1>1. CallsOf(f) = {} /\ CutsOf(f) = {}
    BY DEF CallsOf, CutsOf
  <1> QED BY <1>1, FS_EmptySet

LEMMA CountsTyped ==
    ASSUME NEW f PROVE Cardinality(CallsOf(f)) \in Nat /\ Cardinality(CutsOf(f)) \in Nat
  BY CallsFinite, FS_CardinalityType

-----------------------------------------------------------------------------
(* Helpers of the actions *)

LEMMA Fresh ==
    /\ New.at = "none" /\ New.running = {} /\ ~New.whole
    /\ Started.at = "want" /\ Started.running = {} /\ ~Started.whole
    /\ Ended.at = "ended" /\ Ended.running = {}
  BY DEF New, Started, Ended

LEMMA FreshFits ==
    ASSUME NEW t, NEW ph
    PROVE  /\ Fits(t, New, ph) /\ Fits(t, Ended, ph)
           /\ ph = "parts" /\ t # Doc => Fits(t, Started, ph)
  BY Fresh DEF Fits, Busy

\* A task that is not at work holds nothing.
LEMMA IdleHolds ==
    ASSUME IInv, NEW t \in Tasks, task[t].at \notin {"call", "drain"}
    PROVE  task[t].running = {}
  BY DEF IInv, TasksSound, Sound

LEMMA DocTask == Doc \in Tasks
  BY EngineAssumption DEF Doc, Tasks

\* As long as no page changes its owner, what a step must show is little.
LEMMA OwnersStay ==
    ASSUME Owned, phase' = phase, err' = err, \A s \in Tasks : Owner(s)' <=> Owner(s),
           phase = "parts" => Settled'
    PROVE  Apart' /\ Covered'
  BY DEF Owned, Apart, Covered

LEMMA SetOwned ==
    ASSUME IInv, Owned, NEW t \in Tasks, NEW y, Busy(task[t]), Busy(y), Fits(t, y, phase),
           Set(t, y)
    PROVE  Owned'
  <1>1. /\ task' = [task EXCEPT ![t] = y] /\ DOMAIN task = Tasks
        /\ phase' = phase /\ err' = err /\ results' = results
    BY DEF Set, run, IInv, TasksSound
  <1>2. Placed'
    BY <1>1 DEF Owned, Placed
  <1>3. \A s \in Tasks : Owner(s)' <=> Owner(s)
    BY <1>1 DEF Owner, Analysed
  <1>4. phase = "parts" => Settled'
    BY <1>1 DEF Owned, Apart, Settled, Analysed
  <1> QED BY <1>1, <1>2, <1>3, <1>4, OwnersStay DEF Owned

\* The document is done: nobody is at work.
LEMMA DocOwned ==
    ASSUME IInv, Owned, Busy(task[Doc]), task' = [task EXCEPT ![Doc] = Ended],
           phase' \in {"whole", "failed", "returned"}
    PROVE  Owned'
  <1>1. phase = "whole" /\ DOMAIN task = Tasks
    BY DocTask DEF Owned, Placed, Fits, IInv, TasksSound
  <1>2. \A s \in Tasks : ~Busy(task'[s])
    BY <1>1, Fresh DEF Owned, Placed, Fits, Busy
  <1>3. \A s \in Tasks : Fits(s, task'[s], phase')
    BY <1>2, <1>1, FreshFits DEF Owned, Placed, Fits, Busy
  <1> QED BY <1>3 DEF Owned, Placed, Apart, Covered

LEMMA FailOwned ==
    ASSUME IInv, Owned, NEW t \in Tasks, Busy(task[t]), NEW e \in Errors, Fail(t, e)
    PROVE  Owned'
  <1>1. CASE t = Doc
    BY <1>1, DocOwned DEF Fail, FailDoc
  <1>2. CASE t # Doc
    <2>1. /\ task' = [task EXCEPT ![t] = Ended] /\ DOMAIN task = Tasks
          /\ phase' = phase /\ results' = results /\ err' # "none"
      BY <1>2 DEF Fail, FailPart, IInv, TasksSound, Errors
    <2>2. Placed'
      BY <2>1, FreshFits DEF Owned, Placed
    <2>3. \A s \in Tasks : Owner(s)' => Owner(s)
      BY <2>1, Fresh DEF Owner, Analysed, Busy
    <2>4. Apart'
      BY <2>1, <2>3, Fresh DEF Owned, Apart, Settled, Analysed, Busy
    <2> QED BY <2>1, <2>2, <2>4 DEF Owned, Covered
  <1> QED BY <1>1, <1>2

\* A part ends with its result: its pages keep their owner.
LEMMA ResultOwned ==
    ASSUME IInv, Owned, NEW t \in Tasks, NEW c, Busy(task[t]),
           task' = [task EXCEPT ![t] = Ended], results' = results \union {<<t, c>>},
           phase' = phase, err' = err
    PROVE  Owned'
  <1>1. DOMAIN task = Tasks
    BY DEF IInv, TasksSound
  <1>2. Placed'
    <2>1. phase \notin {"decide", "cut"}
      BY DEF Owned, Placed, Fits
    <2>2. \A s \in Tasks : Fits(s, task'[s], phase)
      BY <1>1, FreshFits DEF Owned, Placed
    <2> QED BY <2>1, <2>2 DEF Placed
  <1>3. \A s : s \in Analysed' <=> s \in Analysed \/ s = t
    <2>1. <<t, c>> \in results' /\ <<t, c>>[1] = t
      OBVIOUS
    <2>2. ASSUME NEW s, s \in Analysed PROVE s \in Analysed'
      BY <2>2 DEF Analysed
    <2>3. ASSUME NEW s, s \in Analysed' PROVE s \in Analysed \/ s = t
      BY <2>3 DEF Analysed
    <2>4. t \in Analysed'
      BY <2>1 DEF Analysed
    <2> QED BY <2>2, <2>3, <2>4
  <1>4. \A s \in Tasks : Owner(s)' <=> Owner(s)
    BY <1>1, <1>3, Fresh DEF Owner, Busy
  <1>5. phase = "parts" => Settled'
    BY <1>1, <1>3, Fresh DEF Owned, Apart, Settled, Placed, Fits, Busy
  <1> QED BY <1>2, <1>4, <1>5, OwnersStay DEF Owned

LEMMA KeepOwned ==
    ASSUME IInv, Owned, NEW t \in Tasks, NEW c, Busy(task[t]), Keep(t, c)
    PROVE  Owned'
  <1>1. CASE t = Doc
    BY <1>1, DocOwned DEF Keep, KeepDoc
  <1>2. CASE t # Doc
    BY <1>2, ResultOwned DEF Keep, KeepPart
  <1> QED BY <1>1, <1>2

\* A step of one task that holds as much after it as before.
LEMMA CountedKept ==
    ASSUME IInv, Counted, NEW t \in Tasks, NEW y, task' = [task EXCEPT ![t] = y],
           y.running = task[t].running, y.at = "cutting" <=> task[t].at = "cutting",
           phase' = "cut" <=> phase = "cut", UNCHANGED <<shared, environment>>
    PROVE  Counted'
  <1>1. DOMAIN task = Tasks
    BY DEF IInv, TasksSound
  <1>2. CallsOf(task') = CallsOf(task) /\ CutsOf(task') = CutsOf(task)
    BY <1>1, CallsSame, CutsSame
  <1> QED BY <1>2 DEF Counted, shared, environment

\* A task that held nothing ends.
LEMMA EndCounted ==
    ASSUME IInv, Owned, Counted, NEW t \in Tasks, Busy(task[t]), task[t].at # "cutting",
           task[t].running = {}, task' = [task EXCEPT ![t] = Ended],
           phase' \in {phase, "failed", "returned"}, UNCHANGED <<shared, environment>>
    PROVE  Counted'
  <1>1. phase # "cut"
    BY DEF Owned, Placed, Fits
  <1> QED BY <1>1, Fresh, CountedKept

LEMMA FailCounted ==
    ASSUME IInv, Owned, Counted, NEW t \in Tasks, Busy(task[t]), task[t].at # "cutting",
           task[t].running = {}, NEW e, Fail(t, e), UNCHANGED <<shared, environment>>
    PROVE  Counted'
  BY EndCounted DEF Fail, FailDoc, FailPart

-----------------------------------------------------------------------------
(* The actions *)

LEMMA InitOwned == Init => Owned /\ Counted
  <1> SUFFICES ASSUME Init PROVE Owned /\ Counted
    OBVIOUS
  <1>1. \A t \in Tasks : task[t] = New
    BY DEF Init
  <1>2. Placed
    BY <1>1, FreshFits DEF Init, Placed
  <1>3. Cardinality(CallsOf(task)) = 0 /\ Cardinality(CutsOf(task)) = 0
    BY <1>1, Fresh, NothingHeld
  <1> QED BY <1>2, <1>3, EngineAssumption DEF Init, Owned, Apart, Covered, Counted

\* The whole document is sent when no task is at work.
LEMMA SendWholeOwned ==
    ASSUME IInv, Owned, Counted, \A t \in Tasks : ~Busy(task[t]), SendWhole,
           UNCHANGED <<inUse, environment>>,
           open' = (IF phase = "cut" THEN open - 1 ELSE open)
    PROVE  Owned' /\ Counted'
  <1> DEFINE y == [Started EXCEPT !.whole = TRUE]
  <1>1. /\ task' = [task EXCEPT ![Doc] = y] /\ DOMAIN task = Tasks /\ phase' = "whole"
    BY DEF SendWhole, IInv, TasksSound
  <1>2. y.at = "want" /\ y.running = {} /\ y.whole = TRUE
    BY DEF Started, New
  <1> HIDE DEF y
  <1>3. \A s \in Tasks : Fits(s, task'[s], "whole")
    BY <1>1, <1>2, DocTask DEF Owned, Placed, Fits, Busy
  <1>4. Owned'
    BY <1>1, <1>3 DEF Owned, Placed, Apart, Covered
  <1>5. \A t \in Tasks : task[t].running = {} /\ task[t].at # "cutting"
    BY IdleHolds DEF Busy
  <1>6. \A t \in Tasks : task'[t].running = {} /\ task'[t].at # "cutting"
    BY <1>1, <1>2, <1>5
  <1>7. /\ Cardinality(CallsOf(task)) = 0 /\ Cardinality(CutsOf(task)) = 0
        /\ Cardinality(CallsOf(task')) = 0 /\ Cardinality(CutsOf(task')) = 0
    BY <1>5, <1>6, NothingHeld
  <1>8. {inUse, open, others, otherDocs} \subseteq Int /\ inUse' = inUse
        /\ others' = others /\ otherDocs' = otherDocs
    BY DEF environment, IInv, SharedTyped
  <1>9. Counted'
    BY <1>1, <1>7, <1>8, EngineAssumption DEF Counted
  <1> QED BY <1>4, <1>9

\* The run fails before any task has started.
LEMMA FailRunOwned ==
    ASSUME IInv, Owned, Counted, phase \in {"decide", "cut"}, NEW e, FailRun(e),
           UNCHANGED <<inUse, environment>>,
           open' = (IF phase = "cut" THEN open - 1 ELSE open)
    PROVE  Owned' /\ Counted'
  <1>1. phase' = "failed" /\ task' = task /\ inUse' = inUse /\ others' = others /\ otherDocs' = otherDocs
    BY DEF FailRun, environment
  <1>2. Owned'
    BY <1>1 DEF Owned, Placed, Fits, Busy, Apart, Covered
  <1>3. {inUse, open, others, otherDocs} \subseteq Int
    BY DEF IInv, SharedTyped
  <1>4. Counted'
    <2>1. Cardinality(CallsOf(task)) \in Nat /\ Cardinality(CutsOf(task)) \in Nat
      BY CountsTyped
    <2> QED BY <1>1, <1>3, <2>1, EngineAssumption DEF Counted
  <1> QED BY <1>2, <1>4

\* The plan shares the pages among the parts, and no part is the document.
LEMMA CutPartsOwned ==
    ASSUME IInv, Owned, Counted, CutParts
    PROVE  Owned' /\ Counted'
  <1> DEFINE parts == Plan(N, SplitPages)
             k == PartCount(N, SplitPages)
             Planned(t) == \E i \in DOMAIN parts : parts[i] = t
  <1>1. /\ N \in Nat \ {0} /\ SplitPages \in Nat \ {0} /\ N > SplitPages
        /\ phase = "cut" /\ phase' = "parts" /\ results' = {}
        /\ DOMAIN task = Tasks
    BY EngineAssumption DEF CutParts, Owned, Placed, IInv, TasksSound
  <1>2. /\ DOMAIN parts = 1 .. k
        /\ \A i \in 1 .. k : /\ parts[i] \in (1 .. N) \X (1 .. N)
                             /\ parts[i][1] <= parts[i][2]
                             /\ parts[i][2] - parts[i][1] < SplitPages
        /\ \A i, j \in 1 .. k : i < j => parts[i][2] < parts[j][1]
    BY <1>1, PlanApart
  <1>3. \A page \in 1 .. N : \E i \in 1 .. k : page \in Pages(parts[i])
    BY <1>1, PlanReaches
  <1>4. k \in Nat
    BY <1>1, PartCountCeiling
  <1>5. task' = [t \in Tasks |-> IF Planned(t) THEN Started ELSE New]
    BY DEF CutParts
  <1> HIDE DEF parts, k
  <1>6. \A i \in 1 .. k : parts[i] \in Tasks /\ parts[i] # Doc
    BY <1>1, <1>2 DEF Tasks, Doc
  <1>7. \A t \in Tasks : Fits(t, task'[t], "parts")
    BY <1>2, <1>5, <1>6, FreshFits
  <1>8. \A t \in Tasks : Owner(t)' <=> Planned(t)
    BY <1>1, <1>5, Fresh DEF Owner, Busy, Analysed
  <1>9. Settled'
    BY <1>1 DEF Settled, Analysed
  <1>10. ASSUME NEW s \in Tasks, NEW t \in Tasks, Planned(s), Planned(t), s # t
         PROVE  Disjoint(s, t)
    <2>1. PICK i \in 1 .. k, j \in 1 .. k : parts[i] = s /\ parts[j] = t
      BY <1>2, <1>10
    <2>2. i < j \/ j < i
      BY <1>4, <1>10, <2>1
    <2> QED BY <1>2, <2>1, <2>2 DEF Disjoint
  <1>11. \A page \in 1 .. N : \E t \in Tasks : Planned(t) /\ page \in Pages(t)
    BY <1>2, <1>3, <1>6
  <1> HIDE DEF Planned
  <1>12. Owned'
    BY <1>1, <1>7, <1>8, <1>9, <1>10, <1>11 DEF Owned, Placed, Apart, Covered
  <1>13. \A t \in Tasks : task[t].running = {} /\ task[t].at # "cutting"
    BY <1>1, IdleHolds DEF Owned, Placed, Fits, Busy
  <1>14. \A t \in Tasks : task'[t].running = {} /\ task'[t].at # "cutting"
    BY <1>5, Fresh
  <1>15. /\ Cardinality(CallsOf(task)) = 0 /\ Cardinality(CutsOf(task)) = 0
         /\ Cardinality(CallsOf(task')) = 0 /\ Cardinality(CutsOf(task')) = 0
    BY <1>13, <1>14, NothingHeld
  <1>16. {inUse, open, others, otherDocs} \subseteq Int /\ inUse' = inUse /\ open' = open - 1
         /\ others' = others /\ otherDocs' = otherDocs
    BY DEF CutParts, environment, IInv, SharedTyped
  <1>17. Counted'
    BY <1>1, <1>15, <1>16, EngineAssumption DEF Counted
  <1> QED BY <1>12, <1>17

LEMMA DecideOwned ==
    ASSUME IInv, Owned, Counted,
           DecideUnsplit \/ OpenSource \/ OpenSourceEnded \/ CutParts \/ CutNothing
    PROVE  Owned' /\ Counted'
  <1>1. phase \in {"decide", "cut"}
    BY DEF DecideUnsplit, OpenSource, OpenSourceEnded, CutParts, CutNothing
  <1>2. \A t \in Tasks : ~Busy(task[t])
    BY <1>1 DEF Owned, Placed, Fits
  <1>3. CASE DecideUnsplit
    BY <1>2, <1>3, SendWholeOwned, FailRunOwned DEF DecideUnsplit, shared
  <1>4. CASE OpenSource
    <2>1. /\ phase = "decide" /\ phase' = "cut" /\ open < Permits /\ open' = open + 1
          /\ task' = task /\ results' = results
          /\ inUse' = inUse /\ others' = others /\ otherDocs' = otherDocs
      BY <1>4 DEF OpenSource, Unparsed, environment
    <2>2. Owned'
      BY <1>2, <2>1 DEF Owned, Placed, Fits, Apart, Covered
    <2>3. {inUse, open, others, otherDocs} \subseteq Int
      BY DEF IInv, SharedTyped
    <2>4. Counted'
      BY <2>1, <2>3, CountsTyped, EngineAssumption DEF Counted
    <2> QED BY <2>2, <2>4
  <1>5. CASE OpenSourceEnded
    BY <1>5, FailRunOwned DEF OpenSourceEnded, shared
  <1>6. CASE CutParts
    BY <1>6, CutPartsOwned
  <1>7. CASE CutNothing
    BY <1>1, <1>2, <1>7, SendWholeOwned, FailRunOwned DEF CutNothing
  <1> QED BY <1>3, <1>4, <1>5, <1>6, <1>7

\* The steps that end a wait, with a slot or without.
LEMMA WaitOwned ==
    ASSUME IInv, Owned, Counted, NEW t \in Tasks,
           Acquire(t) \/ AcquireEnded(t) \/ PartUnreadable(t) \/ HedgeFires(t) \/ BackoffEnds(t)
    PROVE  Owned' /\ Counted'
  <1> DEFINE x == task[t]
  <1>0. x \in TaskType /\ Fits(t, x, phase) /\ DOMAIN task = Tasks
    BY DEF IInv, TasksSound, Sound, Owned, Placed
  <1>1. {inUse, open, others, otherDocs} \subseteq Int /\ Slots \in Nat
    BY EngineAssumption DEF IInv, SharedTyped
  <1>2. CASE Acquire(t)
    <2> DEFINE y == [x EXCEPT !.at = "call", !.running = {"first"}, !.timer = ~x.whole]
    <2>1. y.at = "call" /\ y.running = {"first"} /\ y.whole = x.whole
      BY <1>0 DEF TaskType
    <2>2. Set(t, y) /\ x.at = "want"
      BY <1>2 DEF Acquire
    <2>3. x.running = {}
      BY <2>2, IdleHolds
    <2> HIDE DEF y
    <2>4. Fits(t, y, phase) /\ Busy(x) /\ Busy(y)
      BY <1>0, <2>1, <2>2 DEF Fits, Busy
    <2>5. Owned'
      BY <2>2, <2>4, SetOwned
    <2>6. task' = [task EXCEPT ![t] = y] /\ phase' = phase
      BY <2>2 DEF Set, run
    <2>7. Cardinality(CallsOf(task')) = Cardinality(CallsOf(task)) + 1
      <3>1. "first" \in Calls /\ "first" \notin x.running /\ y.running = x.running \union {"first"}
        BY <2>1, <2>3 DEF Calls
      <3> QED BY <1>0, <2>6, <3>1, CallsMore
    <2>8. CutsOf(task') = CutsOf(task)
      BY <1>0, <2>1, <2>2, <2>6, CutsSame
    <2>9. inUse < Slots /\ inUse' = inUse + 1 /\ open' = open /\ others' = others /\ otherDocs' = otherDocs
      BY <1>2 DEF Acquire, Free, environment
    <2>10. Counted'
      BY <1>1, <2>6, <2>7, <2>8, <2>9, CountsTyped DEF Counted
    <2> QED BY <2>5, <2>10
  <1>3. CASE AcquireEnded(t) \/ PartUnreadable(t)
    <2>1. x.at = "want" /\ (Fail(t, "context") \/ Fail(t, "gateway")) /\ UNCHANGED <<shared, environment>>
      BY <1>3 DEF AcquireEnded, PartUnreadable
    <2>2. x.running = {} /\ Busy(x) /\ x.at # "cutting"
      BY <2>1, IdleHolds DEF Busy
    <2> QED BY <2>1, <2>2, FailOwned, FailCounted DEF Errors
  <1>4. CASE HedgeFires(t)
    <2> DEFINE y == [x EXCEPT !.timer = FALSE, !.running = @ \union {"hedge"}]
               z == [x EXCEPT !.timer = FALSE]
    <2>1. /\ y.at = x.at /\ y.running = x.running \union {"hedge"} /\ ~y.timer /\ y.whole = x.whole
          /\ z.at = x.at /\ z.running = x.running /\ ~z.timer /\ z.whole = x.whole
      BY <1>0 DEF TaskType
    <2>2. x.at = "call" /\ x.timer
      BY <1>4 DEF HedgeFires
    <2>3. \/ inUse < Slots /\ inUse' = inUse + 1 /\ Set(t, y)
          \/ inUse' = inUse /\ Set(t, z)
      BY <1>4 DEF HedgeFires, Free
    <2>4. open' = open /\ UNCHANGED environment
      BY <1>4 DEF HedgeFires
    <2> HIDE DEF y, z
    <2>5. Fits(t, y, phase) /\ Fits(t, z, phase) /\ Busy(x) /\ Busy(y) /\ Busy(z)
      BY <1>0, <2>1, <2>2 DEF Fits, Busy
    <2>6. Owned'
      BY <2>3, <2>5, SetOwned
    <2>7. phase' = phase
      BY <2>3 DEF Set, run
    <2>8. CASE inUse < Slots /\ inUse' = inUse + 1 /\ Set(t, y)
      <3>1. task' = [task EXCEPT ![t] = y]
        BY <2>8 DEF Set
      <3>2. Cardinality(CallsOf(task')) = Cardinality(CallsOf(task)) + 1
        <4>1. "hedge" \in Calls /\ "hedge" \notin x.running
          BY <1>0, <2>2 DEF Fits, Calls
        <4> QED BY <1>0, <2>1, <3>1, <4>1, CallsMore
      <3>3. CutsOf(task') = CutsOf(task)
        BY <1>0, <2>1, <3>1, CutsSame
      <3> QED BY <1>1, <2>4, <2>6, <2>7, <2>8, <3>2, <3>3, CountsTyped DEF Counted, environment
    <2>9. CASE inUse' = inUse /\ Set(t, z)
      <3>1. Counted'
        BY <2>1, <2>4, <2>7, <2>9, CountedKept DEF Set, shared
      <3> QED BY <2>6, <3>1
    <2> QED BY <2>3, <2>8, <2>9
  <1>5. CASE BackoffEnds(t)
    <2> DEFINE y == [x EXCEPT !.at = "want", !.n = @ + 1]
    <2>1. y.at = "want" /\ y.running = x.running /\ y.whole = x.whole
      BY <1>0 DEF TaskType
    <2>2. x.at = "backoff" /\ x.running = {} /\ UNCHANGED <<shared, environment>>
      BY <1>5, IdleHolds DEF BackoffEnds
    <2>3. Set(t, y) \/ Fail(t, "context")
      BY <1>5 DEF BackoffEnds
    <2> HIDE DEF y
    <2>4. Fits(t, y, phase) /\ Busy(x) /\ Busy(y)
      BY <1>0, <2>1, <2>2 DEF Fits, Busy
    <2>5. CASE Set(t, y)
      <3>1. Counted'
        BY <2>1, <2>2, <2>5, CountedKept DEF Set, run
      <3> QED BY <2>4, <2>5, <3>1, SetOwned
    <2>6. CASE Fail(t, "context")
      BY <2>2, <2>4, <2>6, FailOwned, FailCounted DEF Errors
    <2> QED BY <2>3, <2>5, <2>6
  <1> QED BY <1>2, <1>3, <1>4, <1>5

\* A call returns its slot.
LEMMA CallReturnsOwned ==
    ASSUME IInv, Owned, Counted, NEW t \in Tasks, NEW c \in Calls, NEW o \in Outcomes,
           CallReturns(t, c, o)
    PROVE  Owned' /\ Counted'
  <1> DEFINE x == task[t]
             y == [x EXCEPT !.running = @ \ {c}, !.heard = Append(@, <<c, o>>)]
  <1>0. x \in TaskType /\ Fits(t, x, phase) /\ DOMAIN task = Tasks /\ c \in x.running
    BY DEF IInv, TasksSound, Sound, Owned, Placed, CallReturns
  <1>1. y.at = x.at /\ y.running = x.running \ {c} /\ y.timer = x.timer /\ y.whole = x.whole
    BY <1>0 DEF TaskType
  <1>2. task' = [task EXCEPT ![t] = y] /\ phase' = phase /\ err' = err /\ results' = results
    BY DEF CallReturns
  <1> HIDE DEF y
  <1>3. Fits(t, y, phase) /\ (Busy(y) <=> Busy(x))
    BY <1>0, <1>1 DEF Fits, Busy
  <1>4. Placed'
    BY <1>0, <1>2, <1>3 DEF Owned, Placed
  <1>5. \A s \in Tasks : Owner(s)' <=> Owner(s)
    BY <1>0, <1>2, <1>3 DEF Owner, Analysed
  <1>6. phase = "parts" => Settled'
    BY <1>0, <1>2, <1>3 DEF Owned, Apart, Settled, Analysed
  <1>7. Owned'
    BY <1>2, <1>4, <1>5, <1>6, OwnersStay DEF Owned
  <1>8. Cardinality(CallsOf(task')) = Cardinality(CallsOf(task)) - 1
    BY <1>0, <1>1, <1>2, CallsLess
  <1>9. CutsOf(task') = CutsOf(task)
    <2>1. y.at = "cutting" <=> task[t].at = "cutting"
      BY <1>1
    <2>2. CutsOf([task EXCEPT ![t] = y]) = CutsOf(task)
      BY <1>0, <2>1, CutsSame
    <2> QED BY <1>2, <2>2
  <1>10. {inUse, open, others, otherDocs} \subseteq Int /\ Slots \in Nat
    BY EngineAssumption DEF IInv, SharedTyped
  <1>11. inUse' = inUse - 1 /\ open' = open /\ others' = others /\ otherDocs' = otherDocs
    BY DEF CallReturns, ReturnSlot, environment
  <1>12. Counted'
    BY <1>2, <1>8, <1>9, <1>10, <1>11, CountsTyped DEF Counted
  <1> QED BY <1>7, <1>12

\* The loop reads an answer.  It holds a slot after it only if the other call,
\* in flight or drained, does.
LEMMA HearOwned ==
    ASSUME IInv, Owned, Counted, NEW t \in Tasks, Hear(t)
    PROVE  Owned' /\ Counted'
  <1> DEFINE x == task[t]
             c == Head(x.heard)[1]
             o == Head(x.heard)[2]
             rest == [x EXCEPT !.heard = Tail(@)]
             drain == [rest EXCEPT !.at = "drain", !.timer = FALSE, !.won = c]
  <1>0. x \in TaskType /\ Fits(t, x, phase) /\ x.at = "call" /\ Busy(x) /\ UNCHANGED <<shared, environment>>
    BY DEF IInv, TasksSound, Sound, Owned, Placed, Hear, Busy
  <1>1. /\ rest.at = "call" /\ rest.running = x.running /\ rest.timer = x.timer /\ rest.whole = x.whole
        /\ drain.at = "drain" /\ drain.running = x.running /\ drain.whole = x.whole
    BY <1>0 DEF TaskType
  <1>2. \/ x.running = {} /\ Keep(t, c)
        \/ Set(t, drain)
        \/ Set(t, rest)
        \/ x.running = {} /\ x.whole /\ WholeFailed(t, o)
        \/ x.running = {} /\ ~x.whole /\ PartFailed(t, o)
    BY DEF Hear, LastAnswer
  <1>3. t = Doc => x.whole
    BY <1>0 DEF Fits, Busy
  <1> HIDE DEF rest, drain, c, o
  <1>4. CASE x.running = {} /\ Keep(t, c)
    <2>1. Owned'
      BY <1>0, <1>4, KeepOwned
    <2>2. Counted'
      BY <1>0, <1>4, EndCounted DEF Keep, KeepDoc, KeepPart
    <2> QED BY <2>1, <2>2
  <1>5. CASE Set(t, drain) \/ Set(t, rest)
    <2>1. PICK y \in {drain, rest} : Set(t, y)
      BY <1>5
    <2>2. Fits(t, y, phase) /\ Busy(y) /\ y.running = x.running /\ y.at # "cutting"
      BY <1>0, <1>1 DEF Fits, Busy
    <2>3. Counted'
      BY <1>0, <2>1, <2>2, CountedKept DEF Set, run
    <2> QED BY <1>0, <2>1, <2>2, <2>3, SetOwned
  <1>6. ASSUME x.running = {}, NEW e \in Errors, Fail(t, e)
        PROVE  Owned' /\ Counted'
    BY <1>0, <1>6, FailOwned, FailCounted
  <1>7. ASSUME x.running = {}, NEW y, Set(t, y), y.at \in {"want", "backoff"}, y.running = {},
               y.whole = x.whole \/ y.whole
        PROVE  Owned' /\ Counted'
    <2>1. Fits(t, y, phase) /\ Busy(y)
      BY <1>0, <1>7 DEF Fits, Busy
    <2>2. Counted'
      BY <1>0, <1>7, CountedKept DEF Set, run
    <2> QED BY <1>0, <1>7, <2>1, <2>2, SetOwned
  <1>8. ASSUME x.running = {}, NEW k, Backoff(t, k)
        PROVE  Owned' /\ Counted'
    <2> DEFINE y == [New EXCEPT !.at = "backoff", !.whole = x.whole, !.n = x.n, !.once = k]
    <2>1. y.at = "backoff" /\ y.running = {} /\ y.whole = x.whole
      BY DEF New
    <2>2. Set(t, y)
      BY <1>8 DEF Backoff
    <2> HIDE DEF y
    <2> QED BY <1>8, <2>1, <2>2, <1>7
  <1>9. CASE x.running = {} /\ x.whole /\ WholeFailed(t, o)
    <2>1. \/ Fail(t, "context") \/ Fail(t, "original") \/ \E k \in {x.once + 1, x.once + 0} : Backoff(t, k)
      BY <1>9 DEF WholeFailed
    <2> QED BY <1>6, <1>8, <1>9, <2>1 DEF Errors
  <1>10. CASE x.running = {} /\ ~x.whole /\ PartFailed(t, o)
    <2>1. CASE Fail(t, "context") \/ Fail(t, "route")
      BY <1>6, <1>10, <2>1 DEF Errors
    <2>2. CASE Recheck(t)
      <3> DEFINE y == [Started EXCEPT !.whole = TRUE]
      <3>1. y.at = "want" /\ y.running = {} /\ y.whole = TRUE /\ Set(t, y)
        BY <2>2 DEF Started, New, Recheck
      <3> HIDE DEF y
      <3> QED BY <1>7, <1>10, <3>1
    <2>3. CASE Backoff(t, 0)
      BY <1>8, <1>10, <2>3
    <2>4. CASE Set(t, [New EXCEPT !.at = "recut"]) /\ Size(t) # 1
      <3> DEFINE y == [New EXCEPT !.at = "recut"]
      <3>1. y.at = "recut" /\ y.running = {} /\ ~y.whole
        BY DEF New
      <3>2. Set(t, y)
        BY <2>4
      <3> HIDE DEF y
      <3>3. t[1] < t[2]
        BY <2>4, EngineAssumption DEF Tasks, Size
      <3>4. Fits(t, y, phase) /\ Busy(y)
        BY <1>0, <1>3, <1>10, <3>1, <3>3 DEF Fits, Busy
      <3>5. Counted'
        BY <1>0, <1>10, <3>1, <3>2, CountedKept DEF Set, run
      <3> QED BY <1>0, <3>2, <3>4, <3>5, SetOwned
    <2> QED BY <1>10, <2>1, <2>2, <2>3, <2>4 DEF PartFailed
  <1> QED BY <1>2, <1>4, <1>5, <1>9, <1>10

LEMMA DrainOwned ==
    ASSUME IInv, Owned, Counted, NEW t \in Tasks, Drain(t)
    PROVE  Owned' /\ Counted'
  <1>1. task[t].at = "drain" /\ task[t].running = {} /\ Busy(task[t])
    BY DEF Drain, LastAnswer, Busy
  <1>2. Owned'
    BY <1>1, ResultOwned DEF Drain
  <1>3. Counted'
    BY <1>1, EndCounted DEF Drain
  <1> QED BY <1>2, <1>3

\* The halves of a part are parts that nobody else has, and share its pages.
LEMMA HalvesFree ==
    ASSUME IInv, Owned, NEW t \in Tasks, task[t].at = "cutting"
    PROVE  /\ phase = "parts" /\ t # Doc
           /\ FirstHalf(t) \in Tasks \ {t, Doc} /\ SecondHalf(t) \in Tasks \ {t, Doc}
           /\ FirstHalf(t) # SecondHalf(t) /\ Disjoint(FirstHalf(t), SecondHalf(t))
           /\ \A page \in Pages(t) : page \in Pages(FirstHalf(t)) \/ page \in Pages(SecondHalf(t))
           /\ \A s \in Tasks : Disjoint(s, t) =>
                 /\ Disjoint(s, FirstHalf(t)) /\ Disjoint(s, SecondHalf(t))
                 /\ Disjoint(FirstHalf(t), s) /\ Disjoint(SecondHalf(t), s)
           /\ ~Owner(FirstHalf(t)) /\ ~Owner(SecondHalf(t))
  <1> DEFINE a == FirstHalf(t)
             b == SecondHalf(t)
             m == Middle(t)
  <1>1. Busy(task[t]) /\ Fits(t, task[t], phase)
    BY DEF Owned, Placed, Busy
  <1>2. phase = "parts" /\ t # Doc /\ t[1] < t[2] /\ t = <<t[1], t[2]>> /\ t[1] \in 1 .. N /\ t[2] \in 1 .. N
    <2>1. ~task[t].whole /\ t[1] < t[2]
      BY <1>1 DEF Fits
    <2> QED BY <1>1, <2>1 DEF Fits, Tasks
  <1>3. m \in Int /\ t[1] <= m /\ m < t[2] /\ a = <<t[1], m>> /\ b = <<m + 1, t[2]>>
    BY <1>2 DEF Middle, Size, FirstHalf, SecondHalf
  <1> HIDE DEF a, b, m
  <1>4. /\ a \in Tasks /\ b \in Tasks /\ a # t /\ b # t /\ a # b /\ a # Doc /\ b # Doc /\ Disjoint(a, b)
        /\ \A page \in Pages(t) : page \in Pages(a) \/ page \in Pages(b)
        /\ \A s \in Tasks : Disjoint(s, t) => Disjoint(s, a) /\ Disjoint(s, b) /\ Disjoint(a, s) /\ Disjoint(b, s)
    <2>1. N \in Nat
      BY EngineAssumption
    <2>2. a \in Tasks /\ b \in Tasks
      BY <1>2, <1>3, <2>1 DEF Tasks
    <2>3. a # t /\ b # t /\ a # b /\ a # Doc /\ b # Doc /\ Disjoint(a, b)
      BY <1>2, <1>3, <2>1 DEF Doc, Disjoint
    <2>4. \A page \in Pages(t) : page \in Pages(a) \/ page \in Pages(b)
      BY <1>2, <1>3 DEF Pages
    <2>5. ASSUME NEW s \in Tasks, Disjoint(s, t)
          PROVE  Disjoint(s, a) /\ Disjoint(s, b) /\ Disjoint(a, s) /\ Disjoint(b, s)
      <3>1. s[1] \in Int /\ s[2] \in Int
        BY DEF Tasks
      <3> QED BY <1>2, <1>3, <2>5, <3>1 DEF Disjoint
    <2> QED BY <2>2, <2>3, <2>4, <2>5
  <1>5. ~Owner(a) /\ ~Owner(b)
    <2>1. Owner(t)
      BY <1>1 DEF Owner
    <2>2. \A s \in Tasks : Owner(s) /\ s # t => Disjoint(s, t)
      BY <1>2, <2>1 DEF Owned, Apart
    <2>3. ~Disjoint(a, t) /\ ~Disjoint(b, t)
      BY <1>2, <1>3 DEF Disjoint
    <2> QED BY <1>4, <2>2, <2>3
  <1> QED BY <1>2, <1>4, <1>5 DEF a, b

\* The halves of a part take its pages, and take them from nobody else.
LEMMA HalvesOwned ==
    ASSUME IInv, Owned, Counted, NEW t \in Tasks, task[t].at = "cutting", StartHalves(t),
           UNCHANGED run, open' = open - 1, UNCHANGED <<inUse, environment>>
    PROVE  Owned' /\ Counted'
  <1> DEFINE a == FirstHalf(t)
             b == SecondHalf(t)
  <1>1. /\ DOMAIN task = Tasks /\ task[t].running = {} /\ Busy(task[t]) /\ Fits(t, task[t], phase)
        /\ task' = [task EXCEPT ![t] = Ended, ![a] = Started, ![b] = Started]
        /\ phase' = phase /\ err' = err /\ results' = results
    BY IdleHolds DEF Owned, Placed, IInv, TasksSound, StartHalves, run, Busy
  <1>2. phase = "parts" /\ t # Doc
    BY HalvesFree
  <1>4. /\ a \in Tasks /\ b \in Tasks /\ a # t /\ b # t /\ a # b /\ a # Doc /\ b # Doc /\ Disjoint(a, b)
        /\ \A page \in Pages(t) : page \in Pages(a) \/ page \in Pages(b)
        /\ \A s \in Tasks : Disjoint(s, t) => Disjoint(s, a) /\ Disjoint(s, b) /\ Disjoint(a, s) /\ Disjoint(b, s)
    BY HalvesFree
  <1>5. ~Owner(a) /\ ~Owner(b)
    BY HalvesFree
  <1> HIDE DEF a, b
  <1>6. Settled /\ t \notin Analysed
    BY <1>1, <1>2 DEF Owned, Apart, Settled
  <1>7. \A s \in Tasks : task'[s] = IF s = a \/ s = b THEN Started ELSE IF s = t THEN Ended ELSE task[s]
    BY <1>1, <1>4
  <1>8. Placed'
    <2>1. \A s \in Tasks : Fits(s, task'[s], phase)
      BY <1>2, <1>4, <1>7, FreshFits DEF Owned, Placed
    <2> QED BY <1>1, <1>2, <2>1 DEF Placed
  <1>9. \A s : s \in Analysed' <=> s \in Analysed
    BY <1>1 DEF Analysed
  <1>10. /\ Owner(a)' /\ Owner(b)' /\ ~Owner(t)'
         /\ \A s \in Tasks \ {a, b, t} : Owner(s)' <=> Owner(s)
    BY <1>4, <1>6, <1>7, <1>9, Fresh DEF Owner, Busy
  <1>11. Owner(t) /\ \A s \in Tasks \ {t} : Owner(s) => Disjoint(s, t)
    BY <1>1, <1>2 DEF Owner, Owned, Apart
  <1>12. Apart'
    <2>1. Settled'
      BY <1>4, <1>5, <1>6, <1>7, <1>9, Fresh DEF Settled, Owner, Busy
    <2>2. ASSUME NEW s \in Tasks, NEW u \in Tasks, Owner(s)', Owner(u)', s # u
          PROVE  Disjoint(s, u)
      <3>1. CASE s \notin {a, b} /\ u \notin {a, b}
        <4>1. Owner(s) /\ Owner(u)
          BY <1>10, <2>2, <3>1
        <4> QED BY <1>2, <2>2, <4>1 DEF Owned, Apart
      <3>2. CASE s \in {a, b} /\ u \in {a, b}
        BY <1>4, <2>2, <3>2 DEF Disjoint
      <3>3. CASE s \in {a, b} /\ u \notin {a, b}
        <4>1. Disjoint(u, t)
          BY <1>10, <1>11, <2>2, <3>3
        <4> QED BY <1>4, <3>3, <4>1
      <3>4. CASE s \notin {a, b} /\ u \in {a, b}
        <4>1. Disjoint(s, t)
          BY <1>10, <1>11, <2>2, <3>4
        <4> QED BY <1>4, <3>4, <4>1
      <3> QED BY <3>1, <3>2, <3>3, <3>4
    <2> QED BY <2>1, <2>2 DEF Apart
  <1>13. Covered'
    <2> SUFFICES ASSUME err = "none", NEW page \in 1 .. N
                 PROVE  \E s \in Tasks : Owner(s)' /\ page \in Pages(s)
      BY <1>1 DEF Covered
    <2>1. PICK s \in Tasks : Owner(s) /\ page \in Pages(s)
      BY <1>2 DEF Owned, Covered
    <2>2. CASE s = t
      BY <1>4, <1>10, <2>1, <2>2
    <2>3. CASE s # t
      BY <1>5, <1>10, <2>1, <2>3
    <2> QED BY <2>2, <2>3
  <1>14. Counted'
    <2> DEFINE f == [task EXCEPT ![t] = Ended]
               g == [f EXCEPT ![a] = Started]
    <2>1. /\ Cardinality(CutsOf(f)) = Cardinality(CutsOf(task)) - 1 /\ CallsOf(f) = CallsOf(task)
      BY <1>1, Fresh, CutsLess, CallsSame
    <2>2. DOMAIN f = Tasks /\ f[a] = task[a]
      BY <1>1, <1>4
    <2>3. task[a].running = {} /\ task[a].at # "cutting" /\ task[b].running = {} /\ task[b].at # "cutting"
      BY <1>4, <1>5, IdleHolds DEF Owner, Busy
    <2> HIDE DEF f
    <2>4. CutsOf(g) = CutsOf(f) /\ CallsOf(g) = CallsOf(f)
      BY ZenonT(60), <1>4, <2>2, <2>3, Fresh, CutsSame, CallsSame
    <2>5. DOMAIN g = Tasks /\ g[b] = task[b]
      BY <1>1, <1>4, <2>2 DEF f
    <2>6. task' = [g EXCEPT ![b] = Started]
      BY <1>1 DEF f
    <2> HIDE DEF g
    <2>7. CutsOf(task') = CutsOf(g) /\ CallsOf(task') = CallsOf(g)
      <3>1. Started.running = g[b].running /\ (Started.at = "cutting" <=> g[b].at = "cutting")
        BY <2>3, <2>5, Fresh
      <3>2. CutsOf([g EXCEPT ![b] = Started]) = CutsOf(g) /\ CallsOf([g EXCEPT ![b] = Started]) = CallsOf(g)
        BY <1>4, <2>5, <3>1, CutsSame, CallsSame
      <3> QED BY <2>6, <3>2
    <2>8. /\ Cardinality(CutsOf(task')) = Cardinality(CutsOf(task)) - 1
          /\ Cardinality(CallsOf(task')) = Cardinality(CallsOf(task))
      BY <2>1, <2>4, <2>7
    <2>9. Cardinality(CallsOf(task)) \in Nat /\ Cardinality(CutsOf(task)) \in Nat
      BY CountsTyped
    <2>10. {inUse, open, others, otherDocs} \subseteq Int /\ inUse' = inUse
           /\ others' = others /\ otherDocs' = otherDocs /\ Permits \in Nat
      BY EngineAssumption DEF environment, IInv, SharedTyped
    <2> QED BY <1>1, <1>2, <2>8, <2>9, <2>10 DEF Counted
  <1> QED BY <1>8, <1>12, <1>13, <1>14 DEF Owned

LEMMA HalveOwned ==
    ASSUME IInv, Owned, Counted, NEW t \in Tasks, Halve(t)
    PROVE  Owned' /\ Counted'
  <1> DEFINE x == task[t]
  <1>0. x \in TaskType /\ Fits(t, x, phase) /\ DOMAIN task = Tasks
    BY DEF IInv, TasksSound, Sound, Owned, Placed
  <1>1. x.at \in {"recut", "cutting"} /\ x.running = {} /\ Busy(x)
    BY IdleHolds DEF Halve, RecutOpens, RecutEnded, RecutDone, RecutFails, Busy
  <1>2. {inUse, open, others, otherDocs} \subseteq Int /\ Permits \in Nat
    BY EngineAssumption DEF IInv, SharedTyped
  <1>3. Cardinality(CallsOf(task)) \in Nat /\ Cardinality(CutsOf(task)) \in Nat
    BY CountsTyped
  <1>4. CASE RecutOpens(t)
    <2> DEFINE y == [x EXCEPT !.at = "cutting"]
    <2>1. y.at = "cutting" /\ y.running = x.running /\ y.whole = x.whole
      BY <1>0 DEF TaskType
    <2>2. Set(t, y) /\ x.at = "recut"
      BY <1>4 DEF RecutOpens
    <2> HIDE DEF y
    <2>3. Fits(t, y, phase) /\ Busy(y)
      BY <1>0, <1>1, <2>1 DEF Fits, Busy
    <2>4. Owned'
      BY <1>1, <2>2, <2>3, SetOwned
    <2>5. task' = [task EXCEPT ![t] = y] /\ phase' = phase
      BY <2>2 DEF Set, run
    <2>6. /\ Cardinality(CutsOf(task')) = Cardinality(CutsOf(task)) + 1
          /\ CallsOf(task') = CallsOf(task)
      BY <1>0, <2>1, <2>2, <2>5, CutsMore, CallsSame
    <2>7. open < Permits /\ open' = open + 1 /\ inUse' = inUse /\ others' = others /\ otherDocs' = otherDocs
      BY <1>4 DEF RecutOpens, Unparsed, environment
    <2>8. Counted'
      BY <1>2, <1>3, <2>5, <2>6, <2>7 DEF Counted
    <2> QED BY <2>4, <2>8
  <1>5. CASE RecutEnded(t)
    <2>1. x.at # "cutting" /\ Fail(t, "context") /\ UNCHANGED <<shared, environment>>
      BY <1>5 DEF RecutEnded
    <2> QED BY <1>1, <2>1, FailOwned, FailCounted DEF Errors
  <1>6. ASSUME NEW y, task' = [task EXCEPT ![t] = y], y.at # "cutting", y.running = {},
               x.at = "cutting", phase' \in {phase, "failed"},
               open' = open - 1, UNCHANGED <<inUse, environment>>
        PROVE  Counted'
    <2>1. /\ Cardinality(CutsOf(task')) = Cardinality(CutsOf(task)) - 1
          /\ CallsOf(task') = CallsOf(task)
      <3>1. y.running = task[t].running /\ task[t].at = "cutting"
        BY <1>1, <1>6
      <3>2. /\ Cardinality(CutsOf([task EXCEPT ![t] = y])) = Cardinality(CutsOf(task)) - 1
            /\ CallsOf([task EXCEPT ![t] = y]) = CallsOf(task)
        BY <1>0, <1>6, <3>1, CutsLess, CallsSame
      <3> QED BY <1>6, <3>2
    <2>2. phase # "cut" /\ phase' # "cut"
      BY <1>0, <1>1, <1>6 DEF Fits
    <2>3. open' = open - 1 /\ inUse' = inUse /\ others' = others /\ otherDocs' = otherDocs
      BY <1>6 DEF environment
    <2> QED BY <1>2, <1>3, <2>1, <2>2, <2>3 DEF Counted
  <1>7. CASE RecutDone(t)
    <2>1. x.at = "cutting" /\ UNCHANGED run /\ open' = open - 1 /\ UNCHANGED <<inUse, environment>>
      BY <1>7 DEF RecutDone
    <2>2. CASE StartHalves(t)
      BY <2>1, <2>2, HalvesOwned
    <2>3. CASE x.cuts = 0
      <3> DEFINE y == [x EXCEPT !.at = "recut", !.cuts = 1]
      <3>1. y.at = "recut" /\ y.running = x.running /\ y.whole = x.whole
        BY <1>0 DEF TaskType
      <3>2. task' = [task EXCEPT ![t] = y]
        <4>1. task' = [task EXCEPT ![t].at = "recut", ![t].cuts = 1]
          BY <1>7, <2>3 DEF RecutDone
        <4> QED BY <1>0, <4>1 DEF TaskType
      <3> HIDE DEF y
      <3>3. Set(t, y)
        BY <2>1, <3>2 DEF Set
      <3>4. Fits(t, y, phase) /\ Busy(y)
        BY <1>0, <1>1, <3>1 DEF Fits, Busy
      <3>5. Owned'
        BY <1>1, <3>3, <3>4, SetOwned
      <3>6. Counted'
        BY <1>1, <1>6, <2>1, <3>1, <3>2 DEF run
      <3> QED BY <3>5, <3>6
    <2> QED BY <1>7, <2>2, <2>3 DEF RecutDone
  <1>8. CASE RecutFails(t)
    <2>1. PICK e \in {"part", "gateway"} : Fail(t, IF Done(t) THEN "context" ELSE e)
      BY <1>8 DEF RecutFails
    <2>2. (IF Done(t) THEN "context" ELSE e) \in Errors
      BY <2>1 DEF Errors
    <2>3. Owned'
      BY <1>1, <2>1, <2>2, FailOwned
    <2>4. task' = [task EXCEPT ![t] = Ended] /\ phase' \in {phase, "failed"}
      BY <2>1 DEF Fail, FailDoc, FailPart
    <2>5. Counted'
      BY <1>6, <1>8, <2>4, Fresh DEF RecutFails
    <2> QED BY <2>3, <2>5
  <1> QED BY <1>4, <1>5, <1>7, <1>8 DEF Halve

\* The steps of run once its parts have ended.
LEMMA PartsEndOwned ==
    ASSUME IInv, Owned, Counted,
           PartsFailed \/ Merge \/ MergeCheckFails \/ MergeFails \/ ReturnError
    PROVE  Owned' /\ Counted'
  <1>1. \A t \in Tasks : ~Busy(task[t])
    <2>1. CASE phase = "parts" /\ AllEnded
      BY <2>1 DEF AllEnded, Parts, Owned, Placed, Fits, Busy
    <2>2. CASE phase = "failed"
      BY <2>2 DEF Owned, Placed, Fits
    <2> QED BY <2>1, <2>2 DEF PartsFailed, Merge, MergeCheckFails, MergeFails, ReturnError
  <1>2. CASE MergeCheckFails
    BY <1>1, <1>2, SendWholeOwned DEF MergeCheckFails, shared
  <1>3. CASE PartsFailed \/ Merge \/ MergeFails \/ ReturnError
    <2>1. task' = task /\ phase' \in {"failed", "returned"} /\ phase # "cut" /\ UNCHANGED <<shared, environment>>
      BY <1>3 DEF PartsFailed, Merge, MergeFails, ReturnError
    <2>2. Owned'
      BY <1>1, <2>1 DEF Owned, Placed, Fits, Apart, Covered
    <2>3. Counted'
      BY <2>1 DEF Counted, shared, environment
    <2> QED BY <2>2, <2>3
  <1> QED BY <1>2, <1>3

\* The world around the run, which takes and gives back for itself.
LEMMA WorldOwned ==
    ASSUME IInv, Owned, Counted, Stop \/ Expire \/ OthersTake \/ OthersCall \/ OthersClose \/ UNCHANGED vars
    PROVE  Owned' /\ Counted'
  <1>1. phase' = phase /\ err' = err /\ results' = results /\ task' = task
    BY DEF Stop, Expire, OthersTake, OthersCall, OthersClose, vars, run
  <1>2. Owned'
    BY <1>1 DEF Owned, Placed, Apart, Settled, Covered, Owner, Analysed
  <1>3. {inUse, open, others, otherDocs} \subseteq Int /\ Slots \in Nat /\ Permits \in Nat
    BY EngineAssumption DEF IInv, SharedTyped
  <1>4. Cardinality(CallsOf(task)) \in Nat /\ Cardinality(CutsOf(task)) \in Nat
    BY CountsTyped
  <1>5. \/ UNCHANGED <<inUse, open, others, otherDocs>>
        \/ inUse < Slots /\ inUse' = inUse + 1 /\ others' = others + 1 /\ UNCHANGED <<open, otherDocs>>
        \/ open < Permits /\ open' = open + 1 /\ otherDocs' = otherDocs + 1 /\ UNCHANGED <<inUse, others>>
        \/ inUse' = inUse - 1 /\ others' = others - 1 /\ UNCHANGED <<open, otherDocs>>
        \/ open' = open - 1 /\ otherDocs' = otherDocs - 1 /\ UNCHANGED <<inUse, others>>
    BY DEF Stop, Expire, OthersTake, OthersCall, OthersClose, vars, shared, environment, Free, Unparsed
  <1>6. Counted'
    BY <1>1, <1>3, <1>4, <1>5 DEF Counted
  <1> QED BY <1>2, <1>6

LEMMA StepOwned == IInv /\ Owned /\ Counted /\ [Next]_vars => Owned' /\ Counted'
  <1> SUFFICES ASSUME IInv, Owned, Counted, [Next]_vars PROVE Owned' /\ Counted'
    OBVIOUS
  <1>1. ASSUME NEW t \in Tasks, Attempt(t)
        PROVE  Owned' /\ Counted'
    <2>1. CASE \E c \in Calls, o \in Outcomes : CallReturns(t, c, o)
      BY <2>1, CallReturnsOwned
    <2>2. CASE Hear(t)
      BY <2>2, HearOwned
    <2>3. CASE Drain(t)
      BY <2>3, DrainOwned
    <2>4. CASE Acquire(t) \/ AcquireEnded(t) \/ PartUnreadable(t) \/ HedgeFires(t) \/ BackoffEnds(t)
      BY <2>4, WaitOwned
    <2> QED BY <1>1, <2>1, <2>2, <2>3, <2>4 DEF Attempt
  <1>2. ASSUME NEW t \in Tasks, Halve(t)
        PROVE  Owned' /\ Counted'
    BY <1>2, HalveOwned
  <1>3. CASE DecideUnsplit \/ OpenSource \/ OpenSourceEnded \/ CutParts \/ CutNothing
    BY <1>3, DecideOwned
  <1>4. CASE PartsFailed \/ Merge \/ MergeCheckFails \/ MergeFails \/ ReturnError
    BY <1>4, PartsEndOwned
  <1>5. CASE Stop \/ Expire \/ OthersTake \/ OthersCall \/ OthersClose \/ UNCHANGED vars
    BY <1>5, WorldOwned
  <1> QED BY <1>1, <1>2, <1>3, <1>4, <1>5 DEF Next, Returned

LEMMA OwnedAlways == Spec => [](Owned /\ Counted)
  BY InitOwned, StepOwned, Invariant, PTL DEF Spec

\* Slots are held by calls in flight, permits by documents being cut, and by
\* nothing else, at any size of document and any number of either: no failure,
\* hedge, halving or cancellation of engine.go leaves one behind or takes one
\* past the limit.
THEOREM SlotsHeld == Spec => []SlotsHeldByCalls
  <1>1. Counted => SlotsHeldByCalls
    BY DEF Counted, SlotsHeldByCalls, CallsOf, CutsOf
  <1> QED BY <1>1, OwnedAlways, PTL

\* As long as no part has failed, every page of a document that was split belongs
\* to exactly one task, however its parts are retried, re-checked and halved
\* (fanout.halve, fanout.recheck).
THEOREM PagesKept == Spec => []PagesOwned
  <1>1. Owned => PagesOwned
    <2> SUFFICES ASSUME Owned, phase = "parts", err = "none", NEW page \in 1 .. N
                 PROVE  Cardinality({t \in Parts : page \in Pages(t) /\ (Live(t) \/ t \in Analysed)}) = 1
      BY DEF PagesOwned
    <2>1. PICK w \in Tasks : Owner(w) /\ page \in Pages(w)
      BY DEF Owned, Covered
    <2>2. \A t \in Tasks : Owner(t) => t # Doc
      BY DEF Owned, Placed, Fits, Apart, Settled, Owner
    <2>3. ASSUME NEW t \in Tasks, Owner(t), page \in Pages(t)
          PROVE  t = w
      <3>1. ~Disjoint(t, w)
        BY <2>1, <2>3, EngineAssumption DEF Disjoint, Pages, Tasks
      <3> QED BY <2>1, <2>3, <3>1 DEF Owned, Apart
    <2>4. {t \in Parts : page \in Pages(t) /\ (Live(t) \/ t \in Analysed)} = {w}
      BY <2>1, <2>2, <2>3 DEF Parts, Live, Owner, Busy
    <2> QED BY <2>4, FS_Singleton
  <1> QED BY <1>1, OwnedAlways, PTL
=============================================================================
