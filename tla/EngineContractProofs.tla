------------------------- MODULE EngineContractProofs -------------------------
(***************************************************************************)
(* Engine for documents of any size, any limits on attempts and any number *)
(* of slots and permits: every run is one that Analysis allows, and no run *)
(* loses a file it needs or leaves one behind.                             *)
(***************************************************************************)
EXTENDS EngineProofs

\* Before Run returns there is neither an output nor a verdict.
Undecided == phase # "returned" => verdict = "none" /\ output = "none"
RInv == IInv /\ Owned /\ Undecided

Allowed == [Abstract!Next]_(Abstract!vars)

-----------------------------------------------------------------------------
(* Shapes of steps *)

LEMMA Stutters ==
    ASSUME Answered' = Answered, verdict' = verdict, UNCHANGED contexts
    PROVE  Allowed
  BY DEF Allowed, Abstract!vars, contexts

\* What is answered depends on these.
LEMMA SameAnswered ==
    ASSUME results' = results, output' = output, phase' = phase
    PROVE  Answered' = Answered
  BY DEF Answered, Analysed

LEMMA RunShape == ASSUME UNCHANGED run, UNCHANGED contexts PROVE Allowed
  BY SameAnswered, Stutters DEF run

\* No part is at work before the parts or after them.
LEMMA BusyPhase ==
    ASSUME RInv, NEW t \in Tasks, Busy(task[t])
    PROVE  /\ phase = IF t = Doc THEN "whole" ELSE "parts"
           /\ verdict = "none" /\ output = "none"
  BY DEF RInv, Owned, Placed, Fits, Undecided

LEMMA FailShape ==
    ASSUME RInv, NEW t \in Tasks, Busy(task[t]), NEW e, Fail(t, e), UNCHANGED contexts
    PROVE  Allowed /\ Undecided'
  <1>1. CASE t = Doc
    <2>1. phase = "whole" /\ phase' = "failed" /\ results' = {} /\ output = "none" /\ output' = "none"
          /\ verdict = "none" /\ verdict' = verdict
      BY <1>1, BusyPhase DEF Fail, FailDoc, Cleanup
    <2>2. Answered = {} /\ Answered' = {}
      BY <2>1 DEF Answered, Analysed
    <2> QED BY <2>1, <2>2, Stutters DEF Undecided
  <1>2. CASE t # Doc
    <2>1. phase' = phase /\ results' = results /\ output' = output /\ verdict' = verdict
      BY <1>2 DEF Fail, FailPart
    <2> QED BY <2>1, SameAnswered, Stutters DEF RInv, Undecided
  <1> QED BY <1>1, <1>2

\* A part's pages were nobody's answer before.
LEMMA ResultShape ==
    ASSUME RInv, NEW t \in Tasks, Busy(task[t]), NEW c, results' = results \union {<<t, c>>},
           phase' = phase, output' = output, verdict' = verdict, UNCHANGED contexts
    PROVE  Allowed /\ Undecided'
  <1>1. CASE phase = "parts"
    <2>1. \A s : s \in Analysed' <=> s \in Analysed \/ s = t
      <3>1. <<t, c>> \in results' /\ <<t, c>>[1] = t
        OBVIOUS
      <3>2. t \in Analysed'
        BY <3>1 DEF Analysed
      <3>3. ASSUME NEW s, s \in Analysed PROVE s \in Analysed'
        BY <3>3 DEF Analysed
      <3>4. ASSUME NEW s, s \in Analysed' PROVE s \in Analysed \/ s = t
        BY <3>4 DEF Analysed
      <3> QED BY <3>2, <3>3, <3>4
    <2>2. \A s \in Analysed : s \in Tasks /\ Disjoint(s, t)
      <3>1. \A s \in Analysed : s \in Tasks /\ s # t
        BY <1>1 DEF Analysed, RInv, IInv, RunTyped, Owned, Apart, Settled
      <3> QED BY <1>1, <3>1 DEF RInv, Owned, Apart, Owner
    <2>3. Answered = UNION {Pages(s) : s \in Analysed} /\ Answered' = UNION {Pages(s) : s \in Analysed'}
      BY <1>1 DEF Answered
    <2>4. Answered' = Answered \union (t[1] .. t[2])
      BY <2>1, <2>3 DEF Pages
    <2>5. (t[1] .. t[2]) \intersect Answered = {}
      <3>1. ASSUME NEW s \in Analysed PROVE (t[1] .. t[2]) \intersect Pages(s) = {}
        BY <2>2 DEF Disjoint, Pages, Tasks
      <3> QED BY <2>3, <3>1
    <2>6. t[1] \in 1 .. N /\ t[2] \in t[1] .. N
      BY EngineAssumption DEF Tasks
    <2>7. verdict = "none" /\ stopped' = stopped /\ late' = late
      BY BusyPhase DEF contexts
    <2>8. Abstract!Answer
      BY <2>4, <2>5, <2>6, <2>7 DEF Abstract!Answer
    <2> QED BY <2>7, <2>8 DEF Allowed, Abstract!Next, RInv, Undecided
  <1>2. CASE phase # "parts"
    <2>1. phase = "whole" /\ output = "none"
      BY <1>2, BusyPhase
    <2>2. Answered = {} /\ Answered' = {}
      BY <2>1 DEF Answered
    <2> QED BY <2>2, Stutters DEF RInv, Undecided
  <1> QED BY <1>1, <1>2

LEMMA KeepShape ==
    ASSUME RInv, NEW t \in Tasks, Busy(task[t]), NEW c, Keep(t, c), UNCHANGED contexts
    PROVE  Allowed /\ Undecided'
  <1>1. CASE t = Doc
    <2>1. /\ phase = "whole" /\ phase' = "returned" /\ output = "none" /\ output' = "whole"
          /\ verdict = "none" /\ verdict' = "output" /\ stopped' = stopped /\ late' = late
      BY <1>1, BusyPhase DEF Keep, KeepDoc, contexts
    <2>2. Answered = {} /\ Answered' = 1 .. N
      BY <2>1 DEF Answered
    <2>3. Abstract!Deliver
      BY <2>1, <2>2 DEF Abstract!Deliver
    <2> QED BY <2>1, <2>3 DEF Allowed, Abstract!Next, Undecided
  <1>2. CASE t # Doc
    BY <1>2, ResultShape DEF Keep, KeepPart
  <1> QED BY <1>1, <1>2

-----------------------------------------------------------------------------
(* The actions *)

LEMMA InitAllowed == Init => Undecided /\ Abstract!Init
  BY DEF Init, Undecided, Abstract!Init, Answered, Analysed

LEMMA AttemptAllowed ==
    ASSUME RInv, NEW t \in Tasks, Attempt(t)
    PROVE  Allowed /\ Undecided'
  <1>1. Busy(task[t])
    <2>1. CASE \E c \in Calls, o \in Outcomes : CallReturns(t, c, o)
      BY <2>1 DEF CallReturns, RInv, IInv, TasksSound, Sound, Busy
    <2>2. CASE task[t].at \in {"want", "call", "drain", "backoff"}
      BY <2>2 DEF Busy
    <2> QED BY <2>1, <2>2 DEF Attempt, Acquire, AcquireEnded, PartUnreadable, HedgeFires, Hear,
               Drain, BackoffEnds
  <1>2. UNCHANGED contexts
    BY DEF Attempt, Acquire, AcquireEnded, PartUnreadable, CallReturns, HedgeFires, Hear, Drain,
       BackoffEnds
  <1>3. CASE UNCHANGED run
    BY <1>2, <1>3, RunShape DEF run, RInv, Undecided
  <1>4. CASE \E e : Fail(t, e)
    BY <1>1, <1>2, <1>4, FailShape
  <1>5. CASE \E c : Keep(t, c)
    BY <1>1, <1>2, <1>5, KeepShape
  <1>6. CASE \E c \in Calls, o \in Outcomes : CallReturns(t, c, o)
    <2>1. phase' = phase /\ results' = results /\ output' = output /\ verdict' = verdict
      BY <1>6 DEF CallReturns
    <2> QED BY <1>2, <2>1, SameAnswered, Stutters DEF RInv, Undecided
  <1>7. CASE Drain(t)
    BY <1>1, <1>2, <1>7, ResultShape DEF Drain
  <1>8. ASSUME Hear(t) PROVE UNCHANGED run \/ (\E e : Fail(t, e)) \/ (\E c : Keep(t, c))
    BY <1>8 DEF Hear, WholeFailed, PartFailed, Backoff, Recheck, Set
  <1>9. ASSUME Acquire(t) \/ AcquireEnded(t) \/ PartUnreadable(t) \/ HedgeFires(t) \/ BackoffEnds(t)
        PROVE  UNCHANGED run \/ (\E e : Fail(t, e))
    BY <1>9 DEF Acquire, AcquireEnded, PartUnreadable, HedgeFires, BackoffEnds, Set
  <1> QED BY <1>3, <1>4, <1>5, <1>6, <1>7, <1>8, <1>9 DEF Attempt

LEMMA HalveAllowed ==
    ASSUME RInv, NEW t \in Tasks, Halve(t)
    PROVE  Allowed /\ Undecided'
  <1>1. Busy(task[t]) /\ UNCHANGED contexts
    BY DEF Halve, RecutOpens, RecutEnded, RecutDone, RecutFails, Busy
  <1>2. UNCHANGED run \/ \E e : Fail(t, e)
    BY DEF Halve, RecutOpens, RecutEnded, RecutDone, RecutFails, Set
  <1>3. CASE UNCHANGED run
    BY <1>1, <1>3, RunShape DEF run, RInv, Undecided
  <1>4. CASE \E e : Fail(t, e)
    BY <1>1, <1>4, FailShape
  <1> QED BY <1>2, <1>3, <1>4

\* Until the parts start nothing is answered.
LEMMA DecideAllowed ==
    ASSUME RInv, DecideUnsplit \/ OpenSource \/ OpenSourceEnded \/ CutParts \/ CutNothing
    PROVE  Allowed /\ Undecided'
  <1>1. phase \in {"decide", "cut"}
    BY DEF DecideUnsplit, OpenSource, OpenSourceEnded, CutParts, CutNothing
  <1>2. /\ UNCHANGED contexts /\ results' = results /\ output' = output /\ verdict' = verdict
        /\ phase' \in {"cut", "parts", "whole", "failed"}
    BY DEF DecideUnsplit, OpenSource, OpenSourceEnded, CutParts, CutNothing, SendWhole, FailRun
  <1>3. results = {} /\ output = "none" /\ verdict = "none"
    BY <1>1 DEF RInv, Owned, Placed, Undecided
  <1>4. Answered = {} /\ Answered' = {}
    BY <1>1, <1>2, <1>3 DEF Answered, Analysed
  <1> QED BY <1>2, <1>3, <1>4, Stutters DEF Undecided

\* A merge is over all pages: with no failure, every part has its result.
LEMMA MergeAllowed ==
    ASSUME RInv, Merge
    PROVE  Allowed /\ Undecided'
  <1>1. /\ phase = "parts" /\ err = "none" /\ AllEnded /\ phase' = "returned" /\ output' = "merged"
        /\ verdict' = "output" /\ results' = results /\ stopped' = stopped /\ late' = late
    BY DEF Merge, contexts
  <1>2. verdict = "none"
    BY <1>1 DEF RInv, Undecided
  <1>3. Answered = UNION {Pages(s) : s \in Analysed} /\ Answered' = Answered
    BY <1>1 DEF Answered, Analysed
  <1>4. \A page \in 1 .. N : \E s \in Analysed : page \in Pages(s)
    <2>1. \A t \in Tasks : ~Busy(task[t])
      BY <1>1 DEF AllEnded, Parts, RInv, Owned, Placed, Fits, Busy
    <2> QED BY <1>1, <2>1 DEF RInv, Owned, Covered, Owner
  <1>5. \A s \in Analysed : Pages(s) \subseteq 1 .. N
    <2>1. \A s \in Analysed : s \in Tasks
      BY DEF Analysed, RInv, IInv, RunTyped
    <2> QED BY <2>1, EngineAssumption DEF Tasks, Pages
  <1>6. Answered = 1 .. N
    BY <1>3, <1>4, <1>5
  <1>7. Abstract!Deliver
    BY <1>1, <1>3, <1>6 DEF Abstract!Deliver
  <1> QED BY <1>1, <1>2, <1>7 DEF Allowed, Abstract!Next, Undecided

\* The steps of run once its parts have ended.
LEMMA PartsEndAllowed ==
    ASSUME RInv, PartsFailed \/ Merge \/ MergeCheckFails \/ MergeFails \/ ReturnError
    PROVE  Allowed /\ Undecided'
  <1>1. CASE PartsFailed \/ MergeCheckFails \/ MergeFails
    <2>1. /\ phase = "parts" /\ output' = output /\ verdict' = verdict
          /\ stopped' = stopped /\ late' = late
          /\ phase' = "whole" \/ (phase' = "failed" /\ results' = {})
      BY <1>1 DEF PartsFailed, MergeCheckFails, MergeFails, SendWhole, Cleanup, contexts
    <2>2. output = "none" /\ verdict = "none"
      BY <2>1 DEF RInv, Undecided
    <2>3. Answered' = {}
      BY <2>1, <2>2 DEF Answered, Analysed
    <2>4. Abstract!Discard
      BY <2>1, <2>3 DEF Abstract!Discard
    <2> QED BY <2>1, <2>2, <2>4 DEF Allowed, Abstract!Next, Undecided
  <1>2. CASE Merge
    BY <1>2, MergeAllowed
  <1>3. CASE ReturnError
    <2>1. /\ phase = "failed" /\ phase' = "returned" /\ verdict' = Verdict /\ output' = output
          /\ stopped' = stopped /\ late' = late
      BY <1>3 DEF ReturnError, contexts
    <2>2. output = "none" /\ verdict = "none"
      BY <2>1 DEF RInv, Undecided
    <2>3. Answered' = {}
      BY <2>1, <2>2 DEF Answered
    <2>4. Abstract!GiveUp
      BY <2>1, <2>3 DEF Abstract!GiveUp, Verdict
    <2> QED BY <2>1, <2>2, <2>4 DEF Allowed, Abstract!Next, Undecided
  <1> QED BY <1>1, <1>2, <1>3

LEMMA WorldAllowed ==
    ASSUME RInv, Stop \/ Expire \/ OthersTake \/ OthersCall \/ OthersClose \/ UNCHANGED vars
    PROVE  Allowed /\ Undecided'
  <1>1. CASE Stop \/ Expire
    <2>1. /\ UNCHANGED run /\ phase # "returned"
          /\ stopped' \in {stopped, TRUE} /\ late' \in {late, TRUE}
      BY <1>1 DEF Stop, Expire
    <2>2. Answered' = Answered /\ verdict' = verdict /\ verdict = "none"
      BY <2>1, SameAnswered DEF run, RInv, Undecided
    <2>3. Abstract!Outside
      BY <2>1, <2>2 DEF Abstract!Outside
    <2> QED BY <2>1, <2>2, <2>3 DEF Allowed, Abstract!Next, run, RInv, Undecided
  <1>2. CASE OthersTake \/ OthersCall \/ OthersClose \/ UNCHANGED vars
    <2>1. UNCHANGED run /\ UNCHANGED contexts
      BY <1>2 DEF OthersTake, OthersCall, OthersClose, vars
    <2> QED BY <2>1, RunShape DEF run, RInv, Undecided
  <1> QED BY <1>1, <1>2

LEMMA StepAllowed == RInv /\ [Next]_vars => Allowed /\ Undecided'
  <1> SUFFICES ASSUME RInv, [Next]_vars PROVE Allowed /\ Undecided'
    OBVIOUS
  <1>1. CASE \E t \in Tasks : Attempt(t) \/ Halve(t)
    BY <1>1, AttemptAllowed, HalveAllowed
  <1>2. CASE DecideUnsplit \/ OpenSource \/ OpenSourceEnded \/ CutParts \/ CutNothing
    BY <1>2, DecideAllowed
  <1>3. CASE PartsFailed \/ Merge \/ MergeCheckFails \/ MergeFails \/ ReturnError
    BY <1>3, PartsEndAllowed
  <1>4. CASE Stop \/ Expire \/ OthersTake \/ OthersCall \/ OthersClose \/ UNCHANGED vars
    BY <1>4, WorldAllowed
  <1> QED BY <1>1, <1>2, <1>3, <1>4 DEF Next, Returned

\* A run keeps what Analysis promises of it: no page is answered twice, an output
\* covers all pages, and a shutdown is told from a passed deadline and both from
\* a failure (Engine.Run, split, runWhole).
THEOREM PromiseHeld == Spec => Promise
  <1>1. Init => Abstract!Init /\ Undecided
    BY InitAllowed
  <1>2. IInv /\ Owned /\ Undecided /\ [Next]_vars => [Abstract!Next]_(Abstract!vars) /\ Undecided'
    BY StepAllowed DEF RInv, Allowed
  <1> QED BY <1>1, <1>2, Invariant, OwnedAlways, PTL DEF Spec, Promise, Abstract!Spec

-----------------------------------------------------------------------------
(* Which call a file comes from *)

\* How an attempt settles: each call is in flight, or answered, or won, and the
\* loop of whole never has but its first.
Settling(x) ==
    /\ x.at # "drain" => x.won = "none"
    /\ x.timer => x.at = "call"
    /\ x.won \notin x.running
    /\ \A i \in DOMAIN x.heard : /\ x.heard[i][1] \notin x.running
                                 /\ x.heard[i][1] # x.won
                                 /\ x.timer => x.heard[i][1] = "first"
    /\ \A i, k \in DOMAIN x.heard : x.heard[i][1] = x.heard[k][1] => i = k
    /\ x.whole => /\ ~x.timer /\ x.at # "drain" /\ x.running \subseteq {"first"}
                  /\ \A i \in DOMAIN x.heard : x.heard[i][1] = "first"

\* The files a task still needs, and those a set of files or results has of it.
Unread(h) == {c \in Calls : \E i \in DOMAIN h : h[i] = <<c, "Success">>}
Needed(x) == Unread(x.heard) \union ({x.won} \ {"none"})
OfTask(F, t) == {c \in Calls : <<t, c>> \in F}
OwnFiles == \A t \in Tasks : OfTask(files, t) = Needed(task[t]) \union OfTask(results, t)

LeftOver == IF output = "whole" THEN {<<Doc, "first">>} ELSE {}

Filed ==
    /\ \A t \in Tasks : Settling(task[t])
    /\ phase # "returned" => OwnFiles /\ OfTask(results, Doc) = {}
    /\ phase = "failed" => results = {}
    /\ phase = "returned" => files = LeftOver
    /\ folder <=> (phase # "returned" \/ output = "merged")

FInv == RInv /\ Filed

-----------------------------------------------------------------------------
(* What a task needs *)

LEMMA UnreadTail ==
    ASSUME NEW h \in Seq(Calls \X Outcomes), h # <<>>
    PROVE  /\ Unread(h) = Unread(Tail(h)) \union {c \in Calls : Head(h) = <<c, "Success">>}
           /\ Len(h) = 1 => Unread(Tail(h)) = {}
  <1>1. /\ Len(h) \in Nat \ {0} /\ DOMAIN h = 1 .. Len(h) /\ Head(h) = h[1]
        /\ Tail(h) \in Seq(Calls \X Outcomes) /\ Len(Tail(h)) = Len(h) - 1
        /\ \A i \in 1 .. Len(h) - 1 : Tail(h)[i] = h[i + 1]
    BY HeadTailProperties, LenProperties, EmptySeq
  <1>2. DOMAIN Tail(h) = 1 .. Len(h) - 1
    BY <1>1, LenProperties
  <1> DEFINE rest == Tail(h)
             head == Head(h)
  <1> HIDE DEF rest, head
  <1>3. ASSUME NEW c \in Calls
        PROVE  c \in Unread(h) <=> c \in Unread(rest) \/ head = <<c, "Success">>
    <2>1. ASSUME NEW i \in DOMAIN h, h[i] = <<c, "Success">>, i # 1
          PROVE  \E k \in DOMAIN rest : rest[k] = <<c, "Success">>
      <3>1. i - 1 \in 1 .. Len(h) - 1 /\ (i - 1) + 1 = i
        BY <1>1, <2>1
      <3> QED BY <1>1, <1>2, <2>1, <3>1 DEF rest
    <2>2. ASSUME NEW k \in DOMAIN rest, rest[k] = <<c, "Success">>
          PROVE  \E i \in DOMAIN h : h[i] = <<c, "Success">>
      <3>1. k \in 1 .. Len(h) - 1 /\ k + 1 \in 1 .. Len(h)
        BY <1>1, <1>2 DEF rest
      <3> QED BY <1>1, <2>2, <3>1 DEF rest
    <2>3. 1 \in DOMAIN h /\ h[1] = head
      BY <1>1 DEF head
    <2> QED BY <2>1, <2>2, <2>3 DEF Unread
  <1>4. Unread(h) = Unread(rest) \union {c \in Calls : head = <<c, "Success">>}
    BY <1>3 DEF Unread
  <1>5. Len(h) = 1 => Unread(rest) = {}
    BY <1>1, <1>2 DEF Unread, rest
  <1> QED BY <1>4, <1>5 DEF rest, head

LEMMA UnreadAppend ==
    ASSUME NEW h \in Seq(Calls \X Outcomes), NEW c \in Calls, NEW o \in Outcomes
    PROVE  Unread(Append(h, <<c, o>>)) = Unread(h) \union (IF o = "Success" THEN {c} ELSE {})
  <1> DEFINE e == <<c, o>>
  <1>0. e \in Calls \X Outcomes /\ \A d : e = <<d, "Success">> <=> d = c /\ o = "Success"
    OBVIOUS
  <1> HIDE DEF e
  <1>1. /\ Append(h, e) \in Seq(Calls \X Outcomes)
        /\ Len(Append(h, e)) = Len(h) + 1 /\ Append(h, e)[Len(h) + 1] = e
        /\ \A i \in 1 .. Len(h) : Append(h, e)[i] = h[i]
    BY <1>0, AppendProperties
  <1>2. /\ DOMAIN h = 1 .. Len(h) /\ DOMAIN Append(h, e) = 1 .. Len(h) + 1 /\ Len(h) \in Nat
    BY <1>1, LenProperties
  <1> DEFINE g == Append(h, e)
  <1> HIDE DEF g
  <1>3. ASSUME NEW d \in Calls
        PROVE  d \in Unread(g) <=> d \in Unread(h) \/ e = <<d, "Success">>
    <2>1. ASSUME NEW i \in DOMAIN h PROVE i \in DOMAIN g /\ g[i] = h[i]
      BY <1>1, <1>2 DEF g
    <2>2. Len(h) + 1 \in DOMAIN g /\ g[Len(h) + 1] = e
      BY <1>1, <1>2 DEF g
    <2>3. ASSUME NEW i \in DOMAIN g PROVE i \in DOMAIN h \/ i = Len(h) + 1
      BY <1>2 DEF g
    <2> QED BY <2>1, <2>2, <2>3 DEF Unread
  <1>4. Unread(g) = Unread(h) \union (IF o = "Success" THEN {c} ELSE {})
    BY <1>0, <1>3 DEF Unread
  <1> QED BY <1>4 DEF g, e

LEMMA NothingHeard == Unread(<<>>) = {}
  BY DEF Unread

\* A task that has made no call, or has settled its last, needs no file.
LEMMA QuietSettles ==
    ASSUME NEW x, x.heard = <<>>, x.running = {}, ~x.timer, x.won = "none", x.at # "drain"
    PROVE  Settling(x) /\ Needed(x) = {}
  BY NothingHeard DEF Settling, Needed

LEMMA FreshSettles ==
    \A x \in {New, Started, Ended, [Started EXCEPT !.whole = TRUE], [New EXCEPT !.at = "recut"]} :
        Settling(x) /\ Needed(x) = {}
  <1> DEFINE Quiet(x) == x.heard = <<>> /\ x.running = {} /\ ~x.timer /\ x.won = "none" /\ x.at # "drain"
  <1>1. Quiet(New) /\ Quiet(Started) /\ Quiet(Ended)
    BY DEF New, Started, Ended
  <1>2. Quiet([Started EXCEPT !.whole = TRUE]) /\ Quiet([New EXCEPT !.at = "recut"])
    BY DEF New, Started
  <1> QED BY <1>1, <1>2, QuietSettles

LEMMA IdleNeeds ==
    ASSUME FInv, NEW t \in Tasks, task[t].at \notin {"call", "drain"}
    PROVE  /\ Needed(task[t]) = {}
           /\ task[t].heard = <<>> /\ task[t].running = {} /\ task[t].won = "none" /\ ~task[t].timer
  <1>1. task[t].heard = <<>> /\ task[t].running = {}
    BY DEF FInv, RInv, IInv, TasksSound, Sound
  <1>2. task[t].won = "none" /\ ~task[t].timer
    BY DEF FInv, Filed, Settling
  <1> QED BY <1>1, <1>2, NothingHeard DEF Needed

\* A task at work has no result yet.
LEMMA BusyNoResult ==
    ASSUME FInv, NEW t \in Tasks, Busy(task[t])
    PROVE  OfTask(results, t) = {} /\ phase \in {"parts", "whole"}
  <1>1. phase = IF t = Doc THEN "whole" ELSE "parts"
    BY BusyPhase DEF FInv
  <1>2. CASE t = Doc
    BY <1>1, <1>2 DEF FInv, Filed
  <1>3. CASE t # Doc
    <2>1. t \notin Analysed
      BY <1>1, <1>3 DEF FInv, RInv, Owned, Apart, Settled
    <2>2. ASSUME NEW c, <<t, c>> \in results PROVE FALSE
      <3>1. <<t, c>>[1] = t
        OBVIOUS
      <3> QED BY <2>1, <2>2, <3>1 DEF Analysed
    <2> QED BY <1>1, <1>3, <2>2 DEF OfTask
  <1> QED BY <1>2, <1>3

-----------------------------------------------------------------------------
(* Shapes of steps *)

\* One task changes, and with it no files but its own.
LEMMA TaskFiled ==
    ASSUME FInv, NEW t \in Tasks, Busy(task[t]), NEW y, Settling(y),
           task' = [task EXCEPT ![t] = y], phase' = phase, folder' = folder, output' = output,
           \A s \in Tasks : s # t => OfTask(files', s) = OfTask(files, s)
                                     /\ OfTask(results', s) = OfTask(results, s),
           OfTask(files', t) = Needed(y) \union OfTask(results', t),
           t = Doc => OfTask(results', t) = {}
    PROVE  Filed'
  <1>1. phase \in {"parts", "whole"} /\ DOMAIN task = Tasks
    BY BusyNoResult DEF FInv, RInv, IInv, TasksSound
  <1>2. \A s \in Tasks : Settling(task'[s])
    BY <1>1 DEF FInv, Filed
  <1>3. \A s \in Tasks : OfTask(files', s) = Needed(task'[s]) \union OfTask(results', s)
    BY <1>1 DEF FInv, Filed, OwnFiles
  <1>4. OfTask(results', Doc) = {}
    BY <1>1, DocTask DEF FInv, Filed
  <1> QED BY <1>1, <1>2, <1>3, <1>4 DEF FInv, Filed, OwnFiles

LEMMA SetFiled ==
    ASSUME FInv, NEW t \in Tasks, Busy(task[t]), NEW y, Settling(y), Needed(y) = Needed(task[t]),
           Set(t, y)
    PROVE  Filed'
  <1>1. phase \in {"parts", "whole"}
    BY BusyNoResult
  <1>2. /\ task' = [task EXCEPT ![t] = y]
        /\ phase' = phase /\ folder' = folder /\ output' = output /\ files' = files /\ results' = results
    BY DEF Set, run
  <1>3. OfTask(files, t) = Needed(y) \union OfTask(results, t)
    BY <1>1 DEF FInv, Filed, OwnFiles
  <1>4. t = Doc => OfTask(results, t) = {}
    BY <1>1 DEF FInv, Filed
  <1> QED BY <1>2, <1>3, <1>4, TaskFiled

\* A set of files is known by the tasks and calls in it.
LEMMA FilesByTask ==
    ASSUME NEW F \in SUBSET (Tasks \X Calls), NEW G \in SUBSET (Tasks \X Calls),
           \A s \in Tasks : OfTask(F, s) = OfTask(G, s)
    PROVE  F = G
  <1>1. ASSUME NEW s \in Tasks, NEW c \in Calls PROVE <<s, c>> \in F <=> <<s, c>> \in G
    BY DEF OfTask
  <1>2. ASSUME NEW e \in Tasks \X Calls PROVE e \in F <=> e \in G
    <2>1. e[1] \in Tasks /\ e[2] \in Calls /\ e = <<e[1], e[2]>>
      OBVIOUS
    <2> QED BY <1>1, <2>1
  <1> QED BY <1>2

\* With no task in need of a file the files are those of the results.
LEMMA NoneNeeded ==
    ASSUME FInv, phase # "returned", \A s \in Tasks : Needed(task[s]) = {}
    PROVE  files = results
  <1>1. files \in SUBSET (Tasks \X Calls) /\ results \in SUBSET (Tasks \X Calls)
    BY DEF FInv, RInv, IInv, RunTyped
  <1>2. \A s \in Tasks : OfTask(files, s) = OfTask(results, s)
    BY DEF FInv, Filed, OwnFiles
  <1> QED BY <1>1, <1>2, FilesByTask

LEMMA NobodyBusy ==
    ASSUME FInv, \A s \in Tasks : ~Busy(task[s])
    PROVE  \A s \in Tasks : Needed(task[s]) = {}
  BY IdleNeeds DEF Busy

\* A task fails and needs no file.
LEMMA FailFiled ==
    ASSUME FInv, NEW t \in Tasks, Busy(task[t]), Needed(task[t]) = {}, NEW e, Fail(t, e)
    PROVE  Filed'
  <1>1. /\ task' = [task EXCEPT ![t] = Ended] /\ DOMAIN task = Tasks
        /\ folder' = folder /\ output' = output /\ verdict' = verdict
    BY DEF Fail, FailDoc, FailPart, FInv, RInv, IInv, TasksSound
  <1>2. Settling(Ended) /\ Needed(Ended) = {}
    BY FreshSettles
  <1>3. CASE t = Doc
    <2>1. phase = "whole" /\ phase' = "failed" /\ files' = files \ results /\ results' = {}
      BY <1>3, BusyPhase DEF FInv, Fail, FailDoc, Cleanup
    <2>2. \A s \in Tasks : s # Doc => ~Busy(task[s])
      BY <2>1 DEF FInv, RInv, Owned, Placed, Fits
    <2>3. \A s \in Tasks : Needed(task[s]) = {}
      BY <1>3, <2>2, IdleNeeds DEF Busy
    <2>4. files = results
      BY <2>1, <2>3, NoneNeeded
    <2>5. \A s \in Tasks : Settling(task'[s]) /\ Needed(task'[s]) = {}
      BY <1>1, <1>2, <2>3 DEF FInv, Filed
    <2>6. \A s : OfTask(files', s) = {} /\ OfTask(results', s) = {}
      BY <2>1, <2>4 DEF OfTask
    <2> QED BY <1>1, <2>1, <2>5, <2>6 DEF FInv, Filed, OwnFiles
  <1>4. CASE t # Doc
    <2>1. phase' = phase /\ results' = results /\ files' = files
      BY <1>4 DEF Fail, FailPart
    <2>2. phase # "returned"
      BY BusyNoResult
    <2>3. OfTask(files, t) = OfTask(results, t)
      BY <2>2 DEF FInv, Filed, OwnFiles
    <2> QED BY <1>1, <1>2, <1>4, <2>1, <2>3, TaskFiled
  <1> QED BY <1>3, <1>4

\* A call wins and no other is left: its file becomes the task's result.
LEMMA KeepFiled ==
    ASSUME FInv, NEW t \in Tasks, Busy(task[t]), NEW c \in Calls, Needed(task[t]) = {c},
           t = Doc => c = "first", Keep(t, c)
    PROVE  Filed'
  <1>1. /\ task' = [task EXCEPT ![t] = Ended] /\ DOMAIN task = Tasks
    BY DEF Keep, KeepDoc, KeepPart, FInv, RInv, IInv, TasksSound
  <1>2. Settling(Ended) /\ Needed(Ended) = {}
    BY FreshSettles
  <1>3. OfTask(results, t) = {} /\ OfTask(files, t) = {c} /\ phase # "returned"
    BY BusyNoResult DEF FInv, Filed, OwnFiles
  <1>4. CASE t = Doc
    <2>1. /\ phase = "whole" /\ phase' = "returned" /\ output' = "whole" /\ folder' = FALSE
          /\ files' = files \ results
      BY <1>4, BusyPhase DEF FInv, Keep, KeepDoc, Cleanup
    <2>2. \A s \in Tasks : s # Doc => OfTask(files, s) = OfTask(results, s)
      <3>1. \A s \in Tasks : s # Doc => ~Busy(task[s])
        BY <2>1 DEF FInv, RInv, Owned, Placed, Fits
      <3>2. \A s \in Tasks : s # Doc => Needed(task[s]) = {}
        BY <3>1, IdleNeeds DEF Busy
      <3> QED BY <1>3, <3>2 DEF FInv, Filed, OwnFiles
    <2>3. \A s \in Tasks : OfTask(files', s) = OfTask({<<Doc, "first">>}, s)
      <3>1. ASSUME NEW s \in Tasks, s # Doc PROVE OfTask(files', s) = {}
        BY <2>1, <2>2, <3>1 DEF OfTask
      <3>2. OfTask(files', Doc) = {"first"}
        BY <1>3, <1>4, <2>1 DEF OfTask
      <3>3. \A s \in Tasks : OfTask({<<Doc, "first">>}, s) = IF s = Doc THEN {"first"} ELSE {}
        BY DEF OfTask, Calls
      <3> QED BY <3>1, <3>2, <3>3
    <2>4. files' \in SUBSET (Tasks \X Calls) /\ {<<Doc, "first">>} \in SUBSET (Tasks \X Calls)
      BY <2>1, DocTask DEF FInv, RInv, IInv, RunTyped, Calls
    <2>5. files' = {<<Doc, "first">>}
      BY <2>3, <2>4, FilesByTask
    <2>6. \A s \in Tasks : Settling(task'[s])
      BY <1>1, <1>2 DEF FInv, Filed
    <2> QED BY <2>1, <2>5, <2>6 DEF Filed, LeftOver
  <1>5. CASE t # Doc
    <2>1. /\ results' = results \union {<<t, c>>} /\ phase' = phase /\ files' = files
          /\ folder' = folder /\ output' = output
      BY <1>5 DEF Keep, KeepPart
    <2>2. OfTask(results', t) = {c} /\ \A s \in Tasks : s # t => OfTask(results', s) = OfTask(results, s)
      BY <1>3, <2>1 DEF OfTask
    <2> QED BY <1>1, <1>2, <1>3, <1>5, <2>1, <2>2, TaskFiled
  <1> QED BY <1>4, <1>5

-----------------------------------------------------------------------------
(* The actions *)

LEMMA InitFiled == Init => Filed
  <1> SUFFICES ASSUME Init PROVE Filed
    OBVIOUS
  <1>1. \A t \in Tasks : Settling(task[t]) /\ Needed(task[t]) = {}
    BY FreshSettles DEF Init
  <1>2. \A t : OfTask(files, t) = {} /\ OfTask(results, t) = {}
    BY DEF Init, OfTask
  <1> QED BY <1>1, <1>2 DEF Init, Filed, OwnFiles

\* The whole document is sent while no task needs a file.
LEMMA SendWholeFiled ==
    ASSUME FInv, phase # "returned", \A s \in Tasks : ~Busy(task[s]), SendWhole
    PROVE  Filed'
  <1> DEFINE y == [Started EXCEPT !.whole = TRUE]
  <1>1. /\ task' = [task EXCEPT ![Doc] = y] /\ DOMAIN task = Tasks /\ phase' = "whole"
        /\ files' = files /\ results' = results /\ folder' = folder /\ output' = output
    BY DEF SendWhole, FInv, RInv, IInv, TasksSound
  <1>2. Settling(y) /\ Needed(y) = {}
    BY FreshSettles
  <1>3. \A s \in Tasks : Needed(task[s]) = {}
    BY NobodyBusy
  <1> HIDE DEF y
  <1>4. \A s \in Tasks : Settling(task'[s]) /\ Needed(task'[s]) = {}
    BY <1>1, <1>2, <1>3 DEF FInv, Filed
  <1>5. \A s \in Tasks : OfTask(files', s) = OfTask(results', s)
    BY <1>1, <1>3 DEF FInv, Filed, OwnFiles
  <1> QED BY <1>1, <1>4, <1>5 DEF FInv, Filed, OwnFiles

LEMMA DecideFiled ==
    ASSUME FInv, DecideUnsplit \/ OpenSource \/ OpenSourceEnded \/ CutParts \/ CutNothing
    PROVE  Filed'
  <1>1. phase \in {"decide", "cut"}
    BY DEF DecideUnsplit, OpenSource, OpenSourceEnded, CutParts, CutNothing
  <1>2. \A t \in Tasks : ~Busy(task[t])
    BY <1>1 DEF FInv, RInv, Owned, Placed, Fits
  <1>3. results = {} /\ \A t \in Tasks : Needed(task[t]) = {}
    BY <1>1, <1>2, NobodyBusy DEF FInv, RInv, Owned, Placed
  <1>4. CASE SendWhole
    BY <1>1, <1>2, <1>4, SendWholeFiled
  <1>5. CASE /\ phase' \in {"cut", "parts", "failed"}
             /\ files' = files /\ results' = results /\ folder' = folder /\ output' = output
             /\ \A t \in Tasks : task'[t] \in {task[t], New, Started}
    <2>1. \A t \in Tasks : Settling(task'[t]) /\ Needed(task'[t]) = {}
      BY <1>3, <1>5, FreshSettles DEF FInv, Filed
    <2>2. \A t \in Tasks : OfTask(files', t) = OfTask(results', t)
      BY <1>1, <1>3, <1>5 DEF FInv, Filed, OwnFiles
    <2> QED BY <1>1, <1>3, <1>5, <2>1, <2>2 DEF FInv, Filed, OwnFiles
  <1>6. SendWhole \/ /\ phase' \in {"cut", "parts", "failed"}
                     /\ files' = files /\ results' = results /\ folder' = folder /\ output' = output
                     /\ \A t \in Tasks : task'[t] \in {task[t], New, Started}
    BY DEF DecideUnsplit, OpenSource, OpenSourceEnded, CutParts, CutNothing, FailRun
  <1> QED BY <1>4, <1>5, <1>6

\* The steps that end a wait, with a slot or without.
LEMMA WaitFiled ==
    ASSUME FInv, NEW t \in Tasks,
           Acquire(t) \/ AcquireEnded(t) \/ PartUnreadable(t) \/ HedgeFires(t) \/ BackoffEnds(t)
    PROVE  Filed'
  <1> DEFINE x == task[t]
  <1>0. x \in TaskType /\ Settling(x) /\ Busy(x) /\ Fits(t, x, phase)
    BY DEF FInv, RInv, IInv, TasksSound, Sound, Owned, Placed, Filed, Busy, Acquire, AcquireEnded,
           PartUnreadable, HedgeFires, BackoffEnds
  <1>1. x.at # "call" => /\ Needed(x) = {} /\ x.heard = <<>> /\ x.running = {} /\ x.won = "none"
                         /\ ~x.timer
    BY <1>0, IdleNeeds DEF Acquire, AcquireEnded, PartUnreadable, HedgeFires, BackoffEnds
  <1>2. CASE Acquire(t)
    <2> DEFINE y == [x EXCEPT !.at = "call", !.running = {"first"}, !.timer = ~x.whole]
    <2>1. /\ y.at = "call" /\ y.running = {"first"} /\ y.timer = ~x.whole /\ y.whole = x.whole
          /\ y.heard = <<>> /\ y.won = "none"
      BY <1>0, <1>1, <1>2 DEF Acquire, TaskType
    <2>2. Set(t, y) /\ x.at = "want"
      BY <1>2 DEF Acquire
    <2> HIDE DEF y
    <2>3. Settling(y) /\ Needed(y) = {}
      <3>1. DOMAIN y.heard = {} /\ "none" \notin {"first"}
        BY <2>1
      <3>2. Settling(y)
        BY <2>1, <3>1 DEF Settling
      <3>3. Needed(y) = {}
        BY <2>1, NothingHeard DEF Needed
      <3> QED BY <3>2, <3>3
    <2> QED BY <1>0, <1>1, <2>2, <2>3, SetFiled
  <1>3. CASE AcquireEnded(t) \/ PartUnreadable(t)
    <2>1. x.at = "want" /\ \E e : Fail(t, e)
      BY <1>3 DEF AcquireEnded, PartUnreadable
    <2> QED BY <1>0, <1>1, <2>1, FailFiled
  <1>4. CASE HedgeFires(t)
    <2> DEFINE y == [x EXCEPT !.timer = FALSE, !.running = @ \union {"hedge"}]
               z == [x EXCEPT !.timer = FALSE]
    <2>1. /\ y.at = x.at /\ y.running = x.running \union {"hedge"} /\ y.timer = FALSE
          /\ y.whole = x.whole /\ y.heard = x.heard /\ y.won = x.won
          /\ z.at = x.at /\ z.running = x.running /\ z.timer = FALSE
          /\ z.whole = x.whole /\ z.heard = x.heard /\ z.won = x.won
      BY <1>0 DEF TaskType
    <2>2. (Set(t, y) \/ Set(t, z)) /\ x.at = "call" /\ x.timer
      BY <1>4 DEF HedgeFires
    <2> HIDE DEF y, z
    <2>3. Settling(y) /\ Settling(z)
      BY <1>0, <2>1, <2>2 DEF Settling
    <2>4. Needed(y) = Needed(x) /\ Needed(z) = Needed(x)
      BY <2>1 DEF Needed
    <2> QED BY <1>0, <2>2, <2>3, <2>4, SetFiled
  <1>5. CASE BackoffEnds(t)
    <2>1. x.at = "backoff"
      BY <1>5 DEF BackoffEnds
    <2>2. CASE Done(t) /\ Fail(t, "context")
      BY <1>0, <1>1, <2>1, <2>2, FailFiled
    <2>3. CASE Set(t, [x EXCEPT !.at = "want", !.n = @ + 1])
      <3> DEFINE y == [x EXCEPT !.at = "want", !.n = @ + 1]
      <3>1. y.at = "want" /\ y.heard = <<>> /\ y.running = {} /\ y.won = "none" /\ ~y.timer
        BY <1>0, <1>1, <2>1 DEF TaskType
      <3>2. Set(t, y)
        BY <2>3
      <3> HIDE DEF y
      <3>3. Settling(y) /\ Needed(y) = {}
        BY <3>1, QuietSettles
      <3> QED BY <1>0, <1>1, <2>1, <3>2, <3>3, SetFiled
    <2> QED BY <1>5, <2>2, <2>3 DEF BackoffEnds
  <1> QED BY <1>2, <1>3, <1>4, <1>5

\* A call returns, with a file if it succeeded.
LEMMA CallReturnsFiled ==
    ASSUME FInv, NEW t \in Tasks, NEW c \in Calls, NEW o \in Outcomes, CallReturns(t, c, o)
    PROVE  Filed'
  <1> DEFINE x == task[t]
             y == [x EXCEPT !.running = @ \ {c}, !.heard = Append(@, <<c, o>>)]
  <1>0. x \in TaskType /\ Settling(x) /\ Fits(t, x, phase) /\ c \in x.running /\ Busy(x)
    BY DEF FInv, RInv, IInv, TasksSound, Sound, Owned, Placed, Filed, CallReturns, Busy
  <1>1. /\ y.at = x.at /\ y.running = x.running \ {c} /\ y.timer = x.timer /\ y.whole = x.whole
        /\ y.heard = Append(x.heard, <<c, o>>) /\ y.won = x.won
        /\ x.heard \in Seq(Calls \X Outcomes)
    BY <1>0 DEF TaskType
  <1>2. /\ task' = [task EXCEPT ![t] = y] /\ phase' = phase /\ folder' = folder /\ output' = output
        /\ results' = results
        /\ files' = IF o = "Success" THEN files \union {<<t, c>>} ELSE files
    BY DEF CallReturns
  <1> HIDE DEF y
  <1>3. Needed(y) = Needed(x) \union (IF o = "Success" THEN {c} ELSE {})
    <2>1. Unread(Append(x.heard, <<c, o>>)) = Unread(x.heard) \union (IF o = "Success" THEN {c} ELSE {})
      BY <1>1, UnreadAppend
    <2> QED BY <1>1, <2>1 DEF Needed
  <1>4. Settling(y)
    <2>1. /\ DOMAIN x.heard = 1 .. Len(x.heard) /\ Len(x.heard) \in Nat
          /\ DOMAIN y.heard = 1 .. Len(x.heard) + 1
          /\ y.heard[Len(x.heard) + 1] = <<c, o>>
          /\ \A i \in 1 .. Len(x.heard) : y.heard[i] = x.heard[i]
      BY <1>1, AppendProperties, LenProperties
    <2>2. \A i \in DOMAIN y.heard :
             \/ i \in DOMAIN x.heard /\ y.heard[i][1] = x.heard[i][1]
             \/ i = Len(x.heard) + 1 /\ y.heard[i][1] = c
      <3>1. \A i \in DOMAIN y.heard : i \in 1 .. Len(x.heard) \/ i = Len(x.heard) + 1
        BY <2>1
      <3>2. \A i \in 1 .. Len(x.heard) : i \in DOMAIN x.heard /\ y.heard[i][1] = x.heard[i][1]
        BY <2>1
      <3>3. y.heard[Len(x.heard) + 1][1] = c
        BY <2>1
      <3> QED BY <3>1, <3>2, <3>3
    <2>3. \A i \in DOMAIN x.heard : x.heard[i][1] # c
      BY <1>0 DEF Settling
    <2>4. (x.timer => c = "first") /\ (x.whole => c = "first") /\ c # x.won
      BY <1>0 DEF Settling, Fits, Calls
    <2>5. ASSUME NEW i \in DOMAIN y.heard
          PROVE  /\ y.heard[i][1] \notin y.running /\ y.heard[i][1] # y.won
                 /\ y.timer \/ y.whole => y.heard[i][1] = "first"
      BY <1>0, <1>1, <2>2, <2>4 DEF Settling
    <2>6. ASSUME NEW i \in DOMAIN y.heard, NEW k \in DOMAIN y.heard, y.heard[i][1] = y.heard[k][1]
          PROVE  i = k
      BY <1>0, <2>2, <2>3, <2>6 DEF Settling
    <2> QED BY <1>0, <1>1, <2>5, <2>6 DEF Settling
  <1>5. OfTask(results, t) = {} /\ OfTask(files, t) = Needed(x)
    BY <1>0, BusyNoResult DEF FInv, Filed, OwnFiles
  <1>6. OfTask(files', t) = Needed(y)
    BY <1>2, <1>3, <1>5 DEF OfTask
  <1>7. \A s \in Tasks : s # t => OfTask(files', s) = OfTask(files, s)
    BY <1>2 DEF OfTask
  <1> QED BY <1>0, <1>2, <1>4, <1>5, <1>6, <1>7, TaskFiled

\* The loop reads an answer: a success waits for the other call or is the
\* result, a failure leaves no file.
LEMMA HearFiled ==
    ASSUME FInv, NEW t \in Tasks, Hear(t)
    PROVE  Filed'
  <1> DEFINE x == task[t]
             c == Head(x.heard)[1]
             o == Head(x.heard)[2]
             rest == [x EXCEPT !.heard = Tail(@)]
             drain == [rest EXCEPT !.at = "drain", !.timer = FALSE, !.won = c]
  <1>0. /\ x \in TaskType /\ Settling(x) /\ Fits(t, x, phase) /\ x.at = "call" /\ Busy(x)
        /\ x.heard # <<>> /\ x.heard \in Seq(Calls \X Outcomes) /\ x.won = "none"
    BY DEF FInv, RInv, IInv, TasksSound, Sound, Owned, Placed, Filed, Hear, Busy, Settling, TaskType
  <1>1. /\ rest.at = "call" /\ rest.running = x.running /\ rest.timer = x.timer /\ rest.whole = x.whole
        /\ rest.heard = Tail(x.heard) /\ rest.won = "none"
        /\ drain.at = "drain" /\ drain.running = x.running /\ drain.whole = x.whole
        /\ drain.timer = FALSE /\ drain.heard = Tail(x.heard) /\ drain.won = c
    BY <1>0 DEF TaskType
  <1>2. /\ c \in Calls /\ Head(x.heard) = <<c, o>> /\ c = x.heard[1][1] /\ 1 \in DOMAIN x.heard
        /\ \A i \in DOMAIN Tail(x.heard) : i + 1 \in DOMAIN x.heard /\ i \in Int /\ i >= 1
                                           /\ Tail(x.heard)[i] = x.heard[i + 1]
    <2>1. Head(x.heard) \in Calls \X Outcomes /\ Tail(x.heard) \in Seq(Calls \X Outcomes)
      BY <1>0, HeadTailProperties
    <2>2. \A i \in DOMAIN Tail(x.heard) : i \in Int /\ i >= 1
      BY <2>1, LenProperties
    <2> QED BY <1>0, <2>1, <2>2, HeadTyped
  <1>3. Unread(x.heard) = Unread(Tail(x.heard)) \union (IF o = "Success" THEN {c} ELSE {})
    <2>1. {d \in Calls : Head(x.heard) = <<d, "Success">>} = IF o = "Success" THEN {c} ELSE {}
      BY <1>2
    <2> QED BY <1>0, <2>1, UnreadTail
  <1>4. LastAnswer(t) => /\ x.running = {}
                         /\ Needed(x) = IF o = "Success" THEN {c} ELSE {}
    <2>1. Needed(x) = Unread(x.heard)
      BY <1>0 DEF Needed
    <2>2. Len(x.heard) = 1 => Unread(Tail(x.heard)) = {}
      BY <1>0, UnreadTail
    <2> QED BY <1>3, <2>1, <2>2 DEF LastAnswer
  <1>5. x.whole => c = "first" /\ LastAnswer(t)
    <2> SUFFICES ASSUME x.whole PROVE c = "first" /\ LastAnswer(t)
      OBVIOUS
    <2>1. \A i \in DOMAIN x.heard : x.heard[i][1] = "first" /\ i = 1
      BY <1>0, <1>2 DEF Settling
    <2>2. x.running = {}
      BY <1>0, <1>2, <2>1 DEF Settling
    <2>3. Len(x.heard) = 1
      <3>1. DOMAIN x.heard = 1 .. Len(x.heard) /\ Len(x.heard) \in Nat
        BY <1>0, LenProperties
      <3>2. Len(x.heard) \in DOMAIN x.heard
        BY <1>2, <3>1
      <3> QED BY <2>1, <3>2
    <2> QED BY <1>2, <2>1, <2>2, <2>3 DEF LastAnswer
  <1>6. \/ o = "Success" /\ LastAnswer(t) /\ Keep(t, c)
        \/ o = "Success" /\ ~LastAnswer(t) /\ Set(t, drain)
        \/ o # "Success" /\ ~LastAnswer(t) /\ Set(t, rest)
        \/ o # "Success" /\ LastAnswer(t) /\ (WholeFailed(t, o) \/ PartFailed(t, o))
    BY DEF Hear
  <1>7. t = Doc => x.whole
    BY <1>0 DEF Fits, Busy
  <1> HIDE DEF rest, drain, c, o
  <1>8. CASE o = "Success" /\ LastAnswer(t) /\ Keep(t, c)
    BY <1>0, <1>2, <1>4, <1>5, <1>7, <1>8, KeepFiled
  <1>9. CASE o = "Success" /\ ~LastAnswer(t) /\ Set(t, drain)
    <2>1. Needed(drain) = Needed(x)
      BY <1>0, <1>1, <1>2, <1>3, <1>9 DEF Needed, Calls
    <2>2. c \notin x.running /\ ~x.whole
      BY <1>0, <1>2, <1>5, <1>9 DEF Settling
    <2>3. \A i \in DOMAIN Tail(x.heard) : i + 1 # 1
      BY <1>2
    <2>4. \A i \in DOMAIN Tail(x.heard) : Tail(x.heard)[i][1] # c
      BY <1>0, <1>2, <2>3 DEF Settling
    <2>5. \A i \in DOMAIN Tail(x.heard) : Tail(x.heard)[i][1] \notin x.running
      BY <1>0, <1>2 DEF Settling
    <2>6. \A i, k \in DOMAIN Tail(x.heard) : Tail(x.heard)[i][1] = Tail(x.heard)[k][1] => i = k
      <3> SUFFICES ASSUME NEW i \in DOMAIN Tail(x.heard), NEW k \in DOMAIN Tail(x.heard),
                          Tail(x.heard)[i][1] = Tail(x.heard)[k][1]
                   PROVE  i = k
        OBVIOUS
      <3>1. i + 1 = k + 1
        BY <1>0, <1>2 DEF Settling
      <3> QED BY <1>2, <3>1
    <2>7. Settling(drain)
      BY <1>1, <2>2, <2>4, <2>5, <2>6 DEF Settling
    <2> QED BY <1>0, <1>9, <2>1, <2>7, SetFiled
  <1>10. CASE o # "Success" /\ ~LastAnswer(t) /\ Set(t, rest)
    <2>1. Needed(rest) = Needed(x)
      BY <1>0, <1>1, <1>3, <1>10 DEF Needed
    <2>2. \A i, k \in DOMAIN Tail(x.heard) : Tail(x.heard)[i][1] = Tail(x.heard)[k][1] => i = k
      <3> SUFFICES ASSUME NEW i \in DOMAIN Tail(x.heard), NEW k \in DOMAIN Tail(x.heard),
                          Tail(x.heard)[i][1] = Tail(x.heard)[k][1]
                   PROVE  i = k
        OBVIOUS
      <3>1. i + 1 = k + 1
        BY <1>0, <1>2 DEF Settling
      <3> QED BY <1>2, <3>1
    <2>3. \A i \in DOMAIN Tail(x.heard) :
              /\ Tail(x.heard)[i][1] \notin x.running /\ Tail(x.heard)[i][1] # x.won
              /\ x.timer \/ x.whole => Tail(x.heard)[i][1] = "first"
      BY <1>0, <1>2 DEF Settling
    <2>4. Settling(rest)
      BY <1>0, <1>1, <2>2, <2>3 DEF Settling
    <2> QED BY <1>0, <1>10, <2>1, <2>4, SetFiled
  <1>11. ASSUME Needed(x) = {}, NEW e, Fail(t, e)
         PROVE  Filed'
    BY <1>0, <1>11, FailFiled
  <1>12. ASSUME Needed(x) = {}, NEW y, Set(t, y), Settling(y), Needed(y) = {}
         PROVE  Filed'
    BY <1>0, <1>12, SetFiled
  <1>13. ASSUME Needed(x) = {}, NEW k, Backoff(t, k)
         PROVE  Filed'
    <2> DEFINE y == [New EXCEPT !.at = "backoff", !.whole = x.whole, !.n = x.n, !.once = k]
    <2>1. y.at = "backoff" /\ y.heard = <<>> /\ y.running = {} /\ ~y.timer /\ y.won = "none"
      BY DEF New
    <2>2. Set(t, y)
      BY <1>13 DEF Backoff
    <2> HIDE DEF y
    <2> QED BY <1>12, <1>13, <2>1, <2>2, QuietSettles
  <1>14. CASE o # "Success" /\ LastAnswer(t) /\ (WholeFailed(t, o) \/ PartFailed(t, o))
    <2>1. Needed(x) = {}
      BY <1>4, <1>14
    <2>2. \/ \E e : Fail(t, e)
          \/ \E k : Backoff(t, k)
          \/ Set(t, [Started EXCEPT !.whole = TRUE])
          \/ Set(t, [New EXCEPT !.at = "recut"])
      BY <1>14 DEF WholeFailed, PartFailed, Recheck
    <2>3. CASE \/ Set(t, [Started EXCEPT !.whole = TRUE])
               \/ Set(t, [New EXCEPT !.at = "recut"])
      <3>1. PICK y \in {[Started EXCEPT !.whole = TRUE], [New EXCEPT !.at = "recut"]} : Set(t, y)
        BY <2>3
      <3>2. Settling(y) /\ Needed(y) = {}
        BY FreshSettles
      <3> QED BY <1>12, <2>1, <3>1, <3>2
    <2>4. CASE \E e : Fail(t, e)
      BY <1>11, <2>1, <2>4
    <2>5. CASE \E k : Backoff(t, k)
      BY <1>13, <2>1, <2>5
    <2> QED BY <2>2, <2>3, <2>4, <2>5
  <1> QED BY <1>6, <1>8, <1>9, <1>10, <1>14

\* The other call has ended: its file goes, the winner's becomes the result.
LEMMA DrainFiled ==
    ASSUME FInv, NEW t \in Tasks, Drain(t)
    PROVE  Filed'
  <1> DEFINE x == task[t]
             d == Head(x.heard)[1]
  <1>1. /\ x.at = "drain" /\ x.running = {} /\ Len(x.heard) = 1 /\ Busy(x) /\ Settling(x)
        /\ x \in TaskType /\ x.heard \in Seq(Calls \X Outcomes) /\ x.won \in Calls
        /\ Fits(t, x, phase)
    <2>1. x.at = "drain" /\ x.running = {} /\ Len(x.heard) = 1 /\ Busy(x)
      BY DEF Drain, LastAnswer, Busy
    <2>2. x \in TaskType /\ (x.at = "drain" => x.won \in Calls)
      BY DEF FInv, RInv, IInv, TasksSound, Sound
    <2>3. Settling(x) /\ Fits(t, x, phase)
      BY DEF FInv, RInv, Owned, Placed, Filed
    <2>4. x.heard \in Seq(Calls \X Outcomes)
      BY <2>2 DEF TaskType
    <2> QED BY <2>1, <2>2, <2>3, <2>4
  <1>2. x.heard # <<>> /\ 1 \in DOMAIN x.heard /\ Head(x.heard) = x.heard[1]
    <2>1. x.heard # <<>> /\ DOMAIN x.heard = 1 .. Len(x.heard)
      BY <1>1, EmptySeq, LenProperties
    <2> QED BY <1>1, <2>1, HeadTailProperties
  <1>3. d # x.won /\ d \in Calls
    <2>1. d \in Calls
      BY <1>1, <1>2, HeadTyped
    <2>2. x.heard[1][1] # x.won
      BY <1>1, <1>2 DEF Settling
    <2> QED BY <1>2, <2>1, <2>2
  <1>4. Unread(x.heard) \subseteq {d}
    <2>1. Unread(Tail(x.heard)) = {}
      BY <1>1, <1>2, UnreadTail
    <2>2. Unread(x.heard) = Unread(Tail(x.heard)) \union {c \in Calls : Head(x.heard) = <<c, "Success">>}
      BY <1>1, <1>2, UnreadTail
    <2>3. \A c : Head(x.heard) = <<c, "Success">> => c = d
      OBVIOUS
    <2> QED BY <2>1, <2>2, <2>3
  <1>5. t # Doc
    <2>1. ~x.whole
      BY <1>1 DEF Settling
    <2> QED BY <1>1, <2>1 DEF Fits
  <1>6. /\ task' = [task EXCEPT ![t] = Ended]
        /\ results' = results \union {<<t, x.won>>} /\ files' = files \ {<<t, d>>}
        /\ phase' = phase /\ folder' = folder /\ output' = output
    BY DEF Drain
  <1>7. OfTask(results, t) = {} /\ OfTask(files, t) = Unread(x.heard) \union ({x.won} \ {"none"})
    BY <1>1, BusyNoResult DEF FInv, Filed, OwnFiles, Needed
  <1> HIDE DEF d
  <1>8. OfTask(files', t) = {x.won} /\ OfTask(results', t) = {x.won}
    <2>1. OfTask(files', t) = OfTask(files, t) \ {d}
      BY <1>6 DEF OfTask
    <2>2. OfTask(results', t) = OfTask(results, t) \union {x.won}
      BY <1>1, <1>6 DEF OfTask
    <2>3. x.won # "none"
      BY <1>1 DEF Calls
    <2> QED BY <1>3, <1>4, <1>7, <2>1, <2>2, <2>3
  <1>9. \A s \in Tasks : s # t => OfTask(files', s) = OfTask(files, s)
                                  /\ OfTask(results', s) = OfTask(results, s)
    BY <1>6 DEF OfTask
  <1>10. Settling(Ended) /\ Needed(Ended) = {}
    BY FreshSettles
  <1> QED BY <1>1, <1>5, <1>6, <1>8, <1>9, <1>10, TaskFiled

\* A part that is cut again has no file, and its halves had none.
LEMMA HalveFiled ==
    ASSUME FInv, NEW t \in Tasks, Halve(t)
    PROVE  Filed'
  <1> DEFINE x == task[t]
  <1>1. x.at \in {"recut", "cutting"} /\ Busy(x) /\ x \in TaskType /\ DOMAIN task = Tasks
    BY DEF Halve, RecutOpens, RecutEnded, RecutDone, RecutFails, Busy, FInv, RInv, IInv, TasksSound, Sound
  <1>2. Needed(x) = {} /\ x.heard = <<>> /\ x.running = {} /\ x.won = "none" /\ ~x.timer
    BY <1>1, IdleNeeds
  <1>3. CASE RecutOpens(t)
    <2> DEFINE y == [x EXCEPT !.at = "cutting"]
    <2>1. y.at = "cutting" /\ y.heard = <<>> /\ y.running = {} /\ y.won = "none" /\ ~y.timer
      BY <1>1, <1>2 DEF TaskType
    <2>2. Set(t, y)
      BY <1>3 DEF RecutOpens
    <2> HIDE DEF y
    <2>3. Settling(y) /\ Needed(y) = {}
      BY <2>1, QuietSettles
    <2> QED BY <1>1, <1>2, <2>2, <2>3, SetFiled
  <1>4. CASE RecutEnded(t) \/ RecutFails(t)
    <2>1. \E e : Fail(t, e)
      BY <1>4 DEF RecutEnded, RecutFails
    <2> QED BY <1>1, <1>2, <2>1, FailFiled
  <1>5. CASE RecutDone(t)
    <2>1. CASE x.cuts = 0
      <3> DEFINE y == [x EXCEPT !.at = "recut", !.cuts = 1]
      <3>1. y.at = "recut" /\ y.heard = <<>> /\ y.running = {} /\ y.won = "none" /\ ~y.timer
        BY <1>1, <1>2 DEF TaskType
      <3>2. Set(t, y)
        <4>1. task' = [task EXCEPT ![t].at = "recut", ![t].cuts = 1] /\ UNCHANGED run
          BY <1>5, <2>1 DEF RecutDone
        <4>2. task' = [task EXCEPT ![t] = y]
          BY <1>1, <4>1 DEF TaskType
        <4> QED BY <4>1, <4>2 DEF Set
      <3> HIDE DEF y
      <3>3. Settling(y) /\ Needed(y) = {}
        BY <3>1, QuietSettles
      <3> QED BY <1>1, <1>2, <3>2, <3>3, SetFiled
    <2>2. CASE StartHalves(t)
      <3> DEFINE a == FirstHalf(t)
                 b == SecondHalf(t)
      <3>1. x.at = "cutting" /\ UNCHANGED run
        BY <1>5 DEF RecutDone
      <3>2. phase = "parts" /\ a \in Tasks /\ b \in Tasks /\ ~Owner(a) /\ ~Owner(b)
        BY <3>1, HalvesFree DEF FInv, RInv
      <3>3. task' = [task EXCEPT ![t] = Ended, ![a] = Started, ![b] = Started]
        BY <2>2 DEF StartHalves
      <3> HIDE DEF a, b
      <3>4. ASSUME NEW s \in Tasks
            PROVE  task'[s] = task[s] \/ (s \in {a, b, t} /\ task'[s] \in {Started, Ended})
        <4>1. CASE s \notin {a, b, t}
          BY <1>1, <3>3, <4>1
        <4>2. CASE s = b
          BY <1>1, <3>2, <3>3, <4>2
        <4>3. CASE s = a /\ s # b
          BY <1>1, <3>2, <3>3, <4>3
        <4>4. CASE s = t /\ s # a /\ s # b
          BY <1>1, <3>3, <4>4
        <4> QED BY <4>1, <4>2, <4>3, <4>4
      <3>5. Needed(task[a]) = {} /\ Needed(task[b]) = {}
        BY <3>2, IdleNeeds DEF Owner, Busy
      <3>6. Settling(Started) /\ Settling(Ended) /\ Needed(Started) = {} /\ Needed(Ended) = {}
        BY FreshSettles
      <3>7. ASSUME NEW s \in Tasks
            PROVE  Settling(task'[s]) /\ Needed(task'[s]) = Needed(task[s])
        <4>1. CASE task'[s] = task[s]
          BY <4>1 DEF FInv, Filed
        <4>2. CASE s \in {a, b, t} /\ task'[s] \in {Started, Ended}
          <5>1. Needed(task[s]) = {}
            BY <1>2, <3>5, <4>2
          <5>2. Settling(task'[s]) /\ Needed(task'[s]) = {}
            BY <3>6, <4>2
          <5> QED BY <5>1, <5>2
        <4> QED BY <3>4, <4>1, <4>2
      <3>8. phase' = phase /\ files' = files /\ results' = results /\ folder' = folder /\ output' = output
        BY <3>1 DEF run
      <3> QED BY <3>2, <3>7, <3>8 DEF FInv, Filed, OwnFiles
    <2> QED BY <1>5, <2>1, <2>2 DEF RecutDone
  <1> QED BY <1>3, <1>4, <1>5 DEF Halve

\* The steps of run once its parts have ended: the files are those of the
\* results, and go with them.
LEMMA PartsEndFiled ==
    ASSUME FInv, PartsFailed \/ Merge \/ MergeCheckFails \/ MergeFails \/ ReturnError
    PROVE  Filed'
  <1>1. \A t \in Tasks : ~Busy(task[t])
    <2>1. CASE phase = "parts" /\ AllEnded
      BY <2>1 DEF AllEnded, Parts, FInv, RInv, Owned, Placed, Fits, Busy
    <2>2. CASE phase = "failed"
      BY <2>2 DEF FInv, RInv, Owned, Placed, Fits
    <2> QED BY <2>1, <2>2 DEF PartsFailed, Merge, MergeCheckFails, MergeFails, ReturnError
  <1>2. phase # "returned" /\ output = "none" /\ folder
    BY DEF PartsFailed, Merge, MergeCheckFails, MergeFails, ReturnError, FInv, RInv, Undecided, Filed
  <1>3. files = results
    BY <1>1, <1>2, NobodyBusy, NoneNeeded
  <1>4. CASE MergeCheckFails
    BY <1>1, <1>2, <1>4, SendWholeFiled DEF MergeCheckFails
  <1>5. CASE PartsFailed \/ MergeFails
    <2>1. task' = task /\ phase' = "failed" /\ files' = {} /\ results' = {} /\ folder' = folder
      BY <1>3, <1>5 DEF PartsFailed, MergeFails, Cleanup
    <2>2. \A t \in Tasks : Needed(task[t]) = {}
      BY <1>1, NobodyBusy
    <2>3. \A t : OfTask({}, t) = {}
      BY DEF OfTask
    <2> QED BY <1>2, <2>1, <2>2, <2>3 DEF FInv, Filed, OwnFiles
  <1>6. CASE Merge
    <2>1. task' = task /\ phase' = "returned" /\ files' = {} /\ folder' = folder /\ output' = "merged"
      BY <1>3, <1>6 DEF Merge
    <2> QED BY <1>2, <2>1 DEF FInv, Filed, LeftOver
  <1>7. CASE ReturnError
    <2>1. /\ task' = task /\ phase' = "returned" /\ files' = {} /\ folder' = FALSE /\ output' = "none"
      BY <1>2, <1>3, <1>7 DEF ReturnError, FInv, Filed
    <2> QED BY <2>1 DEF FInv, Filed, LeftOver
  <1> QED BY <1>4, <1>5, <1>6, <1>7

LEMMA WorldFiled ==
    ASSUME FInv, Stop \/ Expire \/ OthersTake \/ OthersCall \/ OthersClose \/ UNCHANGED vars
    PROVE  Filed'
  <1>1. task' = task /\ UNCHANGED run
    BY DEF Stop, Expire, OthersTake, OthersCall, OthersClose, vars
  <1> QED BY <1>1 DEF FInv, Filed, OwnFiles, LeftOver, run

LEMMA StepFiled == FInv /\ [Next]_vars => Filed'
  <1> SUFFICES ASSUME FInv, [Next]_vars PROVE Filed'
    OBVIOUS
  <1>1. ASSUME NEW t \in Tasks, Attempt(t)
        PROVE  Filed'
    <2>1. CASE \E c \in Calls, o \in Outcomes : CallReturns(t, c, o)
      BY <2>1, CallReturnsFiled
    <2>2. CASE Hear(t)
      BY <2>2, HearFiled
    <2>3. CASE Drain(t)
      BY <2>3, DrainFiled
    <2>4. CASE Acquire(t) \/ AcquireEnded(t) \/ PartUnreadable(t) \/ HedgeFires(t) \/ BackoffEnds(t)
      BY <2>4, WaitFiled
    <2> QED BY <1>1, <2>1, <2>2, <2>3, <2>4 DEF Attempt
  <1>2. ASSUME NEW t \in Tasks, Halve(t)
        PROVE  Filed'
    BY <1>2, HalveFiled
  <1>3. CASE DecideUnsplit \/ OpenSource \/ OpenSourceEnded \/ CutParts \/ CutNothing
    BY <1>3, DecideFiled
  <1>4. CASE PartsFailed \/ Merge \/ MergeCheckFails \/ MergeFails \/ ReturnError
    BY <1>4, PartsEndFiled
  <1>5. CASE Stop \/ Expire \/ OthersTake \/ OthersCall \/ OthersClose \/ UNCHANGED vars
    BY <1>5, WorldFiled
  <1> QED BY <1>1, <1>2, <1>3, <1>4, <1>5 DEF Next, Returned

\* Before the run returns nothing is decided, and every file is accounted for.
LEMMA FiledAlways == Spec => [](Owned /\ Counted /\ Undecided /\ Filed)
  <1>1. Init => Undecided /\ Filed
    BY InitAllowed, InitFiled
  <1>2. IInv /\ Owned /\ Undecided /\ Filed /\ [Next]_vars => Undecided' /\ Filed'
    BY StepAllowed, StepFiled DEF RInv, FInv
  <1> QED BY <1>1, <1>2, Invariant, OwnedAlways, PTL DEF Spec

\* A result file exists exactly as long as its task may need it, however its
\* calls are hedged, cancelled and retried: until its answer is read, while the
\* loser is waited for, and as the task's result (hedged, fanout.add,
\* Result.Cleanup).
THEOREM FilesKept == Spec => []FilesOwned
  <1>1. Filed => FilesOwned
    BY DEF Filed, OwnFiles, OfTask, Needed, Unread, FilesOwned
  <1> QED BY <1>1, FiledAlways, PTL

\* When Run returns, with an output or an error, no slot, no permit and no task
\* of it is left, and no file but those of the output (Run, split, runWhole).
THEOREM NothingLeftBehind == Spec => []NothingLeft
  <1>1. IInv /\ Owned /\ Counted /\ Undecided /\ Filed => NothingLeft
    <2> SUFFICES ASSUME IInv, Owned, Counted, Undecided, Filed, verdict # "none"
                 PROVE  /\ inUse = others /\ open = otherDocs
                        /\ \A t \in Tasks : ~Live(t)
                        /\ folder <=> output = "merged"
                        /\ files = IF output = "whole" THEN {<<Doc, "first">>} ELSE {}
      BY DEF NothingLeft
    <2>1. phase = "returned"
      BY DEF Undecided
    <2>2. \A t \in Tasks : ~Live(t)
      BY <2>1 DEF Owned, Placed, Fits, Busy, Live
    <2>3. \A t \in Tasks : task[t].running = {} /\ task[t].at # "cutting"
      BY <2>2, IdleHolds DEF Live
    <2>4. inUse = others /\ open = otherDocs
      BY <2>1, <2>3, NothingHeld DEF Counted, IInv, SharedTyped
    <2> QED BY <2>1, <2>2, <2>4 DEF Filed, LeftOver
  <1> QED BY <1>1, FiledAlways, Invariant, PTL
=============================================================================
