-------------------------- MODULE SchedulerProofs --------------------------
(***************************************************************************)
(* Theorems about Scheduler and SchedulerFair, for every set of callers    *)
(* and jobs and every limit.                                               *)
(***************************************************************************)
EXTENDS SchedulerFair, FiniteSetTheorems, SequenceTheorems, TLAPS

-----------------------------------------------------------------------------
(* Sequences without repetitions *)

\* The back of a queue: Append adds its element and nothing else.
LEMMA AppendFacts ==
    ASSUME NEW S, NEW s \in Seq(S), NEW e \in S
    PROVE  /\ Append(s, e) \in Seq(S)
           /\ Append(s, e) # <<>>
           /\ \A x : In(x, Append(s, e)) <=> In(x, s) \/ x = e
           /\ NoRepeats(s) /\ ~In(e, s) => NoRepeats(Append(s, e))
  <1> DEFINE t == Append(s, e)
  <1>1. /\ t \in Seq(S)
        /\ Len(t) = Len(s) + 1
        /\ t[Len(s) + 1] = e
        /\ \A i \in 1 .. Len(s) : t[i] = s[i]
    BY AppendProperties
  <1>2. /\ DOMAIN s = 1 .. Len(s)
        /\ DOMAIN t = 1 .. Len(s) + 1
        /\ Len(s) \in Nat
    BY <1>1, LenProperties
  <1> HIDE DEF t
  <1>3. t # <<>>
    BY <1>1, <1>2
  <1>4. ASSUME NEW x PROVE In(x, t) <=> In(x, s) \/ x = e
    BY <1>1, <1>2 DEF In
  <1>5. NoRepeats(s) /\ ~In(e, s) => NoRepeats(t)
    BY <1>1, <1>2 DEF In, NoRepeats
  <1> QED BY <1>1, <1>3, <1>4, <1>5 DEF t

\* The front of a queue: Tail drops the head, and in a queue without
\* repetitions the head is gone from it.
LEMMA TailFacts ==
    ASSUME NEW S, NEW s \in Seq(S), s # <<>>, NoRepeats(s)
    PROVE  /\ Head(s) \in S
           /\ In(Head(s), s)
           /\ Tail(s) \in Seq(S)
           /\ \A x : In(x, Tail(s)) <=> In(x, s) /\ x # Head(s)
           /\ NoRepeats(Tail(s))
  <1> DEFINE t == Tail(s)
  <1>1. /\ t \in Seq(S)
        /\ Len(t) = Len(s) - 1
        /\ \A i \in 1 .. Len(t) : t[i] = s[i + 1]
        /\ Head(s) = s[1]
    BY HeadTailProperties
  <1>2. /\ DOMAIN s = 1 .. Len(s)
        /\ DOMAIN t = 1 .. Len(t)
        /\ Len(s) \in Nat \ {0}
        /\ Len(t) \in Nat
    BY <1>1, LenProperties, EmptySeq
  <1> HIDE DEF t
  <1>3. Head(s) \in S /\ In(Head(s), s)
    BY <1>1, <1>2 DEF In
  <1>4. ASSUME NEW x PROVE In(x, t) <=> In(x, s) /\ x # Head(s)
    <2>1. ASSUME In(x, t) PROVE In(x, s) /\ x # Head(s)
      BY <1>1, <1>2, <2>1 DEF In, NoRepeats
    <2>2. ASSUME In(x, s), x # Head(s) PROVE In(x, t)
      <3>1. PICK i \in 1 .. Len(s) : s[i] = x
        BY <1>2, <2>2 DEF In
      <3>2. i - 1 \in 1 .. Len(t) /\ t[i - 1] = x
        BY <1>1, <1>2, <2>2, <3>1
      <3> QED BY <1>2, <3>2 DEF In
    <2> QED BY <2>1, <2>2
  <1>5. NoRepeats(t)
    BY SMTT(60), <1>1, <1>2 DEF NoRepeats
  <1> QED BY <1>1, <1>3, <1>4, <1>5 DEF t

\* The middle of a queue: what Without leaves.
LEMMA WithoutFacts ==
    ASSUME NEW S, NEW s \in Seq(S), NEW e, In(e, s), NoRepeats(s)
    PROVE  /\ Without(s, e) \in Seq(S)
           /\ \A x : In(x, Without(s, e)) <=> In(x, s) /\ x # e
           /\ NoRepeats(Without(s, e))
           /\ Without(s, e) = <<>> <=> Len(s) = 1
  <1> DEFINE at == CHOOSE i \in DOMAIN s : s[i] = e
             w == [i \in 1 .. Len(s) - 1 |-> IF i < at THEN s[i] ELSE s[i + 1]]
  <1>1. at \in 1 .. Len(s) /\ s[at] = e
    BY DEF In
  <1>2. Without(s, e) = w
    BY DEF Without
  <1> HIDE DEF at
  <1>3. w \in Seq(S) /\ Len(w) = Len(s) - 1
    BY <1>1
  <1>4. ASSUME NEW x PROVE In(x, w) <=> In(x, s) /\ x # e
    <2>1. ASSUME In(x, w) PROVE In(x, s) /\ x # e
      BY <1>1, <1>3, <2>1 DEF In, NoRepeats
    <2>2. ASSUME In(x, s), x # e PROVE In(x, w)
      <3>1. PICK i \in 1 .. Len(s) : s[i] = x
        BY <2>2 DEF In
      <3>2. CASE i < at
        BY <1>1, <3>1, <3>2 DEF In
      <3>3. CASE i > at
        <4>1. i - 1 \in 1 .. Len(s) - 1 /\ w[i - 1] = x
          BY <1>1, <3>1, <3>3
        <4> QED BY <4>1, <1>3 DEF In
      <3> QED BY <1>1, <2>2, <3>1, <3>2, <3>3
    <2> QED BY <2>1, <2>2
  <1>5. NoRepeats(w)
    BY <1>1, <1>3 DEF NoRepeats
  <1>6. w = <<>> <=> Len(s) = 1
    <2> HIDE DEF w
    <2> QED BY <1>1, <1>3, EmptySeq, LenProperties
  <1> QED BY <1>2, <1>3, <1>4, <1>5, <1>6

-----------------------------------------------------------------------------
(* The inductive invariant *)

\* A grant is in the channel only of a caller that has yet to look there.
TokenForWaiter == \A c \in Callers : token[c] => pc[c] \in {"parked", "giveup"}

\* With mu free, either every slot is in use or no job is waiting.
NothingToGrant == mu = None => inUse = slots \/ ring = <<>>

IInv == /\ TypeOK
        /\ TokenForWaiter
        /\ SlotsConserved
        /\ QueuedOrGranted
        /\ NothingToGrant

\* New makes at least one slot, whatever limit it is given.
LEMMA SlotsPositive == slots \in Nat /\ slots > 0
  BY LimitAssumption DEF slots

\* The sets the invariants count are finite.
LEMMA FiniteSets ==
  /\ IsFiniteSet(Holders) /\ IsFiniteSet(Holders')
  /\ IsFiniteSet(Queued) /\ IsFiniteSet(Queued')
  /\ Cardinality(Holders) \in Nat /\ Cardinality(Queued) \in Nat
  <1>1. /\ Holders \in SUBSET Callers /\ Holders' \in SUBSET Callers
        /\ Queued \in SUBSET Callers /\ Queued' \in SUBSET Callers
    BY DEF Holders, Queued
  <1> QED BY <1>1, CallersAssumption, FS_Subset, FS_CardinalityType

\* A new scheduler satisfies the inductive invariant.
LEMMA InitIInv == Init => IInv
  <1> SUFFICES ASSUME Init PROVE IInv
    OBVIOUS
  <1>1. TypeOK
    BY SlotsPositive DEF Init, TypeOK, PC
  <1>2. TokenForWaiter
    BY DEF Init, TokenForWaiter
  <1>3. Holders = {} /\ Queued = {}
    BY DEF Init, Holders, Queued
  <1>4. SlotsConserved
    BY <1>3, FS_EmptySet DEF Init, SlotsConserved
  <1>5. QueuedOrGranted
    BY <1>3, FS_EmptySet, JobOfAssumption DEF Init, QueuedOrGranted, In, NoRepeats
  <1>6. NothingToGrant
    BY DEF Init, NothingToGrant
  <1> QED BY <1>1, <1>2, <1>4, <1>5, <1>6 DEF IInv

\* The queues stay consistent in a step that leaves them, and who waits, alone.
LEMMA QueuesKept ==
    ASSUME QueuedOrGranted, Queued' = Queued,
           UNCHANGED <<ring, waiters, waiting>>
    PROVE  QueuedOrGranted'
  BY DEF QueuedOrGranted, NoRepeats, In

\* ... and in one that adds a caller who did not wait at the back.
LEMMA EnqueueKeeps ==
    ASSUME TypeOK, QueuedOrGranted, NEW c \in Callers, c \notin Queued,
           Enqueue(c), Queued' = Queued \union {c}
    PROVE  QueuedOrGranted' /\ ring' \in Seq(Jobs) /\ waiters' \in [Jobs -> Seq(Callers)]
  <1> DEFINE job == JobOf[c]
  <1>0. /\ job \in Jobs
        /\ waiters \in [Jobs -> Seq(Callers)] /\ ring \in Seq(Jobs)
        /\ waiting' = waiting + 1
        /\ waiters' = [waiters EXCEPT ![job] = Append(@, c)]
        /\ ring' = IF waiters[job] = <<>> THEN Append(ring, job) ELSE ring
    BY JobOfAssumption DEF TypeOK, Enqueue
  <1>1. /\ waiters'[job] \in Seq(Callers)
        /\ waiters'[job] # <<>>
        /\ \A x : In(x, waiters'[job]) <=> In(x, waiters[job]) \/ x = c
        /\ NoRepeats(waiters'[job])
    BY SMTT(60), <1>0, AppendFacts DEF QueuedOrGranted
  <1>2. /\ \A j \in Jobs : j # job => waiters'[j] = waiters[j]
        /\ waiters' \in [Jobs -> Seq(Callers)]
    BY <1>0, <1>1
  <1>3. \A d \in Callers, j \in Jobs : In(d, waiters'[j]) <=> d \in Queued' /\ JobOf[d] = j
    BY <1>1, <1>2, JobOfAssumption DEF QueuedOrGranted
  <1>4. \A j \in Jobs : NoRepeats(waiters'[j])
    BY <1>1, <1>2 DEF QueuedOrGranted
  <1>5. (\A j \in Jobs : waiters'[j] # <<>> <=> In(j, ring')) /\ NoRepeats(ring') /\ ring' \in Seq(Jobs)
    <2>1. CASE waiters[job] = <<>>
      <3>1. ~In(job, ring)
        BY <1>0, <2>1 DEF QueuedOrGranted
      <3>2. /\ ring' \in Seq(Jobs)
            /\ NoRepeats(ring')
            /\ \A x : In(x, ring') <=> In(x, ring) \/ x = job
        BY <1>0, <2>1, <3>1, AppendFacts DEF QueuedOrGranted
      <3> QED BY <1>1, <1>2, <3>2 DEF QueuedOrGranted
    <2>2. CASE waiters[job] # <<>>
      BY <1>0, <1>1, <1>2, <2>2 DEF QueuedOrGranted
    <2> QED BY <2>1, <2>2
  <1>6. waiting' = Cardinality(Queued')
    BY <1>0, FiniteSets, FS_AddElement DEF QueuedOrGranted
  <1> QED BY <1>2, <1>3, <1>4, <1>5, <1>6 DEF QueuedOrGranted

\* ... and in one that grants the first caller of the first job.
LEMMA GrantKeeps ==
    ASSUME TypeOK, QueuedOrGranted, ring # <<>>, GrantOne,
           Queued' = Queued \ {Head(waiters[Head(ring)])}
    PROVE  /\ QueuedOrGranted'
           /\ ring' \in Seq(Jobs) /\ waiters' \in [Jobs -> Seq(Callers)]
           /\ Head(waiters[Head(ring)]) \in Queued
           /\ waiting' \in Nat
  <1> DEFINE job == Head(ring)
             w == Head(waiters[job])
             q == Tail(waiters[job])
  <1>0. /\ waiters \in [Jobs -> Seq(Callers)] /\ ring \in Seq(Jobs)
        /\ waiting' = waiting - 1
        /\ waiters' = [waiters EXCEPT ![job] = q]
        /\ ring' = IF q = <<>> THEN Tail(ring) ELSE Append(Tail(ring), job)
    BY DEF TypeOK, GrantOne
  <1>1. /\ job \in Jobs /\ In(job, ring)
        /\ Tail(ring) \in Seq(Jobs)
        /\ \A x : In(x, Tail(ring)) <=> In(x, ring) /\ x # job
        /\ NoRepeats(Tail(ring))
    BY <1>0, TailFacts DEF QueuedOrGranted
  <1>2. waiters[job] \in Seq(Callers) /\ waiters[job] # <<>> /\ NoRepeats(waiters[job])
    BY <1>0, <1>1 DEF QueuedOrGranted
  <1>3. /\ w \in Callers /\ In(w, waiters[job])
        /\ q \in Seq(Callers)
        /\ \A x : In(x, q) <=> In(x, waiters[job]) /\ x # w
        /\ NoRepeats(q)
    BY <1>2, TailFacts
  <1> HIDE DEF job, w, q
  <1>4. w \in Queued /\ JobOf[w] = job
    BY <1>1, <1>3 DEF QueuedOrGranted
  <1>5. /\ waiters' \in [Jobs -> Seq(Callers)]
        /\ waiters'[job] = q
        /\ \A j \in Jobs : j # job => waiters'[j] = waiters[j]
    BY <1>0, <1>1, <1>3
  <1>6. Queued' = Queued \ {w}
    BY DEF w, job
  <1>7. \A d \in Callers, j \in Jobs : In(d, waiters'[j]) <=> d \in Queued' /\ JobOf[d] = j
    BY <1>1, <1>3, <1>4, <1>5, <1>6 DEF QueuedOrGranted
  <1>8. \A j \in Jobs : NoRepeats(waiters'[j])
    BY <1>3, <1>5 DEF QueuedOrGranted
  <1>9. (\A j \in Jobs : waiters'[j] # <<>> <=> In(j, ring')) /\ NoRepeats(ring') /\ ring' \in Seq(Jobs)
    <2>1. CASE q = <<>>
      BY <1>0, <1>1, <1>5, <2>1 DEF QueuedOrGranted
    <2>2. CASE q # <<>>
      <3>1. ~In(job, Tail(ring))
        BY <1>1
      <3>2. /\ ring' \in Seq(Jobs)
            /\ NoRepeats(ring')
            /\ \A x : In(x, ring') <=> In(x, Tail(ring)) \/ x = job
        BY <1>0, <1>1, <2>2, <3>1, AppendFacts
      <3> QED BY <1>1, <1>5, <2>2, <3>2 DEF QueuedOrGranted
    <2> QED BY <2>1, <2>2
  <1>10. waiting' = Cardinality(Queued')
    BY <1>0, <1>4, <1>6, FiniteSets, FS_RemoveElement DEF QueuedOrGranted
  <1>11. waiting' \in Nat
    BY <1>10, FiniteSets, FS_CardinalityType
  <1> QED BY <1>4, <1>5, <1>7, <1>8, <1>9, <1>10, <1>11 DEF QueuedOrGranted, w, job

\* ... and in one that takes out a caller who gave up.
LEMMA DequeueKeeps ==
    ASSUME TypeOK, QueuedOrGranted, NEW c \in Queued,
           DequeueLocked(c), Queued' = Queued \ {c}
    PROVE  /\ QueuedOrGranted'
           /\ ring' \in Seq(Jobs) /\ waiters' \in [Jobs -> Seq(Callers)]
           /\ waiting' \in Nat
           /\ ring = <<>> => ring' = <<>>
  <1> DEFINE job == JobOf[c]
             q == Without(waiters[job], c)
  <1>0. /\ c \in Callers /\ job \in Jobs
        /\ waiters \in [Jobs -> Seq(Callers)] /\ ring \in Seq(Jobs)
        /\ waiting' = waiting - 1
        /\ waiters' = [waiters EXCEPT ![job] = q]
        /\ ring' = IF Len(waiters[job]) = 1 THEN Without(ring, job) ELSE ring
    BY JobOfAssumption DEF TypeOK, DequeueLocked, Queued
  <1>1. /\ In(c, waiters[job]) /\ waiters[job] \in Seq(Callers)
        /\ NoRepeats(waiters[job])
    BY <1>0 DEF QueuedOrGranted
  <1>2. /\ q \in Seq(Callers)
        /\ \A x : In(x, q) <=> In(x, waiters[job]) /\ x # c
        /\ NoRepeats(q)
        /\ q = <<>> <=> Len(waiters[job]) = 1
    BY <1>1, WithoutFacts
  <1>3. waiters[job] # <<>> /\ In(job, ring) /\ NoRepeats(ring)
    BY <1>0, <1>1 DEF QueuedOrGranted, In
  <1>4. /\ Without(ring, job) \in Seq(Jobs)
        /\ \A x : In(x, Without(ring, job)) <=> In(x, ring) /\ x # job
        /\ NoRepeats(Without(ring, job))
    BY <1>0, <1>3, WithoutFacts
  <1> HIDE DEF job, q
  <1>5. /\ waiters' \in [Jobs -> Seq(Callers)]
        /\ waiters'[job] = q
        /\ \A j \in Jobs : j # job => waiters'[j] = waiters[j]
    BY <1>0, <1>2
  <1>6. \A d \in Callers, j \in Jobs : In(d, waiters'[j]) <=> d \in Queued' /\ JobOf[d] = j
    <2>1. JobOf[c] = job
      BY DEF job
    <2> QED BY <1>0, <1>2, <1>5, <2>1 DEF QueuedOrGranted
  <1>7. \A j \in Jobs : NoRepeats(waiters'[j])
    BY <1>2, <1>5 DEF QueuedOrGranted
  <1>8. (\A j \in Jobs : waiters'[j] # <<>> <=> In(j, ring')) /\ NoRepeats(ring') /\ ring' \in Seq(Jobs)
    BY <1>0, <1>2, <1>3, <1>4, <1>5 DEF QueuedOrGranted
  <1>9. waiting' = Cardinality(Queued')
    BY <1>0, FiniteSets, FS_RemoveElement DEF QueuedOrGranted
  <1>10. waiting' \in Nat
    BY <1>9, FiniteSets, FS_CardinalityType
  <1>11. ring # <<>>
    BY <1>3 DEF In
  <1> QED BY <1>5, <1>6, <1>7, <1>8, <1>9, <1>10, <1>11 DEF QueuedOrGranted

-----------------------------------------------------------------------------
(* Every step keeps the invariant *)

\* inUse follows the set of holders.
LEMMA HoldersGrow ==
    ASSUME SlotsConserved, NEW c \in Callers, c \notin Holders,
           Holders' = Holders \union {c}, inUse' = inUse + 1
    PROVE  SlotsConserved'
  BY FiniteSets, FS_AddElement DEF SlotsConserved

\* ... and loses one with a holder that lets go of its slot.
LEMMA HoldersShrink ==
    ASSUME TypeOK, SlotsConserved, NEW c \in Holders,
           Holders' = Holders \ {c}, FreeLocked(c)
    PROVE  SlotsConserved' /\ inUse' = inUse - 1 /\ inUse' \in 0 .. slots
  <1>1. Cardinality(Holders) # 0
    BY FiniteSets, FS_EmptySet
  <1>2. inUse > 0 /\ inUse' = inUse - 1 /\ inUse' \in 0 .. slots
    BY <1>1, FiniteSets, SlotsPositive DEF SlotsConserved, TypeOK, FreeLocked
  <1>3. Cardinality(Holders') = Cardinality(Holders) - 1
    BY FiniteSets, FS_RemoveElement
  <1> QED BY <1>2, <1>3 DEF SlotsConserved

\* A step that touches neither the slots nor the queues.
LEMMA QuietKeeps ==
    ASSUME IInv, TypeOK', TokenForWaiter', Holders' = Holders, Queued' = Queued,
           UNCHANGED <<mu, inUse, ring, waiters, waiting>>
    PROVE  IInv'
  BY QueuesKept DEF IInv, SlotsConserved, NothingToGrant, slots

\* A step that frees the slot of c and leaves mu with it.
LEMMA FreeKeeps ==
    ASSUME IInv, NEW c \in Holders, Holders' = Holders \ {c}, Queued' = Queued,
           FreeLocked(c), TokenForWaiter',
           UNCHANGED <<ring, waiters, waiting>>,
           token' \in [Callers -> BOOLEAN], ended' \in [Callers -> BOOLEAN],
           pc' \in [Callers -> PC]
    PROVE  IInv'
  <1>1. SlotsConserved' /\ inUse' \in 0 .. slots
    BY HoldersShrink DEF IInv
  <1>2. mu' = c /\ c \in Callers
    BY DEF FreeLocked, Holders
  <1>3. TypeOK'
    BY <1>1, <1>2 DEF IInv, TypeOK, slots
  <1>4. NothingToGrant'
    BY <1>2, CallersAssumption DEF NothingToGrant
  <1>5. QueuedOrGranted'
    BY QueuesKept DEF IInv
  <1> QED BY <1>1, <1>3, <1>4, <1>5 DEF IInv

\* Every step of a call, and every iteration of grantLocked, keeps the invariant.
LEMMA NextIInv == IInv /\ [Next]_vars => IInv'
  <1> SUFFICES ASSUME IInv, [Next]_vars PROVE IInv'
    OBVIOUS
  <1> USE DEF Goto, Return
  <1>1. CASE UNCHANGED vars
    <2>1. TypeOK' /\ TokenForWaiter' /\ Holders' = Holders /\ Queued' = Queued
      BY <1>1 DEF vars, IInv, TypeOK, TokenForWaiter, Holders, Queued, slots
    <2> QED BY <1>1, <2>1, QuietKeeps DEF vars
  <1>2. CASE GrantLocked
    <2> DEFINE w == Head(waiters[Head(ring)])
    <2>1. ring # <<>> /\ inUse < slots /\ GrantOne /\ UNCHANGED <<mu, ended, pc>>
      BY <1>2 DEF GrantLocked, MoreToGrant
    <2>2. token' = [token EXCEPT ![w] = TRUE] /\ inUse' = inUse + 1
      BY <2>1 DEF GrantOne
    <2> HIDE DEF w
    <2>3. Queued' = Queued \ {w}
      BY <2>1, <2>2 DEF Queued, IInv, TypeOK
    <2>4. /\ QueuedOrGranted'
          /\ ring' \in Seq(Jobs) /\ waiters' \in [Jobs -> Seq(Callers)]
          /\ w \in Queued
          /\ waiting' \in Nat
      BY <2>1, <2>3, GrantKeeps DEF IInv, w
    <2>5. w \in Callers /\ pc[w] \in {"parked", "giveup"} /\ ~token[w]
      BY <2>4 DEF Queued
    <2>6. Holders' = Holders \union {w} /\ w \notin Holders
      BY <2>1, <2>2, <2>5 DEF Holders, IInv, TypeOK
    <2>7. SlotsConserved'
      BY <2>2, <2>5, <2>6, HoldersGrow DEF IInv
    <2>8. TokenForWaiter'
      BY <2>1, <2>2, <2>5 DEF IInv, TokenForWaiter, TypeOK
    <2>9. inUse' \in 0 .. slots
      BY <2>1, <2>2, SlotsPositive DEF IInv, TypeOK
    <2>10. TypeOK'
      BY <2>1, <2>2, <2>4, <2>9 DEF IInv, TypeOK, slots
    <2>11. NothingToGrant'
      BY <1>2 DEF NothingToGrant, GrantLocked
    <2> QED BY <2>4, <2>7, <2>8, <2>10, <2>11 DEF IInv
  <1>3. CASE Unlock
    <2>1. /\ TypeOK' /\ TokenForWaiter' /\ Holders' = Holders /\ Queued' = Queued
          /\ UNCHANGED <<inUse, ring, waiters, waiting>>
      BY <1>3 DEF Unlock, IInv, TypeOK, TokenForWaiter, Holders, Queued, slots
    <2>2. NothingToGrant'
      BY <1>3, SlotsPositive DEF Unlock, MoreToGrant, NothingToGrant, IInv, TypeOK, slots
    <2> QED BY <2>1, <2>2, QueuesKept DEF IInv, SlotsConserved
  <1>4. ASSUME NEW c \in Callers, Step(c) PROVE IInv'
    <2>1. CASE AcquireEnded(c) \/ ReleaseAgain(c) \/ SeeDone(c) \/ EndContext(c)
      <3>1. /\ TypeOK' /\ TokenForWaiter' /\ Holders' = Holders /\ Queued' = Queued
            /\ UNCHANGED <<mu, inUse, ring, waiters, waiting>>
        BY <2>1 DEF AcquireEnded, ReleaseAgain, SeeDone, EndContext, IInv, TypeOK,
                    TokenForWaiter, Holders, Queued, slots, PC
      <3> QED BY <3>1, QuietKeeps
    <2>2. CASE TakeToken(c)
      <3>1. /\ TypeOK' /\ TokenForWaiter' /\ Holders' = Holders /\ Queued' = Queued
            /\ UNCHANGED <<mu, inUse, ring, waiters, waiting>>
        BY <2>2 DEF TakeToken, IInv, TypeOK, TokenForWaiter, Holders, Queued, slots, PC
      <3> QED BY <3>1, QuietKeeps
    <2>3. CASE AcquireFree(c) \/ TryAcquireIdle(c)
      <3>1. /\ mu = None /\ inUse < slots /\ pc[c] = "idle" /\ inUse' = inUse + 1
            /\ pc' = [pc EXCEPT ![c] = "held"]
            /\ UNCHANGED <<mu, ring, waiters, waiting, token, ended>>
        BY <2>3 DEF AcquireFree, TryAcquireIdle, MayTake
      <3>2. /\ Holders' = Holders \union {c} /\ c \notin Holders /\ Queued' = Queued
            /\ TokenForWaiter'
        BY <3>1 DEF Holders, Queued, IInv, TypeOK, TokenForWaiter
      <3>3. SlotsConserved'
        BY <3>1, <3>2, HoldersGrow DEF IInv
      <3>4. TypeOK'
        <4>1. inUse' \in 0 .. slots
          BY <3>1, SlotsPositive DEF IInv, TypeOK
        <4> QED BY <3>1, <4>1 DEF IInv, TypeOK, slots, PC
      <3>5. NothingToGrant'
        <4>1. inUse # slots
          BY <3>1, SlotsPositive DEF IInv, TypeOK
        <4>2. ring = <<>>
          BY <3>1, <4>1 DEF IInv, NothingToGrant
        <4> QED BY <3>1, <4>2 DEF NothingToGrant
      <3>6. QueuedOrGranted'
        BY <3>1, <3>2, QueuesKept DEF IInv
      <3> QED BY <3>2, <3>3, <3>4, <3>5, <3>6 DEF IInv
    <2>4. CASE AcquireWait(c)
      <3>1. /\ mu = None /\ pc[c] = "idle" /\ ~MayTake /\ Enqueue(c)
            /\ pc' = [pc EXCEPT ![c] = "parked"]
            /\ UNCHANGED <<mu, inUse, token, ended>>
        BY <2>4 DEF AcquireWait
      <3>2. /\ Holders' = Holders /\ Queued' = Queued \union {c} /\ c \notin Queued
            /\ TokenForWaiter'
        BY <3>1 DEF Holders, Queued, IInv, TypeOK, TokenForWaiter
      <3>3. QueuedOrGranted' /\ ring' \in Seq(Jobs) /\ waiters' \in [Jobs -> Seq(Callers)]
        BY <3>1, <3>2, EnqueueKeeps DEF IInv
      <3>4. TypeOK'
        BY <3>1, <3>3 DEF IInv, TypeOK, Enqueue, slots, PC
      <3>5. SlotsConserved'
        BY <3>1, <3>2 DEF IInv, SlotsConserved
      <3>6. inUse = slots
        <4>1. CASE ring = <<>>
          <5>1. \A d \in Callers : d \notin Queued
            BY <4>1, JobOfAssumption DEF IInv, QueuedOrGranted, In
          <5>2. Queued = {}
            BY <5>1 DEF Queued
          <5>3. waiting = 0
            BY <5>2, FS_EmptySet DEF IInv, QueuedOrGranted
          <5> QED BY <3>1, <5>3, SlotsPositive DEF MayTake, IInv, TypeOK
        <4> QED BY <3>1, <4>1 DEF IInv, NothingToGrant
      <3>7. NothingToGrant'
        BY <3>1, <3>6 DEF NothingToGrant, slots
      <3> QED BY <3>2, <3>3, <3>4, <3>5, <3>7 DEF IInv
    <2>5. CASE Release(c)
      <3>1. c \in Holders /\ Holders' = Holders \ {c} /\ Queued' = Queued /\ TokenForWaiter'
        BY <2>5 DEF Release, Holders, Queued, IInv, TypeOK, TokenForWaiter
      <3>2. /\ token' \in [Callers -> BOOLEAN] /\ ended' \in [Callers -> BOOLEAN]
            /\ pc' \in [Callers -> PC]
        BY <2>5 DEF Release, IInv, TypeOK, PC
      <3> QED BY <2>5, <3>1, <3>2, FreeKeeps DEF Release
    <2>6. CASE HandBack(c)
      <3>1. c \in Holders /\ Holders' = Holders \ {c} /\ Queued' = Queued /\ TokenForWaiter'
        BY <2>6 DEF HandBack, Holders, Queued, IInv, TypeOK, TokenForWaiter
      <3>2. /\ token' \in [Callers -> BOOLEAN] /\ ended' \in [Callers -> BOOLEAN]
            /\ pc' \in [Callers -> PC]
        BY <2>6 DEF HandBack, IInv, TypeOK, PC
      <3> QED BY <2>6, <3>1, <3>2, FreeKeeps DEF HandBack
    <2>7. CASE GiveUpGranted(c)
      <3>1. c \in Holders /\ Holders' = Holders \ {c} /\ Queued' = Queued /\ TokenForWaiter'
        BY <2>7 DEF GiveUpGranted, Holders, Queued, IInv, TypeOK, TokenForWaiter
      <3>2. /\ token' \in [Callers -> BOOLEAN] /\ ended' \in [Callers -> BOOLEAN]
            /\ pc' \in [Callers -> PC]
        BY <2>7 DEF GiveUpGranted, IInv, TypeOK, PC
      <3> QED BY <2>7, <3>1, <3>2, FreeKeeps DEF GiveUpGranted
    <2>8. CASE GiveUpQueued(c)
      <3>1. /\ DequeueLocked(c) /\ UNCHANGED <<mu, inUse, token>>
            /\ c \in Queued /\ Queued' = Queued \ {c} /\ Holders' = Holders
            /\ TokenForWaiter'
        BY <2>8 DEF GiveUpQueued, Holders, Queued, IInv, TypeOK, TokenForWaiter
      <3>2. /\ QueuedOrGranted'
            /\ ring' \in Seq(Jobs) /\ waiters' \in [Jobs -> Seq(Callers)]
            /\ waiting' \in Nat
            /\ ring = <<>> => ring' = <<>>
        BY <3>1, DequeueKeeps DEF IInv
      <3>3. TypeOK'
        BY <2>8, <3>1, <3>2 DEF GiveUpQueued, IInv, TypeOK, slots, PC
      <3>4. SlotsConserved' /\ NothingToGrant'
        BY <3>1, <3>2 DEF IInv, SlotsConserved, NothingToGrant, slots
      <3> QED BY <3>1, <3>2, <3>3, <3>4 DEF IInv
    <2> QED BY <1>4, <2>1, <2>2, <2>3, <2>4, <2>5, <2>6, <2>7, <2>8 DEF Step
  <1> QED BY <1>1, <1>2, <1>3, <1>4 DEF Next

-----------------------------------------------------------------------------
(* Theorems *)

\* The invariant holds in every state the scheduler reaches.
LEMMA Invariant == Spec => []IInv
  <1>1. Init => IInv
    BY InitIInv
  <1>2. IInv /\ [Next]_vars => IInv'
    BY NextIInv
  <1> QED BY <1>1, <1>2, PTL DEF Spec

\* The scheduler never grants more slots than its limit, whatever the callers
\* do: inUse stays in 0 .. slots, with the other types.
THEOREM TypeCorrect == Spec => []TypeOK
  <1>1. IInv => TypeOK
    BY DEF IInv
  <1> QED BY <1>1, Invariant, PTL

\* No grant is lost or counted twice, for any number of callers: a waiter whose
\* context ends as its grant arrives passes the slot on.
THEOREM NoSlotLost == Spec => []SlotsConserved
  <1>1. IInv => SlotsConserved
    BY DEF IInv
  <1> QED BY <1>1, Invariant, PTL

\* A waiting call is queued exactly once or has its grant, never in between.
THEOREM WaiterAccounted == Spec => []QueuedOrGranted
  <1>1. IInv => QueuedOrGranted
    BY DEF IInv
  <1> QED BY <1>1, Invariant, PTL

\* Outside the lock a call waits only while every slot is in use.
THEOREM SlotNeverIdle == Spec => []NoIdleSlot
  <1>1. IInv => NoIdleSlot
    <2> SUFFICES ASSUME IInv, mu = None, ring = <<>> PROVE waiting = 0
      BY DEF IInv, NothingToGrant, NoIdleSlot, TypeOK
    <2>1. \A d \in Callers : d \notin Queued
      BY JobOfAssumption DEF IInv, QueuedOrGranted, In
    <2>2. Queued = {}
      BY <2>1 DEF Queued
    <2> QED BY <2>2, FS_EmptySet DEF IInv, QueuedOrGranted
  <1> QED BY <1>1, Invariant, PTL

-----------------------------------------------------------------------------
(* The promise: what FairSlots has to be told of the history *)

\* While freeLocked has mu, its caller has let go of its slot, and at most that
\* one slot is waiting to be granted.
MuLoop == mu # None => /\ pc[mu] \in {"released", "idle"}
                       /\ ring = <<>> \/ inUse >= slots - 1

\* A job that does not wait has no history, and no waiting job has seen a job
\* served that stands before it in the ring.
Turns ==
    /\ passed \in [Jobs -> SUBSET Jobs]
    /\ \A j \in Jobs : waiters[j] = <<>> => passed[j] = {}
    /\ \A a, b \in DOMAIN ring : a < b => ring[a] \notin passed[ring[b]]

FairInv == IInv /\ MuLoop /\ Turns

\* What FairSlots calls holding.
Holding == Holders \union InTransit

\* Without leaves the rest of a sequence in its order, and is the slice the
\* abstract queue is left with.
LEMMA WithoutSlice ==
    ASSUME NEW S, NEW s \in Seq(S), NEW e, In(e, s)
    PROVE  /\ \E i \in DOMAIN s :
                Without(s, e) = SubSeq(s, 1, i - 1) \o SubSeq(s, i + 1, Len(s))
           /\ \A a, b \in DOMAIN Without(s, e) : a < b =>
                \E k, m \in DOMAIN s :
                    k < m /\ Without(s, e)[a] = s[k] /\ Without(s, e)[b] = s[m]
  <1> DEFINE at == CHOOSE i \in DOMAIN s : s[i] = e
             w == [i \in 1 .. Len(s) - 1 |-> IF i < at THEN s[i] ELSE s[i + 1]]
  <1>1. at \in 1 .. Len(s) /\ s[at] = e /\ Len(s) \in Nat /\ DOMAIN s = 1 .. Len(s)
    BY DEF In
  <1>2. Without(s, e) = w
    BY DEF Without
  <1> HIDE DEF at
  <1>3. w = SubSeq(s, 1, at - 1) \o SubSeq(s, at + 1, Len(s))
    <2> DEFINE p == SubSeq(s, 1, at - 1)
               q == SubSeq(s, at + 1, Len(s))
    <2>1. p \in Seq(S) /\ Len(p) = at - 1 /\ \A i \in 1 .. at - 1 : p[i] = s[i]
      BY <1>1, SubSeqProperties
    <2>2. /\ q \in Seq(S) /\ Len(q) = Len(s) - at
          /\ \A i \in 1 .. Len(s) - at : q[i] = s[at + i]
      <3>1. \A i \in at + 1 .. Len(s) : s[i] \in S
        BY <1>1
      <3>2. /\ q \in Seq(S)
            /\ Len(q) = IF at + 1 <= Len(s) THEN Len(s) - (at + 1) + 1 ELSE 0
            /\ \A i \in 1 .. Len(s) - (at + 1) + 1 : q[i] = s[at + 1 + i - 1]
        BY <1>1, <3>1, SubSeqProperties
      <3> HIDE DEF q
      <3>3. Len(q) = Len(s) - at
        <4>1. at \in Int /\ Len(s) \in Int /\ at <= Len(s)
          BY <1>1
        <4>2. CASE at + 1 <= Len(s)
          BY <3>2, <4>1, <4>2
        <4>3. CASE ~(at + 1 <= Len(s))
          BY <3>2, <4>1, <4>3
        <4> QED BY <4>2, <4>3
      <3>4. ASSUME NEW i \in 1 .. Len(s) - at PROVE q[i] = s[at + i]
        <4>1. i \in 1 .. Len(s) - (at + 1) + 1 /\ at + 1 + i - 1 = at + i
          BY <1>1
        <4> QED BY <3>2, <4>1
      <3> QED BY <3>2, <3>3, <3>4
    <2> HIDE DEF p, q
    <2>3. /\ p \o q \in Seq(S) /\ Len(p \o q) = Len(s) - 1
          /\ \A i \in 1 .. Len(s) - 1 :
                (p \o q)[i] = IF i < at THEN p[i] ELSE q[i - (at - 1)]
      <3>1. /\ p \o q \in Seq(S) /\ Len(p \o q) = Len(p) + Len(q)
            /\ \A i \in 1 .. Len(p) + Len(q) :
                  (p \o q)[i] = IF i <= Len(p) THEN p[i] ELSE q[i - Len(p)]
        BY <2>1, <2>2, ConcatProperties
      <3>2. Len(p) + Len(q) = Len(s) - 1 /\ \A i \in Int : i <= Len(p) <=> i < at
        BY <1>1, <2>1, <2>2
      <3> QED BY <2>1, <3>1, <3>2
    <2>4. w \in Seq(S) /\ Len(w) = Len(s) - 1
      BY <1>1
    <2>5. \A i \in 1 .. Len(s) - 1 : (p \o q)[i] = w[i]
      BY <1>1, <2>1, <2>2, <2>3
    <2> HIDE DEF w
    <2>6. w = p \o q
      BY <2>3, <2>4, <2>5, SeqEqual
    <2> QED BY <2>6 DEF p, q
  <1>4. ASSUME NEW a \in DOMAIN w, NEW b \in DOMAIN w, a < b
        PROVE  \E k, m \in DOMAIN s : k < m /\ w[a] = s[k] /\ w[b] = s[m]
    <2> DEFINE k == IF a < at THEN a ELSE a + 1
               m == IF b < at THEN b ELSE b + 1
    <2>1. k \in DOMAIN s /\ m \in DOMAIN s /\ k < m /\ w[a] = s[k] /\ w[b] = s[m]
      BY <1>1, <1>4
    <2> HIDE DEF k, m
    <2> QED BY <2>1
  <1> HIDE DEF w
  <1>5. \E i \in DOMAIN s : w = SubSeq(s, 1, i - 1) \o SubSeq(s, i + 1, Len(s))
    BY <1>1, <1>3
  <1> QED BY <1>2, <1>4, <1>5

\* With an empty ring nobody waits, and with nobody waiting no job has a queue.
LEMMA NobodyWaits ==
    ASSUME IInv, ring = <<>> \/ waiting = 0
    PROVE  waiting = 0 /\ \A j \in Jobs : waiters[j] = <<>>
  <1>1. CASE ring = <<>>
    <2>1. \A d \in Callers : d \notin Queued
      BY <1>1, JobOfAssumption DEF IInv, QueuedOrGranted, In
    <2>2. Queued = {}
      BY <2>1 DEF Queued
    <2> QED BY <1>1, <2>2, FS_EmptySet DEF IInv, QueuedOrGranted, In
  <1>2. CASE waiting = 0
    <2>1. Queued = {}
      BY <1>2, FiniteSets, FS_EmptySet DEF IInv, QueuedOrGranted
    <2>2. \A j \in Jobs : \A d \in Callers : ~In(d, waiters[j])
      BY <2>1 DEF IInv, QueuedOrGranted
    <2>3. ASSUME NEW j \in Jobs, waiters[j] # <<>> PROVE FALSE
      <3>1. waiters[j] \in Seq(Callers)
        BY DEF IInv, TypeOK
      <3>2. Head(waiters[j]) \in Callers /\ In(Head(waiters[j]), waiters[j])
        BY <2>3, <3>1, TailFacts DEF IInv, QueuedOrGranted
      <3> QED BY <2>2, <3>2
    <2> QED BY <1>2, <2>3
  <1> QED BY <1>1, <1>2

\* A caller that has to wait finds every slot in use.
LEMMA WaitsWhenFull ==
    ASSUME IInv, mu = None, ~MayTake
    PROVE  inUse = slots
  <1>1. CASE ring = <<>>
    BY <1>1, NobodyWaits, SlotsPositive DEF MayTake, IInv, TypeOK
  <1> QED BY <1>1 DEF IInv, NothingToGrant

\* A step in which no job is served keeps the history of the jobs that wait on.
LEMMA WatchNone ==
    ASSUME Turns, Watch({})
    PROVE  /\ passed' = [j \in Jobs |-> IF waiters'[j] = <<>> THEN {} ELSE passed[j]]
           /\ passed' \in [Jobs -> SUBSET Jobs]
           /\ \A j \in Jobs : waiters'[j] = <<>> => passed'[j] = {}
           /\ \A j \in Jobs : passed'[j] = IF waiters'[j] = <<>> THEN {} ELSE passed[j]
           /\ waiters' = waiters => passed' = passed
  <1>1. passed' = [j \in Jobs |-> IF waiters'[j] = <<>> THEN {} ELSE passed[j]]
    BY DEF Turns, Watch
  <1>2. \A j \in Jobs : passed'[j] = IF waiters'[j] = <<>> THEN {} ELSE passed[j]
    BY <1>1
  <1>3. passed' \in [Jobs -> SUBSET Jobs]
    BY <1>1 DEF Turns
  <1>4. waiters' = waiters => passed' = passed
    BY <1>2, <1>3 DEF Turns
  <1> QED BY <1>1, <1>2, <1>3, <1>4

\* The history stays true in a step that leaves the queues alone.
LEMMA TurnsKept ==
    ASSUME Turns, Watch({}), UNCHANGED <<ring, waiters>>
    PROVE  Turns' /\ passed' = passed
  BY WatchNone DEF Turns

\* A step that moves no slot and no waiting call is none of FairSlots.
LEMMA QuietStutters ==
    ASSUME FairInv, Watch({}), UNCHANGED <<ring, waiters>>, Holding' = Holding
    PROVE  Turns' /\ UNCHANGED Promise!vars
  BY TurnsKept DEF FairInv, Holding, Promise!vars

\* FairSlots counts with the same Cardinality.
LEMMA SameCardinality == \A S : Promise!Cardinality(S) = Cardinality(S)
  BY DEF Promise!Cardinality, Promise!IsFiniteSet, Cardinality, IsFiniteSet

\* A call takes a free slot: Take.
LEMMA TakeTakes ==
    ASSUME FairInv, Watch({}), NEW c \in Callers, AcquireFree(c) \/ TryAcquireIdle(c)
    PROVE  MuLoop' /\ Turns' /\ Promise!Next
  <1>1. /\ mu = None /\ inUse < slots /\ waiting = 0 /\ pc[c] = "idle"
        /\ pc' = [pc EXCEPT ![c] = "held"]
        /\ UNCHANGED <<mu, ring, waiters, token>>
    BY DEF AcquireFree, TryAcquireIdle, MayTake, Goto
  <1>2. c \notin Holders /\ Holders' = Holders \union {c}
    BY <1>1 DEF Holders, FairInv, IInv, TypeOK, TokenForWaiter
  <1>3. InTransit = {} /\ InTransit' = {}
    BY <1>1 DEF InTransit
  <1>4. MuLoop'
    BY <1>1 DEF MuLoop
  <1>5. Turns' /\ passed' = passed
    BY <1>1, TurnsKept DEF FairInv
  <1>6. Promise!Waiting = {}
    BY <1>1, NobodyWaits DEF FairInv, Promise!Waiting
  <1>7. Cardinality(Holders) < slots
    BY <1>1 DEF FairInv, IInv, SlotsConserved
  <1>8. /\ Holding = Holders
        /\ Holding' = Holders \union {c}
    BY <1>2, <1>3 DEF Holding
  <1>9. Promise!Take(c)
    BY <1>1, <1>2, <1>5, <1>6, <1>7, <1>8, SameCardinality
    DEF Promise!Take, Holding
  <1> QED BY <1>4, <1>5, <1>9 DEF Promise!Next

\* A call joins the queue of its job: Wait.
LEMMA WaitWaits ==
    ASSUME FairInv, Watch({}), NEW c \in Callers, AcquireWait(c)
    PROVE  MuLoop' /\ Turns' /\ Promise!Next
  <1> DEFINE job == JobOf[c]
  <1>1. /\ mu = None /\ pc[c] = "idle" /\ ~MayTake
        /\ pc' = [pc EXCEPT ![c] = "parked"]
        /\ waiters' = [waiters EXCEPT ![job] = Append(@, c)]
        /\ ring' = IF waiters[job] = <<>> THEN Append(ring, job) ELSE ring
        /\ UNCHANGED <<mu, inUse, token>>
    BY DEF AcquireWait, Enqueue, Goto
  <1>2. /\ job \in Jobs /\ waiters \in [Jobs -> Seq(Callers)] /\ ring \in Seq(Jobs)
    BY JobOfAssumption DEF FairInv, IInv, TypeOK
  <1> HIDE DEF job
  <1>3. /\ waiters'[job] # <<>>
        /\ \A j \in Jobs : j # job => waiters'[j] = waiters[j]
    <2>1. waiters[job] \in Seq(Callers)
      BY <1>2
    <2>2. Append(waiters[job], c) # <<>>
      BY <2>1, AppendFacts
    <2> QED BY <1>1, <1>2, <2>2
  <1>4. passed' = passed
    <2>1. ASSUME NEW j \in Jobs PROVE passed'[j] = passed[j]
      BY <1>3, WatchNone DEF FairInv, Turns
    <2>2. passed \in [Jobs -> SUBSET Jobs] /\ passed' \in [Jobs -> SUBSET Jobs]
      BY WatchNone DEF FairInv, Turns
    <2> QED BY <2>1, <2>2
  <1>5. Turns'
    <2>1. ASSUME NEW a \in DOMAIN ring', NEW b \in DOMAIN ring', a < b
          PROVE  ring'[a] \notin passed[ring'[b]]
      <3>1. CASE waiters[job] # <<>>
        BY <1>1, <2>1, <3>1 DEF FairInv, Turns
      <3>2. CASE waiters[job] = <<>>
        <4>1. passed[job] = {}
          BY <1>2, <3>2 DEF FairInv, Turns
        <4>2. /\ DOMAIN ring = 1 .. Len(ring) /\ Len(ring) \in Nat
              /\ DOMAIN ring' = 1 .. Len(ring) + 1
              /\ ring'[Len(ring) + 1] = job
              /\ \A i \in 1 .. Len(ring) : ring'[i] = ring[i]
          BY <1>1, <1>2, <3>2
        <4>3. CASE b = Len(ring) + 1
          BY <4>1, <4>2, <4>3
        <4>4. CASE b \in 1 .. Len(ring)
          <5>1. a \in 1 .. Len(ring)
            BY <2>1, <4>2, <4>4
          <5> QED BY <2>1, <4>2, <4>4, <5>1 DEF FairInv, Turns
        <4> QED BY <2>1, <4>2, <4>3, <4>4
      <3> QED BY <3>1, <3>2
    <2>2. \A j \in Jobs : waiters'[j] = <<>> => passed[j] = {}
      BY <1>2, <1>3 DEF FairInv, Turns
    <2> QED BY <1>4, <2>1, <2>2 DEF FairInv, Turns
  <1>6. MuLoop'
    BY <1>1 DEF MuLoop
  <1>7. c \notin Holders /\ Holders' = Holders
    BY <1>1 DEF Holders, FairInv, IInv, TypeOK, TokenForWaiter
  <1>8. InTransit = {} /\ InTransit' = {}
    BY <1>1 DEF InTransit
  <1>9. Cardinality(Holders) = slots
    BY <1>1, WaitsWhenFull DEF FairInv, IInv, SlotsConserved
  <1>10. Holding = Holders /\ Holding' = Holders
    BY <1>7, <1>8 DEF Holding
  <1>11. Promise!Wait(c)
    BY <1>1, <1>4, <1>7, <1>9, <1>10, SameCardinality
    DEF Promise!Wait, Holding, job
  <1> QED BY <1>5, <1>6, <1>11 DEF Promise!Next

\* A call lets go of its slot.  With nobody waiting it is free: Free.  With a
\* job waiting every slot was in use, and this one is on its way.
LEMMA FreeFrees ==
    ASSUME FairInv, Watch({}), NEW c \in Callers,
           Release(c) \/ HandBack(c) \/ GiveUpGranted(c)
    PROVE  MuLoop' /\ Turns' /\ [Promise!Next]_(Promise!vars)
  <1>1. /\ mu = None /\ FreeLocked(c)
        /\ UNCHANGED <<ring, waiters, waiting>>
    BY DEF Release, HandBack, GiveUpGranted
  <1>2. pc'[c] \in {"released", "idle"}
    BY DEF Release, HandBack, GiveUpGranted, Goto, Return, FairInv, IInv, TypeOK
  <1>3. c \in Holders /\ Holders' = Holders \ {c}
    <2>1. CASE Release(c)
      BY <2>1 DEF Release, Goto, Holders, FairInv, IInv, TypeOK, TokenForWaiter
    <2>2. CASE HandBack(c)
      BY <2>2 DEF HandBack, Return, Goto, Holders, FairInv, IInv, TypeOK, TokenForWaiter
    <2>3. CASE GiveUpGranted(c)
      BY <2>3 DEF GiveUpGranted, Return, Goto, Holders, FairInv, IInv, TypeOK, TokenForWaiter
    <2> QED BY <2>1, <2>2, <2>3
  <1>4. inUse' = inUse - 1
    BY <1>1, <1>3, HoldersShrink DEF FairInv, IInv
  <1>5. mu' = c /\ c # None
    BY <1>1, CallersAssumption DEF FreeLocked
  <1>6. inUse \in Nat /\ (ring = <<>> \/ inUse = slots)
    BY <1>1, SlotsPositive DEF FairInv, IInv, NothingToGrant, TypeOK
  <1>7. MuLoop'
    BY <1>1, <1>2, <1>4, <1>5, <1>6, SlotsPositive DEF MuLoop, slots
  <1>8. Turns' /\ passed' = passed
    BY <1>1, TurnsKept DEF FairInv
  <1>9. InTransit = {}
    BY <1>1 DEF InTransit
  <1>10. CASE ring = <<>>
    <2>1. InTransit' = {}
      BY <1>1, <1>10 DEF InTransit, MoreToGrant
    <2>2. Holding = Holders /\ Holding' = Holders \ {c}
      BY <1>3, <1>9, <2>1 DEF Holding
    <2>3. Promise!Waiting = {}
      BY <1>10, NobodyWaits DEF FairInv, Promise!Waiting
    <2>4. Promise!Free(c)
      BY <1>1, <1>3, <1>8, <2>2, <2>3 DEF Promise!Free, Holding
    <2> QED BY <1>7, <1>8, <2>4 DEF Promise!Next
  <1>11. CASE ring # <<>>
    <2>1. inUse' < slots
      BY <1>4, <1>6, <1>11, SlotsPositive
    <2>2. InTransit' = {c}
      BY <1>1, <1>5, <1>11, <2>1 DEF InTransit, MoreToGrant, slots
    <2>3. Holding' = Holding
      BY <1>3, <1>9, <2>2 DEF Holding
    <2> QED BY <1>1, <1>7, <2>3, QuietStutters
  <1> QED BY <1>10, <1>11

\* The loop of grantLocked hands the freed slot to the first caller of the job
\* whose turn it is: PassOn.
LEMMA GrantPassesOn ==
    ASSUME FairInv, GrantLocked, Watch({Head(ring)})
    PROVE  MuLoop' /\ Turns' /\ Promise!Next
  <1> DEFINE job == Head(ring)
             w == Head(waiters[job])
             q == Tail(waiters[job])
  <1>1. /\ mu # None /\ inUse < slots /\ ring # <<>>
        /\ token' = [token EXCEPT ![w] = TRUE]
        /\ inUse' = inUse + 1
        /\ waiters' = [waiters EXCEPT ![job] = q]
        /\ ring' = IF q = <<>> THEN Tail(ring) ELSE Append(Tail(ring), job)
        /\ UNCHANGED <<mu, pc>>
    BY DEF GrantLocked, MoreToGrant, GrantOne
  <1>2. /\ waiters \in [Jobs -> Seq(Callers)] /\ ring \in Seq(Jobs)
        /\ token \in [Callers -> BOOLEAN] /\ inUse \in Nat /\ mu \in Callers
    BY <1>1, SlotsPositive DEF FairInv, IInv, TypeOK
  <1>3. job \in Jobs /\ In(job, ring) /\ job = ring[1]
    BY <1>1, <1>2, TailFacts, HeadTailProperties DEF FairInv, IInv, QueuedOrGranted
  <1>4. waiters[job] # <<>> /\ waiters[job] \in Seq(Callers)
    BY <1>2, <1>3 DEF FairInv, IInv, QueuedOrGranted
  <1>5. w \in Callers
    BY <1>4, TailFacts DEF FairInv, IInv, QueuedOrGranted
  <1>6. passed' = [j \in Jobs |-> IF waiters[j] = <<>> \/ waiters'[j] = <<>> \/ j = job
                                  THEN {} ELSE passed[j] \union {job}]
    BY DEF Watch
  <1> HIDE DEF job, w, q
  <1>7. \A j \in Jobs : j # job => waiters'[j] = waiters[j]
    BY <1>1, <1>2
  <1>8. /\ passed' \in [Jobs -> SUBSET Jobs]
        /\ passed'[job] = {}
        /\ \A j \in Jobs : waiters[j] = <<>> => passed'[j] = {}
        /\ \A j \in Jobs : waiters'[j] = <<>> => passed'[j] = {}
        /\ \A j \in Jobs : j # job /\ waiters[j] # <<>> =>
              passed'[j] = passed[j] \union {job}
    BY <1>3, <1>6, <1>7 DEF FairInv, Turns
  <1>9. /\ DOMAIN ring = 1 .. Len(ring) /\ Len(ring) \in Nat \ {0}
        /\ \A i \in 1 .. Len(ring) : ring[i] \in Jobs
        /\ \A i \in 2 .. Len(ring) : ring[i] # job
    BY <1>1, <1>2, <1>3, EmptySeq, LenProperties DEF FairInv, IInv, QueuedOrGranted, NoRepeats
  <1>10. ASSUME NEW a \in DOMAIN ring', NEW b \in DOMAIN ring', a < b
         PROVE  ring'[a] \notin passed'[ring'[b]]
    <2>1. /\ Tail(ring) \in Seq(Jobs) /\ Len(Tail(ring)) = Len(ring) - 1
          /\ DOMAIN Tail(ring) = 1 .. Len(ring) - 1
          /\ \A i \in 1 .. Len(ring) - 1 : Tail(ring)[i] = ring[i + 1]
      BY <1>1, <1>2, HeadTailProperties, LenProperties
    <2>2. CASE a < Len(ring) /\ b < Len(ring)
      <3>1. a \in 1 .. Len(ring) - 1 /\ b \in 1 .. Len(ring) - 1
        <4>1. CASE q = <<>>
          BY <1>1, <2>1, <4>1
        <4>2. CASE q # <<>>
          <5>1. DOMAIN ring' = 1 .. Len(ring)
            BY <1>1, <1>3, <1>9, <2>1, <4>2, AppendProperties, LenProperties
          <5> QED BY <1>9, <2>2, <5>1
        <4> QED BY <4>1, <4>2
      <3>2. ring'[a] = ring[a + 1] /\ ring'[b] = ring[b + 1]
        <4>1. CASE q = <<>>
          BY <1>1, <2>1, <3>1, <4>1
        <4>2. CASE q # <<>>
          BY <1>1, <1>3, <2>1, <3>1, <4>2, AppendProperties
        <4> QED BY <4>1, <4>2
      <3>3. /\ a + 1 \in 2 .. Len(ring) /\ b + 1 \in 2 .. Len(ring) /\ a + 1 < b + 1
            /\ a + 1 \in DOMAIN ring /\ b + 1 \in DOMAIN ring
        BY <1>9, <2>2, <3>1, <1>10
      <3>4. /\ ring[a + 1] # job /\ ring[b + 1] # job /\ ring[b + 1] \in Jobs
            /\ ring[a + 1] \notin passed[ring[b + 1]]
        BY <1>9, <3>3 DEF FairInv, Turns
      <3>5. passed'[ring[b + 1]] \in {{}, passed[ring[b + 1]] \union {job}}
        BY <1>8, <3>4
      <3> QED BY <3>2, <3>4, <3>5
    <2>3. CASE ~(a < Len(ring) /\ b < Len(ring))
      <3>1. q # <<>>
        BY <1>1, <1>9, <1>10, <2>1, <2>3
      <3>2. DOMAIN ring' = 1 .. Len(ring) /\ ring'[Len(ring)] = job
        BY <1>1, <1>3, <1>9, <2>1, <3>1, AppendProperties, LenProperties
      <3>3. b = Len(ring)
        BY <1>9, <1>10, <2>3, <3>2
      <3> QED BY <1>8, <3>2, <3>3
    <2> QED BY <2>2, <2>3
  <1>11. Turns'
    BY <1>8, <1>10 DEF Turns
  <1>12. inUse' = slots
    BY <1>1, <1>2, SlotsPositive DEF FairInv, MuLoop
  <1>13. MuLoop'
    BY <1>1, <1>2, <1>12, SlotsPositive DEF FairInv, MuLoop, slots
  <1>14. InTransit = {mu} /\ InTransit' = {}
    <2>1. InTransit = {mu}
      BY <1>1 DEF InTransit, MoreToGrant
    <2>2. ~(inUse' < slots)
      BY <1>12, SlotsPositive
    <2>3. InTransit' = {}
      BY <2>2 DEF InTransit, MoreToGrant, slots
    <2> QED BY <2>1, <2>3
  <1>15. mu \notin Holders /\ Holders' = Holders \union {w}
    BY <1>1, <1>2, <1>5 DEF FairInv, IInv, MuLoop, TokenForWaiter, Holders
  <1>16. /\ Holding = Holders \union {mu}
         /\ Holding' = (Holding \ {mu}) \union {w}
    BY <1>14, <1>15 DEF Holding
  <1>17. ASSUME NEW k \in Promise!Waiting \ {job} PROVE job \notin passed[k]
    <2>1. k \in Jobs /\ In(k, ring) /\ k # job
      BY <1>17 DEF Promise!Waiting, FairInv, IInv, QueuedOrGranted
    <2>2. PICK b \in DOMAIN ring : ring[b] = k
      BY <2>1 DEF In
    <2>3. 1 \in DOMAIN ring /\ 1 < b
      BY <1>3, <1>9, <2>1, <2>2
    <2> QED BY <1>3, <2>2, <2>3 DEF FairInv, Turns
  <1>18. passed' = [k \in Jobs |-> IF k \in Promise!Waiting \ {job}
                                   THEN passed[k] \union {job} ELSE {}]
    BY <1>6, <1>7 DEF Promise!Waiting
  <1>19. job \in Promise!Waiting /\ mu \in Holding
    BY <1>3, <1>4, <1>16 DEF Promise!Waiting
  <1>20. Promise!PassOn(mu, job)
    BY <1>1, <1>16, <1>17, <1>18, <1>19 DEF Promise!PassOn, Holding, w, q
  <1> QED BY <1>2, <1>3, <1>11, <1>13, <1>20 DEF Promise!Next

\* A waiter that gives up leaves the queue of its job: GiveUp.
LEMMA GiveUpGivesUp ==
    ASSUME FairInv, Watch({}), NEW c \in Callers, GiveUpQueued(c)
    PROVE  MuLoop' /\ Turns' /\ Promise!Next
  <1> DEFINE job == JobOf[c]
             q == Without(waiters[job], c)
  <1>1. /\ mu = None /\ pc[c] = "giveup" /\ ~token[c]
        /\ pc' = [pc EXCEPT ![c] = "idle"]
        /\ waiters' = [waiters EXCEPT ![job] = q]
        /\ ring' = IF Len(waiters[job]) = 1 THEN Without(ring, job) ELSE ring
        /\ UNCHANGED <<mu, inUse, token>>
    BY DEF GiveUpQueued, DequeueLocked, Return, Goto
  <1>2. /\ job \in Jobs /\ waiters \in [Jobs -> Seq(Callers)] /\ ring \in Seq(Jobs)
        /\ waiters[job] \in Seq(Callers)
    BY JobOfAssumption DEF FairInv, IInv, TypeOK
  <1>3. In(c, waiters[job]) /\ NoRepeats(waiters[job])
    BY <1>1, <1>2 DEF FairInv, IInv, QueuedOrGranted, Queued
  <1>4. waiters[job] # <<>> /\ In(job, ring) /\ NoRepeats(ring)
    BY <1>2, <1>3 DEF In, FairInv, IInv, QueuedOrGranted
  <1>5. q = <<>> <=> Len(waiters[job]) = 1
    BY <1>2, <1>3, WithoutFacts
  <1>6. PICK i \in DOMAIN waiters[job] :
           q = SubSeq(waiters[job], 1, i - 1)
               \o SubSeq(waiters[job], i + 1, Len(waiters[job]))
    BY <1>2, <1>3, WithoutSlice
  <1>7. \A a, b \in DOMAIN Without(ring, job) : a < b =>
           \E k, m \in DOMAIN ring :
              k < m /\ Without(ring, job)[a] = ring[k] /\ Without(ring, job)[b] = ring[m]
    BY <1>2, <1>4, WithoutSlice
  <1> HIDE DEF job, q
  <1>8. waiters'[job] = q /\ \A j \in Jobs : j # job => waiters'[j] = waiters[j]
    BY <1>1, <1>2
  <1>9. \A j \in Jobs : passed'[j] = IF waiters'[j] = <<>> THEN {} ELSE passed[j]
    BY WatchNone DEF FairInv
  <1>10. passed' = IF Len(waiters[job]) = 1 THEN [passed EXCEPT ![job] = {}] ELSE passed
    <2>1. passed \in [Jobs -> SUBSET Jobs] /\ passed' \in [Jobs -> SUBSET Jobs]
      BY WatchNone DEF FairInv, Turns
    <2>2. \A j \in Jobs : j # job => passed'[j] = passed[j]
      BY <1>8, <1>9 DEF FairInv, Turns
    <2>3. passed'[job] = IF Len(waiters[job]) = 1 THEN {} ELSE passed[job]
      BY <1>2, <1>5, <1>8, <1>9
    <2>4. CASE Len(waiters[job]) = 1
      BY <1>2, <2>1, <2>2, <2>3, <2>4
    <2>5. CASE Len(waiters[job]) # 1
      BY <1>2, <2>1, <2>2, <2>3, <2>5
    <2> QED BY <2>4, <2>5
  <1>11. Turns'
    <2>1. \A a, b \in DOMAIN ring' : a < b =>
             \E k, m \in DOMAIN ring : k < m /\ ring'[a] = ring[k] /\ ring'[b] = ring[m]
      BY <1>1, <1>7
    <2>2. ASSUME NEW a \in DOMAIN ring', NEW b \in DOMAIN ring', a < b
          PROVE  ring'[a] \notin passed'[ring'[b]]
      <3>1. PICK k \in DOMAIN ring, m \in DOMAIN ring :
               k < m /\ ring'[a] = ring[k] /\ ring'[b] = ring[m]
        BY <2>1, <2>2
      <3>2. ring[k] \notin passed[ring[m]] /\ ring[m] \in Jobs
        BY <1>2, <3>1 DEF FairInv, Turns
      <3> QED BY <1>9, <3>1, <3>2
    <2> QED BY <2>2, WatchNone DEF FairInv, Turns
  <1>12. MuLoop'
    BY <1>1 DEF MuLoop
  <1>13. Holders' = Holders
    BY <1>1 DEF Holders, FairInv, IInv, TypeOK
  <1>14. InTransit = {} /\ InTransit' = {}
    BY <1>1 DEF InTransit
  <1>15. Holding' = Holding
    BY <1>13, <1>14 DEF Holding
  <1>16. Promise!GiveUp(job, i)
    BY <1>1, <1>6, <1>10, <1>15 DEF Promise!GiveUp, Holding
  <1> QED BY <1>2, <1>6, <1>11, <1>12, <1>16 DEF Promise!Next

\* Every step of the scheduler is one of FairSlots or moves no slot and no
\* waiting call, and keeps what the argument needs.
LEMMA FairStep ==
    ASSUME FairInv, [FairNext]_fairVars
    PROVE  FairInv' /\ [Promise!Next]_(Promise!vars)
  <1>1. IInv'
    BY NextIInv DEF FairInv, FairNext, fairVars, Next
  <1>2. CASE UNCHANGED fairVars
    <2>1. MuLoop' /\ Turns'
      BY <1>2 DEF FairInv, MuLoop, Turns, fairVars, vars, slots
    <2>2. Holders' = Holders /\ InTransit' = InTransit
      BY <1>2 DEF Holders, InTransit, MoreToGrant, fairVars, vars, slots
    <2>3. UNCHANGED Promise!vars
      BY <1>2, <2>2 DEF Promise!vars, fairVars, vars
    <2> QED BY <1>1, <2>1, <2>3 DEF FairInv
  <1>3. CASE GrantLocked /\ Watch({Head(ring)})
    BY <1>1, <1>3, GrantPassesOn DEF FairInv
  <1>4. CASE Unlock /\ Watch({})
    <2>1. Holders' = Holders /\ InTransit = {} /\ InTransit' = {} /\ MuLoop'
      BY <1>4 DEF Unlock, Holders, InTransit, MuLoop
    <2>2. Holding' = Holding
      BY <2>1 DEF Holding
    <2>3. Turns' /\ UNCHANGED Promise!vars
      BY <1>4, <2>2, QuietStutters DEF Unlock
    <2> QED BY <1>1, <2>1, <2>3 DEF FairInv
  <1>5. ASSUME NEW c \in Callers, Step(c), Watch({})
        PROVE  MuLoop' /\ Turns' /\ [Promise!Next]_(Promise!vars)
    <2>1. CASE AcquireFree(c) \/ TryAcquireIdle(c)
      BY <1>5, <2>1, TakeTakes
    <2>2. CASE AcquireWait(c)
      BY <1>5, <2>2, WaitWaits
    <2>3. CASE Release(c) \/ HandBack(c) \/ GiveUpGranted(c)
      BY <1>5, <2>3, FreeFrees
    <2>4. CASE GiveUpQueued(c)
      BY <1>5, <2>4, GiveUpGivesUp
    <2>5. CASE AcquireEnded(c) \/ TakeToken(c) \/ SeeDone(c) \/ ReleaseAgain(c) \/ EndContext(c)
      <3>1. UNCHANGED <<mu, inUse, ring, waiters>>
        BY <2>5 DEF AcquireEnded, TakeToken, SeeDone, ReleaseAgain, EndContext
      <3>2. Holders' = Holders
        BY <2>5 DEF AcquireEnded, TakeToken, SeeDone, ReleaseAgain, EndContext, Return,
                    Goto, Holders, FairInv, IInv, TypeOK, TokenForWaiter
      <3>3. mu # None => pc'[mu] \in {"released", "idle"}
        BY <2>5 DEF AcquireEnded, TakeToken, SeeDone, ReleaseAgain, EndContext, Return,
                    Goto, FairInv, IInv, TypeOK, MuLoop
      <3>4. MuLoop'
        BY <3>1, <3>3 DEF FairInv, MuLoop, slots
      <3>5. Holding' = Holding
        BY <3>1, <3>2 DEF Holding, InTransit, MoreToGrant, slots
      <3> QED BY <1>5, <3>1, <3>4, <3>5, QuietStutters
    <2> QED BY <1>5, <2>1, <2>2, <2>3, <2>4, <2>5 DEF Step
  <1> QED BY <1>1, <1>2, <1>3, <1>4, <1>5 DEF FairNext, FairInv

\* The scheduler keeps the promise of its package comment, for any number of
\* callers, jobs and slots: the call that frees a slot hands it to the oldest
\* call of the job whose turn it is, no job is served twice while another one
\* waits, and new calls and hedges get a slot only when nobody waits.
THEOREM FairTurns == SpecWithHistory => PromiseKept
  <1>1. FairInit => FairInv /\ Promise!Init
    <2> SUFFICES ASSUME FairInit PROVE FairInv /\ Promise!Init
      OBVIOUS
    <2>1. IInv
      BY InitIInv DEF FairInit
    <2>2. MuLoop /\ Turns
      BY DEF FairInit, Init, MuLoop, Turns
    <2>3. Holders = {} /\ InTransit = {}
      BY DEF FairInit, Init, Holders, InTransit
    <2>4. Promise!Init
      BY <2>3 DEF Promise!Init, FairInit, Init
    <2> QED BY <2>1, <2>2, <2>4 DEF FairInv
  <1>2. FairInv /\ [FairNext]_fairVars => FairInv' /\ [Promise!Next]_(Promise!vars)
    BY FairStep
  <1> QED BY <1>1, <1>2, PTL DEF SpecWithHistory, PromiseKept, Promise!Spec
=============================================================================
