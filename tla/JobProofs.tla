------------------------------- MODULE JobProofs -------------------------------
(***************************************************************************)
(* JobLifecycle for any number of operations, workers and synchronous      *)
(* requests, any queue, and any number of crashes and failing steps.       *)
(***************************************************************************)
EXTENDS JobLifecycle, SequenceTheorems, FiniteSetTheorems, TLAPS

RowType == [status : Statuses, attempts : Nat, leased : BOOLEAN]
WorkerType ==
    [at : {"idle", "get", "mark", "run", "write", "succeed", "fail", "clean", "discard"},
     id : Ids \union {Nobody}, sawInput : BOOLEAN, released : BOOLEAN]
RecoverType ==
    [at : {"idle", "scan", "next", "get", "check", "fail", "clean", "discard", "claim", "requeue"},
     todo : SUBSET Ids, id : Ids \union {Nobody}, attempts : Nat, claimed : SUBSET Ids]
SweepType ==
    [at : {"idle", "expire", "expireBlobs", "orphans", "reclaim", "evict", "evictBlobs"},
     todo : SUBSET Ids, id : Ids \union {Nobody}, first : BOOLEAN]

-----------------------------------------------------------------------------
(* The invariant *)

StoreTyped ==
    /\ row \in [Ids -> RowType]
    /\ {input, result, aged, expired, purging} \subseteq SUBSET Ids
ManagerTyped ==
    /\ {claims, feeding} \subseteq SUBSET Ids
    /\ queue \in Seq(Ids) /\ Len(queue) <= Capacity
    /\ admits \in Int /\ admits <= Capacity /\ syncs \in 0 .. MaxSyncs
FrontTyped ==
    /\ up \in {"down", "booting", "serving"}
    /\ submit \in [Ids -> {"new", "admitted", "stored", "created", "acked", "refused"}]
    /\ crashes \in 0 .. MaxCrashes /\ faults \in 0 .. MaxFaults

\* A worker that is not idle has a job; only a panic releases its slot early.
WorkerFits(x) ==
    /\ x \in WorkerType
    /\ x.at # "idle" => x.id \in Ids
    /\ x.released => x.at \in {"fail", "clean", "discard"}
WorkersTyped == worker \in [Workers -> WorkerType] /\ \A w \in Workers : WorkerFits(worker[w])

\* A pass of recover between its scan and its end looks at a job.
AtJob == {"get", "check", "fail", "clean", "discard", "claim", "requeue"}
RecoverFits(x) == x \in RecoverType /\ (x.at \in AtJob => x.id \in Ids)
RecoverTyped ==
    /\ recover \in [{"boot", "sweep"} -> RecoverType]
    /\ RecoverFits(recover["boot"]) /\ RecoverFits(recover["sweep"])
Typed == StoreTyped /\ ManagerTyped /\ FrontTyped /\ WorkersTyped /\ RecoverTyped /\ sweep \in SweepType

\* A submit past its answer, and the jobs a pass knows of.
Answered(id) == submit[id] \in {"acked", "refused"}
Seen(x) == x.todo \union x.claimed \union (IF x.at \in AtJob THEN {x.id} ELSE {})
Old ==
    /\ \A id \in Ids : HasRow(id) => submit[id] \in {"created", "acked", "refused"}
    /\ up # "serving" => \A id \in Ids : submit[id] \in {"new", "acked", "refused"}
    /\ recover["boot"].at # "idle" => up = "booting"

\* The slots whose holders are known.  None is given back twice.
UnderWay == {"admitted", "stored", "created"}
SubmitsOf(f) == {id \in Ids : f[id] \in UnderWay}
HoldingOf(f) == {w \in Workers : f[w].at # "idle" /\ ~f[w].released}
Held == Cardinality(SubmitsOf(submit)) + syncs + Len(queue) + Cardinality(HoldingOf(worker))
Accounted == admits >= Held

IInv == Typed /\ Old /\ Accounted

\* None is lost either, but by a submit whose id was claimed before it is enqueued.
Exact == admits = Held
Overtaken == \E id \in Ids : submit[id] = "created" /\ id \in claims
Balanced == Accounted' /\ (Exact /\ ~Overtaken => Exact')
Steady == IInv' /\ (Exact /\ ~Overtaken => Exact')

-----------------------------------------------------------------------------
(* Counting *)

LEMMA CapacityTyped == Capacity \in Nat \ {0}
  <1>1. Cardinality(Workers) \in Nat \ {0}
    BY WorkersAssumption, FS_CardinalityType, FS_EmptySet
  <1> QED BY <1>1, BoundsAssumption DEF Capacity

LEMMA CountsTyped ==
    ASSUME NEW f
    PROVE  /\ IsFiniteSet(SubmitsOf(f)) /\ Cardinality(SubmitsOf(f)) \in Nat
           /\ IsFiniteSet(HoldingOf(f)) /\ Cardinality(HoldingOf(f)) \in Nat
  <1>1. SubmitsOf(f) \in SUBSET Ids /\ HoldingOf(f) \in SUBSET Workers
    BY DEF SubmitsOf, HoldingOf
  <1>2. IsFiniteSet(SubmitsOf(f)) /\ IsFiniteSet(HoldingOf(f))
    BY <1>1, IdsAssumption, WorkersAssumption, FS_Subset
  <1> QED BY <1>2, FS_CardinalityType

\* One submit goes on: its slot is taken, kept or given back.
LEMMA SubmitMore ==
    ASSUME NEW f, DOMAIN f = Ids, NEW id \in Ids, NEW step, step \in UnderWay, f[id] \notin UnderWay
    PROVE  Cardinality(SubmitsOf([f EXCEPT ![id] = step])) = Cardinality(SubmitsOf(f)) + 1
  <1>1. SubmitsOf([f EXCEPT ![id] = step]) = SubmitsOf(f) \union {id} /\ id \notin SubmitsOf(f)
    BY DEF SubmitsOf
  <1> QED BY <1>1, CountsTyped, FS_AddElement

LEMMA SubmitLess ==
    ASSUME NEW f, DOMAIN f = Ids, NEW id \in Ids, NEW step, step \notin UnderWay, f[id] \in UnderWay
    PROVE  Cardinality(SubmitsOf([f EXCEPT ![id] = step])) = Cardinality(SubmitsOf(f)) - 1
  <1>1. SubmitsOf([f EXCEPT ![id] = step]) = SubmitsOf(f) \ {id} /\ id \in SubmitsOf(f)
    BY DEF SubmitsOf
  <1> QED BY <1>1, CountsTyped, FS_RemoveElement

LEMMA SubmitSame ==
    ASSUME NEW f, DOMAIN f = Ids, NEW id \in Ids, NEW step, step \in UnderWay <=> f[id] \in UnderWay
    PROVE  SubmitsOf([f EXCEPT ![id] = step]) = SubmitsOf(f)
  BY DEF SubmitsOf

\* One worker goes on: it holds a slot after it as before, begins to, or ceases to.
LEMMA HoldingSame ==
    ASSUME NEW f, DOMAIN f = Workers, NEW w \in Workers, NEW y,
           y.at = "idle" <=> f[w].at = "idle", y.released <=> f[w].released
    PROVE  HoldingOf([f EXCEPT ![w] = y]) = HoldingOf(f)
  BY DEF HoldingOf

LEMMA HoldingMore ==
    ASSUME NEW f, DOMAIN f = Workers, NEW w \in Workers, NEW y,
           f[w].at = "idle", y.at # "idle", ~y.released
    PROVE  Cardinality(HoldingOf([f EXCEPT ![w] = y])) = Cardinality(HoldingOf(f)) + 1
  <1>1. HoldingOf([f EXCEPT ![w] = y]) = HoldingOf(f) \union {w} /\ w \notin HoldingOf(f)
    BY DEF HoldingOf
  <1> QED BY <1>1, CountsTyped, FS_AddElement

LEMMA HoldingLess ==
    ASSUME NEW f, DOMAIN f = Workers, NEW w \in Workers, NEW y,
           f[w].at # "idle", ~f[w].released, y.at = "idle" \/ y.released
    PROVE  Cardinality(HoldingOf([f EXCEPT ![w] = y])) = Cardinality(HoldingOf(f)) - 1
  <1>1. HoldingOf([f EXCEPT ![w] = y]) = HoldingOf(f) \ {w} /\ w \in HoldingOf(f)
    BY DEF HoldingOf
  <1> QED BY <1>1, CountsTyped, FS_RemoveElement

\* A released worker that ends held nothing.
LEMMA HoldingGone ==
    ASSUME NEW f, DOMAIN f = Workers, NEW w \in Workers, NEW y, f[w].released, y.at = "idle"
    PROVE  HoldingOf([f EXCEPT ![w] = y]) = HoldingOf(f)
  BY DEF HoldingOf

LEMMA NothingHeld ==
    ASSUME NEW f, NEW g, \A id \in Ids : f[id] \notin UnderWay,
           \A w \in Workers : g[w].at = "idle"
    PROVE  Cardinality(SubmitsOf(f)) = 0 /\ Cardinality(HoldingOf(g)) = 0
  <1>1. SubmitsOf(f) = {} /\ HoldingOf(g) = {}
    BY DEF SubmitsOf, HoldingOf
  <1> QED BY <1>1, FS_EmptySet

-----------------------------------------------------------------------------
(* Records *)

LEMMA RestingTyped ==
    /\ WorkerFits(Idle) /\ Idle.at = "idle" /\ ~Idle.released
    /\ RecoverFits(Resting) /\ Resting.at = "idle" /\ Resting.todo = {} /\ Resting.claimed = {}
    /\ Asleep \in SweepType /\ [Asleep EXCEPT !.first = TRUE] \in SweepType
    /\ NoRow \in RowType
  <1>1. /\ WorkerFits(Idle) /\ Idle.at = "idle" /\ ~Idle.released
    BY DEF Idle, WorkerFits, WorkerType
  <1>2. RecoverFits(Resting) /\ Resting.at = "idle" /\ Resting.todo = {} /\ Resting.claimed = {}
    BY DEF Resting, RecoverFits, RecoverType, AtJob
  <1>3. Asleep \in SweepType
    BY DEF Asleep, SweepType
  <1>4. [Asleep EXCEPT !.first = TRUE] \in SweepType
    BY <1>3 DEF SweepType
  <1>5. NoRow \in RowType
    BY DEF NoRow, RowType, Statuses
  <1> QED BY <1>1, <1>2, <1>3, <1>4, <1>5

LEMMA InitInv == Init => IInv
  <1> SUFFICES ASSUME Init PROVE IInv
    OBVIOUS
  <1>1. Typed
    <2>1. StoreTyped
      BY RestingTyped DEF Init, StoreTyped
    <2>2. ManagerTyped
      <3>1. queue = <<>> /\ <<>> \in Seq(Ids) /\ Len(<<>>) = 0
        BY DEF Init
      <3> QED BY <3>1, CapacityTyped, BoundsAssumption DEF Init, ManagerTyped
    <2>3. FrontTyped
      BY BoundsAssumption DEF Init, FrontTyped
    <2>4. WorkersTyped
      BY RestingTyped DEF Init, WorkersTyped, WorkerFits
    <2>5. RecoverTyped
      BY RestingTyped DEF Init, RecoverTyped, RecoverFits
    <2> QED BY <2>1, <2>2, <2>3, <2>4, <2>5, RestingTyped DEF Init, Typed
  <1>2. Old
    <2>1. recover["boot"] = Resting /\ recover["sweep"] = Resting
      BY DEF Init
    <2>2. Seen(Resting) = {}
      BY RestingTyped DEF Seen, AtJob
    <2> QED BY <2>1, <2>2, RestingTyped DEF Init, Old, HasRow
  <1>3. Accounted
    <2>1. Cardinality(SubmitsOf(submit)) = 0 /\ Cardinality(HoldingOf(worker)) = 0
      BY NothingHeld, RestingTyped DEF Init, UnderWay
    <2>2. Len(queue) = 0
      BY DEF Init
    <2> QED BY <2>1, <2>2 DEF Init, Accounted, Held
  <1> QED BY <1>1, <1>2, <1>3 DEF IInv

-----------------------------------------------------------------------------
(* Helpers of the actions *)

BoundsTyped == crashes \in 0 .. MaxCrashes /\ faults \in 0 .. MaxFaults

LEMMA FaultTyped ==
    ASSUME IInv, UNCHANGED bounds \/ Fault
    PROVE  BoundsTyped'
  BY BoundsAssumption DEF IInv, Typed, FrontTyped, BoundsTyped, bounds, Fault

\* No row appears, nobody is claimed or recovered anew.
LEMMA OldKept ==
    ASSUME Old, submit' = submit, up' = up, recover' = recover, feeding' \subseteq feeding,
           claims' \subseteq claims, \A id \in Ids : HasRow(id)' => HasRow(id)
    PROVE  Old'
  BY DEF Old, Answered

\* A row that is there changes; no other does.
RowKept == row' \in [Ids -> RowType] /\ \A id \in Ids : HasRow(id)' => HasRow(id)

LEMMA UpdateKept ==
    ASSUME IInv, NEW id \in Ids, NEW status \in Statuses, NEW leased \in BOOLEAN,
           Update(id, status, leased)
    PROVE  RowKept
  <1>1. row \in [Ids -> RowType]
    BY DEF IInv, Typed, StoreTyped
  <1>2. CASE HasRow(id)
    <2> DEFINE y == [row[id] EXCEPT !.status = status, !.leased = leased]
    <2>1. y \in RowType
      BY <1>1 DEF RowType
    <2>2. row' = [row EXCEPT ![id] = y]
      <3>1. row' = [row EXCEPT ![id].status = status, ![id].leased = leased]
        BY <1>2 DEF Update
      <3> QED BY <1>1, <3>1 DEF RowType
    <2> HIDE DEF y
    <2> QED BY <1>1, <1>2, <2>1, <2>2 DEF RowKept, HasRow
  <1>3. CASE ~HasRow(id)
    BY <1>1, <1>3 DEF RowKept, HasRow, Update
  <1> QED BY <1>2, <1>3

LEMMA RowSame == ASSUME IInv, UNCHANGED row PROVE RowKept
  BY DEF IInv, Typed, StoreTyped, RowKept, HasRow

LEMMA RowGone ==
    ASSUME IInv, NEW id \in Ids, row' = [row EXCEPT ![id] = NoRow]
    PROVE  RowKept
  BY RestingTyped DEF IInv, Typed, StoreTyped, RowKept, HasRow

-----------------------------------------------------------------------------
(* Workers *)

\* What a worker's step leaves alone.
WorkerFrame == UNCHANGED <<aged, expired, feeding, submit, purging, syncs, recover, sweep, up>>

\* What it changes of rows, blobs and counters is in order.
StoreChanges == RowKept /\ {input', result'} \subseteq SUBSET Ids /\ BoundsTyped'

LEMMA WorkerTyped ==
    ASSUME IInv, NEW w \in Workers, NEW y, WorkerFits(y), worker' = [worker EXCEPT ![w] = y],
           WorkerFrame, StoreChanges, claims' \subseteq claims,
           queue' \in Seq(Ids), Len(queue') <= Capacity, admits' \in Int, admits' <= Capacity
    PROVE  Typed' /\ Old'
  <1>1. WorkersTyped'
    BY DEF IInv, Typed, WorkersTyped, WorkerFits
  <1>2. StoreTyped'
    BY DEF IInv, Typed, StoreTyped, WorkerFrame, StoreChanges, RowKept
  <1>3. ManagerTyped' /\ FrontTyped' /\ RecoverTyped' /\ sweep' \in SweepType
    BY DEF IInv, Typed, ManagerTyped, FrontTyped, RecoverTyped, WorkerFrame, StoreChanges, BoundsTyped
  <1>4. Old'
    BY OldKept DEF IInv, WorkerFrame, StoreChanges, RowKept
  <1> QED BY <1>1, <1>2, <1>3, <1>4 DEF Typed

\* A worker goes on with its job and its slot.
LEMMA WorkerMoves ==
    ASSUME IInv, NEW w \in Workers, NEW y, WorkerFits(y), worker' = [worker EXCEPT ![w] = y],
           y.at # "idle", worker[w].at # "idle", y.released <=> worker[w].released,
           WorkerFrame, StoreChanges, UNCHANGED <<admits, queue, claims>>
    PROVE  Steady
  <1>1. Typed' /\ Old'
    BY WorkerTyped DEF IInv, Typed, ManagerTyped
  <1>2. HoldingOf(worker') = HoldingOf(worker)
    BY HoldingSame DEF IInv, Typed, WorkersTyped
  <1>3. Balanced
    BY <1>2 DEF IInv, Accounted, Held, Balanced, Exact, WorkerFrame
  <1> QED BY <1>1, <1>3 DEF IInv, Steady, Balanced

\* A worker's job is over: its slot goes, unless a panic took it.
LEMMA WorkerFinishes ==
    ASSUME IInv, NEW w \in Workers, worker[w].at # "idle", Finished(w),
           WorkerFrame, StoreChanges, UNCHANGED queue
    PROVE  Steady
  <1>1. worker' = [worker EXCEPT ![w] = Idle] /\ DOMAIN worker = Workers
    BY DEF Finished, IInv, Typed, WorkersTyped
  <1>2. /\ admits \in Int /\ admits <= Capacity /\ queue \in Seq(Ids) /\ Len(queue) <= Capacity
        /\ syncs \in Int /\ Len(queue) \in Int
    BY BoundsAssumption, LenProperties DEF IInv, Typed, ManagerTyped
  <1>3. Capacity \in Nat
    BY CapacityTyped
  <1>4. claims' \subseteq claims /\ admits' \in Int /\ admits' <= Capacity
    BY <1>2, <1>3 DEF Finished
  <1>5. Typed' /\ Old'
    BY <1>1, <1>2, <1>4, WorkerTyped, RestingTyped
  <1>6. CASE worker[w].released
    <2>1. HoldingOf(worker') = HoldingOf(worker) /\ admits' = admits
      <3>1. HoldingOf([worker EXCEPT ![w] = Idle]) = HoldingOf(worker)
        BY <1>1, <1>6, HoldingGone, RestingTyped
      <3> QED BY <1>1, <1>6, <3>1 DEF Finished
    <2> QED BY <2>1, <1>5 DEF IInv, Accounted, Held, Balanced, Exact, WorkerFrame, Steady
  <1>7. CASE ~worker[w].released
    <2>1. Cardinality(HoldingOf(worker')) = Cardinality(HoldingOf(worker)) - 1 /\ admits' = admits - 1
      <3>1. Cardinality(HoldingOf([worker EXCEPT ![w] = Idle])) = Cardinality(HoldingOf(worker)) - 1
        BY <1>1, <1>7, HoldingLess, RestingTyped
      <3> QED BY <1>1, <1>7, <3>1 DEF Finished
    <2>2. Cardinality(HoldingOf(worker)) \in Nat /\ Cardinality(SubmitsOf(submit)) \in Nat
      BY CountsTyped
    <2>3. Held' = Held - 1 /\ Held \in Int
      BY <1>2, <2>1, <2>2 DEF Held, WorkerFrame
    <2>4. Balanced
      BY <1>2, <2>1, <2>3 DEF IInv, Accounted, Balanced, Exact
    <2> QED BY <1>5, <2>4 DEF IInv, Steady, Balanced
  <1> QED BY <1>6, <1>7

\* Steps that change only where the worker is.
LEMMA StepFits ==
    ASSUME NEW x, WorkerFits(x), x.at # "idle",
           NEW step \in {"get", "mark", "run", "write", "succeed", "fail", "clean", "discard"},
           x.released => step \in {"fail", "clean", "discard"}
    PROVE  LET y == [x EXCEPT !.at = step]
           IN  WorkerFits(y) /\ y.at # "idle" /\ (y.released <=> x.released)
  <1> DEFINE y == [x EXCEPT !.at = step]
  <1>1. y \in WorkerType /\ y.at = step /\ y.id = x.id /\ y.released = x.released
    BY DEF WorkerFits, WorkerType
  <1> QED BY <1>1 DEF WorkerFits

LEMMA WorkerAtInv ==
    ASSUME IInv, NEW w \in Workers, worker[w].at # "idle",
           NEW step \in {"get", "mark", "run", "write", "succeed", "fail", "clean", "discard"},
           worker[w].released => step \in {"fail", "clean", "discard"}, WorkerAt(w, step),
           WorkerFrame, StoreChanges, UNCHANGED <<admits, queue, claims>>
    PROVE  Steady
  <1> DEFINE y == [worker[w] EXCEPT !.at = step]
  <1>1. WorkerFits(worker[w]) /\ worker \in [Workers -> WorkerType]
    BY DEF IInv, Typed, WorkersTyped
  <1>2. WorkerFits(y) /\ y.at # "idle" /\ (y.released <=> worker[w].released)
    BY <1>1, StepFits
  <1>3. worker' = [worker EXCEPT ![w] = y]
    BY <1>1 DEF WorkerAt
  <1> HIDE DEF y
  <1> QED BY <1>2, <1>3, WorkerMoves

\* The steps of a worker up to its engine.
LEMMA WorkerStartInv ==
    ASSUME IInv, NEW w \in Workers, TakeJob(w) \/ GetJob(w) \/ MarkRunning(w)
    PROVE  Steady
  <1> DEFINE x == worker[w]
  <1>0. WorkerFits(x) /\ worker \in [Workers -> WorkerType] /\ row \in [Ids -> RowType]
        /\ {input, result} \subseteq SUBSET Ids
    BY DEF IInv, Typed, WorkersTyped, StoreTyped
  <1>1. CASE TakeJob(w)
    <2> DEFINE y == [Idle EXCEPT !.at = "get", !.id = Head(queue)]
    <2>1. queue \in Seq(Ids) /\ queue # <<>> /\ x.at = "idle" /\ queue' = Tail(queue)
      BY <1>1 DEF TakeJob, IInv, Typed, ManagerTyped
    <2>2. /\ Head(queue) \in Ids /\ queue' \in Seq(Ids) /\ Len(queue') = Len(queue) - 1
          /\ Len(queue) \in Nat
      BY <2>1, HeadTailProperties, LenProperties
    <2>3. WorkerFits(y) /\ y.at = "get" /\ ~y.released
      BY <2>2 DEF WorkerFits, WorkerType, Idle
    <2>4. worker' = [worker EXCEPT ![w] = y]
      BY <1>1 DEF TakeJob
    <2>5. WorkerFrame /\ UNCHANGED <<admits, claims>>
      BY <1>1 DEF TakeJob, WorkerFrame, persistent
    <2>6. StoreChanges
      <3>1. UNCHANGED <<row, input, result>> /\ UNCHANGED bounds
        BY <1>1 DEF TakeJob, persistent
      <3> QED BY <1>0, <3>1, RowSame, FaultTyped DEF StoreChanges
    <2>7. admits \in Int /\ admits <= Capacity /\ Len(queue) <= Capacity /\ Capacity \in Nat /\ syncs \in Int
      BY CapacityTyped, BoundsAssumption DEF IInv, Typed, ManagerTyped
    <2> HIDE DEF y
    <2>8. Typed' /\ Old'
      <3>1. /\ queue' \in Seq(Ids) /\ Len(queue') <= Capacity
            /\ claims' \subseteq claims /\ admits' \in Int /\ admits' <= Capacity
        BY <2>2, <2>5, <2>7
      <3>2. WorkerFrame /\ StoreChanges /\ WorkerFits(y)
        BY <2>3, <2>5, <2>6
      <3> QED BY <2>4, <3>1, <3>2, WorkerTyped
    <2>9. Cardinality(HoldingOf(worker')) = Cardinality(HoldingOf(worker)) + 1
      <3>1. Cardinality(HoldingOf([worker EXCEPT ![w] = y])) = Cardinality(HoldingOf(worker)) + 1
        BY <1>0, <2>1, <2>3, HoldingMore
      <3> QED BY <2>4, <3>1
    <2>10. Cardinality(HoldingOf(worker)) \in Nat /\ Cardinality(SubmitsOf(submit)) \in Nat
      BY CountsTyped
    <2>11. Held' = Held
      BY <2>2, <2>5, <2>7, <2>9, <2>10 DEF Held, WorkerFrame
    <2> QED BY <2>5, <2>8, <2>11 DEF IInv, Accounted, Balanced, Exact, Steady
  <1>2. CASE GetJob(w)
    <2>1. x.at = "get" /\ WorkerFrame /\ UNCHANGED queue
      BY <1>2 DEF GetJob, WorkerFrame, persistent
    <2>2. StoreChanges
      <3>1. UNCHANGED <<row, input, result>> /\ (UNCHANGED bounds \/ Fault)
        BY <1>2 DEF GetJob, persistent
      <3> QED BY <1>0, <3>1, RowSame, FaultTyped DEF StoreChanges
    <2>3. \/ WorkerAt(w, "mark") /\ UNCHANGED <<claims, admits>>
          \/ Finished(w)
      BY <1>2 DEF GetJob
    <2>4. ~x.released
      BY <1>0, <2>1 DEF WorkerFits
    <2> QED BY <2>1, <2>2, <2>3, <2>4, WorkerAtInv, WorkerFinishes
  <1>3. CASE MarkRunning(w)
    <2>1. x.at = "mark" /\ WorkerFrame /\ UNCHANGED queue /\ x.id \in Ids /\ ~x.released
      BY <1>0, <1>3 DEF MarkRunning, WorkerFrame, WorkerFits
    <2>2. UNCHANGED <<input, result>> /\ (UNCHANGED bounds \/ Fault)
      BY <1>3 DEF MarkRunning
    <2>3. CASE Finished(w) /\ UNCHANGED row
      <3>1. StoreChanges
        BY <1>0, <2>2, <2>3, RowSame, FaultTyped DEF StoreChanges
      <3> QED BY <2>1, <2>3, <3>1, WorkerFinishes
    <2>4. CASE /\ MarkedRunning(x.id)
               /\ worker' = [worker EXCEPT ![w].at = "run", ![w].sawInput = x.id \in input]
               /\ UNCHANGED <<claims, admits>>
      <3>1. RowKept
        <4>1. CASE HasRow(x.id)
          <5> DEFINE y == [status |-> "running", attempts |-> row[x.id].attempts + 1, leased |-> TRUE]
          <5>1. row[x.id].attempts + 1 \in Nat
            BY <1>0, <2>1 DEF RowType
          <5>2. y \in RowType
            BY <5>1 DEF RowType, Statuses
          <5>3. row' = [row EXCEPT ![x.id] = y]
            BY <2>4, <4>1 DEF MarkedRunning
          <5> HIDE DEF y
          <5> QED BY <1>0, <2>1, <4>1, <5>2, <5>3 DEF RowKept, HasRow
        <4>2. CASE ~HasRow(x.id)
          BY <2>4, <4>2, RowSame DEF MarkedRunning
        <4> QED BY <4>1, <4>2
      <3>2. StoreChanges
        BY <1>0, <2>2, <3>1, FaultTyped DEF StoreChanges
      <3> DEFINE b == x.id \in input
      <3> DEFINE y == [x EXCEPT !.at = "run", !.sawInput = b]
      <3>b. b \in BOOLEAN
        OBVIOUS
      <3>y. worker' = [worker EXCEPT ![w] = y]
        BY <1>0, <2>4
      <3> HIDE DEF b
      <3>3. WorkerFits(y) /\ y.at = "run" /\ (y.released <=> x.released)
        <4>1. y \in WorkerType /\ y.at = "run" /\ y.id = x.id /\ y.released = x.released
          BY <1>0, <3>b DEF WorkerFits, WorkerType
        <4> QED BY <2>1, <4>1 DEF WorkerFits
      <3> HIDE DEF y
      <3> QED BY <2>1, <2>4, <3>2, <3>3, <3>y, WorkerMoves
    <2> QED BY <1>3, <2>3, <2>4 DEF MarkRunning
  <1> QED BY <1>1, <1>2, <1>3

\* The steps of a worker from its engine on.
LEMMA WorkerEndInv ==
    ASSUME IInv, NEW w \in Workers,
           EngineReturns(w) \/ EnginePanics(w) \/ WriteResult(w) \/ Succeed(w) \/ Fail(w) \/ RunEnds(w)
    PROVE  Steady
  <1> DEFINE x == worker[w]
  <1>0. WorkerFits(x) /\ worker \in [Workers -> WorkerType] /\ row \in [Ids -> RowType]
        /\ {input, result} \subseteq SUBSET Ids
    BY DEF IInv, Typed, WorkersTyped, StoreTyped
  <1>1. x.at # "idle" /\ WorkerFrame /\ UNCHANGED queue /\ x.id \in Ids
    BY <1>0 DEF EngineReturns, EnginePanics, WriteResult, Succeed, Fail, RunEnds, WorkerFrame,
                persistent, manager, WorkerFits
  <1>2. CASE EngineReturns(w)
    <2>1. StoreChanges /\ UNCHANGED <<admits, claims>>
      <3>1. UNCHANGED <<row, input, result>> /\ UNCHANGED bounds /\ UNCHANGED <<admits, claims>>
        BY <1>2 DEF EngineReturns, persistent, manager
      <3> QED BY <1>0, <3>1, RowSame, FaultTyped DEF StoreChanges
    <2>2. ~x.released /\ (WorkerAt(w, "write") \/ WorkerAt(w, "fail"))
      BY <1>0, <1>2 DEF EngineReturns, WorkerFits
    <2> QED BY <1>1, <2>1, <2>2, WorkerAtInv
  <1>3. CASE EnginePanics(w)
    <2> DEFINE y == [x EXCEPT !.at = "fail", !.released = TRUE]
    <2>1. x.at = "run" /\ ~x.released /\ admits' = admits - 1 /\ claims' \subseteq claims
      BY <1>0, <1>3 DEF EnginePanics, WorkerFits
    <2>2. y \in WorkerType /\ y.at = "fail" /\ y.id = x.id /\ y.released = TRUE
      BY <1>0 DEF WorkerFits, WorkerType
    <2>3. worker' = [worker EXCEPT ![w] = y]
      BY <1>0, <1>3 DEF EnginePanics
    <2> HIDE DEF y
    <2>4. WorkerFits(y)
      BY <1>1, <2>2 DEF WorkerFits
    <2>5. StoreChanges
      <3>1. UNCHANGED <<row, input, result>> /\ UNCHANGED bounds
        BY <1>3 DEF EnginePanics, persistent
      <3> QED BY <1>0, <3>1, RowSame, FaultTyped DEF StoreChanges
    <2>6. /\ admits \in Int /\ admits <= Capacity /\ queue \in Seq(Ids) /\ Len(queue) <= Capacity
          /\ Len(queue) \in Int /\ syncs \in Int /\ Capacity \in Nat
      BY CapacityTyped, BoundsAssumption, LenProperties DEF IInv, Typed, ManagerTyped
    <2>7. Typed' /\ Old'
      <3>1. /\ queue' \in Seq(Ids) /\ Len(queue') <= Capacity
            /\ claims' \subseteq claims /\ admits' \in Int /\ admits' <= Capacity
        BY <1>1, <2>1, <2>6
      <3> QED BY <1>1, <2>3, <2>4, <2>5, <3>1, WorkerTyped
    <2>8. Cardinality(HoldingOf(worker')) = Cardinality(HoldingOf(worker)) - 1
      <3>1. Cardinality(HoldingOf([worker EXCEPT ![w] = y])) = Cardinality(HoldingOf(worker)) - 1
        BY <1>0, <2>1, <2>2, HoldingLess
      <3> QED BY <2>3, <3>1
    <2>9. Cardinality(HoldingOf(worker)) \in Nat /\ Cardinality(SubmitsOf(submit)) \in Nat
      BY CountsTyped
    <2>10. Held' = Held - 1 /\ Held \in Int
      BY SMTT(60), <1>1, <2>6, <2>8, <2>9 DEF Held, WorkerFrame
    <2>11. Balanced
      BY <2>1, <2>6, <2>10 DEF IInv, Accounted, Balanced, Exact
    <2> QED BY <2>7, <2>11 DEF IInv, Steady, Balanced
  <1>4. CASE WriteResult(w)
    <2>1. StoreChanges /\ UNCHANGED <<admits, claims>>
      <3>1. UNCHANGED <<row, input>> /\ (UNCHANGED bounds \/ Fault) /\ UNCHANGED <<admits, claims>>
            /\ (result' = result \/ result' = result \union {x.id})
        BY <1>4 DEF WriteResult, manager
      <3> QED BY <1>0, <1>1, <3>1, RowSame, FaultTyped DEF StoreChanges
    <2>2. ~x.released /\ (WorkerAt(w, "succeed") \/ WorkerAt(w, "fail"))
      BY <1>0, <1>4 DEF WriteResult, WorkerFits
    <2> QED BY <1>1, <2>1, <2>2, WorkerAtInv
  <1>5. CASE Succeed(w) \/ Fail(w)
    <2>1. \/ Update(x.id, "succeeded", FALSE) \/ Update(x.id, "failed", FALSE) \/ UNCHANGED row
      BY <1>5 DEF Succeed, Fail
    <2>2. RowKept
      BY <1>1, <2>1, UpdateKept, RowSame DEF Statuses
    <2>3. StoreChanges /\ UNCHANGED <<admits, claims>>
      <3>1. UNCHANGED <<input, result>> /\ (UNCHANGED bounds \/ Fault) /\ UNCHANGED <<admits, claims>>
        BY <1>5 DEF Succeed, Fail, manager
      <3> QED BY <1>0, <2>2, <3>1, FaultTyped DEF StoreChanges
    <2>4. \/ WorkerAt(w, "clean") \/ WorkerAt(w, "discard") \/ WorkerAt(w, "fail")
      BY <1>5 DEF Succeed, Fail
    <2> QED BY <1>1, <2>3, <2>4, WorkerAtInv
  <1>6. CASE RunEnds(w)
    <2>1. StoreChanges
      <3>1. UNCHANGED row /\ UNCHANGED bounds /\ input' \subseteq input /\ result' \subseteq result
        BY <1>6 DEF RunEnds, RemoveInput, RemoveAll
      <3> QED BY <1>0, <3>1, RowSame, FaultTyped DEF StoreChanges
    <2>2. Finished(w)
      BY <1>6 DEF RunEnds
    <2> QED BY <1>1, <2>1, <2>2, WorkerFinishes
  <1> QED BY <1>2, <1>3, <1>4, <1>5, <1>6

-----------------------------------------------------------------------------
(* Submits, requests and feed *)

LEMMA CountedTyped ==
    ASSUME IInv
    PROVE  /\ Capacity \in Nat /\ admits \in Int /\ admits <= Capacity /\ admits >= Held
           /\ queue \in Seq(Ids) /\ Len(queue) \in Nat /\ Len(queue) <= Capacity /\ syncs \in Nat
           /\ Cardinality(SubmitsOf(submit)) \in Nat /\ Cardinality(HoldingOf(worker)) \in Nat
           /\ Held \in Nat /\ Held >= syncs
  <1>1. /\ Capacity \in Nat /\ admits \in Int /\ admits <= Capacity
        /\ queue \in Seq(Ids) /\ Len(queue) <= Capacity /\ syncs \in 0 .. MaxSyncs /\ admits >= Held
    BY CapacityTyped DEF IInv, Typed, ManagerTyped, Accounted
  <1>2. Len(queue) \in Nat /\ syncs \in Nat
    BY <1>1, LenProperties, BoundsAssumption
  <1>3. Cardinality(SubmitsOf(submit)) \in Nat /\ Cardinality(HoldingOf(worker)) \in Nat
    BY CountsTyped
  <1>4. Held \in Nat /\ Held >= syncs
    BY <1>2, <1>3 DEF Held
  <1> QED BY <1>1, <1>2, <1>3, <1>4

\* What a submit's step leaves alone.
SubmitFrame == UNCHANGED <<aged, expired, feeding, purging, syncs, worker, recover, sweep, up>>
Submitted == submit \in [Ids -> {"new", "admitted", "stored", "created", "acked", "refused"}]

\* A submit goes on: it is not yet answered, the listener is open, a row appears
\* with it at the earliest, and a claim only with its 202.
LEMMA SubmitMoves ==
    ASSUME IInv, NEW id \in Ids, submit[id] \in {"new", "admitted", "stored", "created"}, up = "serving",
           NEW step \in {"admitted", "stored", "created", "acked", "refused"}, SubmitAt(id, step),
           SubmitFrame, row' \in [Ids -> RowType], {input', result'} \subseteq SUBSET Ids, BoundsTyped',
           \A j \in Ids : HasRow(j)' => HasRow(j) \/ j = id,
           HasRow(id)' => step \in {"created", "acked", "refused"}, claims' \in SUBSET Ids,
           queue' \in Seq(Ids), Len(queue') <= Capacity, admits' \in Int, admits' <= Capacity,
           Balanced
    PROVE  Steady
  <1>1. Submitted /\ submit' = [submit EXCEPT ![id] = step]
    BY DEF IInv, Typed, FrontTyped, Submitted, SubmitAt
  <1>2. StoreTyped' /\ WorkersTyped' /\ RecoverTyped' /\ sweep' \in SweepType
    BY DEF IInv, Typed, StoreTyped, WorkersTyped, WorkerFits, RecoverTyped, SubmitFrame
  <1>3. ManagerTyped'
    BY DEF IInv, Typed, ManagerTyped, SubmitFrame
  <1>4. FrontTyped'
    BY <1>1 DEF IInv, Typed, FrontTyped, SubmitFrame, BoundsTyped, Submitted
  <1>5. Old'
    <2>1. \A j \in Ids : Answered(j) => Answered(j)'
      BY <1>1 DEF Answered, Submitted
    <2>2. \A j \in Ids : HasRow(j)' => submit'[j] \in {"created", "acked", "refused"}
      BY <1>1 DEF IInv, Old, Submitted
    <2> QED BY <2>1, <2>2 DEF IInv, Old, SubmitFrame, Answered
  <1> QED BY <1>2, <1>3, <1>4, <1>5 DEF IInv, Typed, Steady, Balanced

\* Its slot is taken, kept or given back.
LEMMA SubmitAdmitted ==
    ASSUME IInv, NEW id \in Ids, submit[id] = "new", SubmitAt(id, "admitted"), admits' = admits + 1,
           UNCHANGED <<queue, syncs, worker>>
    PROVE  Balanced
  <1>1. Cardinality(SubmitsOf(submit')) = Cardinality(SubmitsOf(submit)) + 1
    <2>1. Cardinality(SubmitsOf([submit EXCEPT ![id] = "admitted"])) = Cardinality(SubmitsOf(submit)) + 1
      <3>1. "admitted" \in UnderWay /\ "new" \notin UnderWay /\ DOMAIN submit = Ids
        BY DEF UnderWay, IInv, Typed, FrontTyped
      <3> QED BY <3>1, SubmitMore
    <2> QED BY <2>1 DEF SubmitAt
  <1>2. Held' = Held + 1
    BY <1>1, CountedTyped DEF Held
  <1> QED BY <1>2, CountedTyped DEF IInv, Accounted, Balanced, Exact

LEMMA SubmitOn ==
    ASSUME IInv, NEW id \in Ids, submit[id] \in UnderWay, NEW step \in UnderWay, SubmitAt(id, step),
           UNCHANGED <<admits, queue, syncs, worker>>
    PROVE  Balanced
  <1>1. SubmitsOf(submit') = SubmitsOf(submit)
    BY SubmitSame DEF SubmitAt, IInv, Typed, FrontTyped
  <1>2. Held' = Held
    BY <1>1 DEF Held
  <1> QED BY <1>2 DEF IInv, Accounted, Balanced, Exact

LEMMA SubmitOver ==
    ASSUME IInv, NEW id \in Ids, submit[id] \in UnderWay, NEW step, step \notin UnderWay,
           SubmitAt(id, step), UNCHANGED <<syncs, worker>>,
           \/ admits' = admits - 1 /\ Len(queue') = Len(queue)
           \/ admits' = admits /\ Len(queue') = Len(queue) + 1
    PROVE  Balanced
  <1>1. Cardinality(SubmitsOf(submit')) = Cardinality(SubmitsOf(submit)) - 1
    <2>1. Cardinality(SubmitsOf([submit EXCEPT ![id] = step])) = Cardinality(SubmitsOf(submit)) - 1
      BY SubmitLess DEF IInv, Typed, FrontTyped
    <2> QED BY <2>1 DEF SubmitAt
  <1>2. Held' = Cardinality(SubmitsOf(submit)) - 1 + syncs + Len(queue') + Cardinality(HoldingOf(worker))
    BY <1>1 DEF Held
  <1>3. Held = Cardinality(SubmitsOf(submit)) + syncs + Len(queue) + Cardinality(HoldingOf(worker))
    BY DEF Held
  <1>4. admits' - Held' = admits - Held /\ Held' \in Int
    BY SMTT(60), <1>2, <1>3, CountedTyped
  <1> QED BY <1>4, CountedTyped DEF IInv, Accounted, Balanced, Exact

LEMMA SubmitInv ==
    ASSUME IInv, NEW id \in Ids, Admit(id) \/ SubmitStep(id)
    PROVE  Steady
  <1>1. /\ row \in [Ids -> RowType] /\ {input, result} \subseteq SUBSET Ids /\ Submitted
        /\ submit[id] \in UnderWay => up = "serving"
        /\ claims \in SUBSET Ids
    BY DEF IInv, Typed, StoreTyped, ManagerTyped, FrontTyped, Submitted, Old, UnderWay
  <1>2. UNCHANGED bounds => BoundsTyped'
    BY FaultTyped
  <1>3. /\ UNCHANGED row => /\ row' \in [Ids -> RowType]
                            /\ \A j \in Ids : HasRow(j)' => HasRow(j)
        /\ submit[id] \in {"new", "admitted", "stored"} => ~HasRow(id)
    BY <1>1 DEF HasRow, IInv, Old, Submitted
  <1>4. CASE Admit(id)
    <2>1. Balanced
      BY <1>4, SubmitAdmitted DEF Admit
    <2>2. SubmitFrame /\ SubmitAt(id, "admitted") /\ up = "serving" /\ submit[id] = "new"
          /\ UNCHANGED <<row, input, result, claims, queue, bounds>>
      BY <1>4 DEF Admit, SubmitFrame, persistent
    <2>3. admits' \in Int /\ admits' <= Capacity
      BY <1>4, CountedTyped DEF Admit
    <2>4. UNCHANGED queue /\ queue' \in Seq(Ids) /\ Len(queue') <= Capacity
      BY <2>2, CountedTyped
    <2> QED BY <1>1, <1>2, <1>3, <2>1, <2>2, <2>3, <2>4, SubmitMoves DEF HasRow
  <1>5. CASE StoreInput(id)
    <2>1. SubmitFrame /\ SubmitAt(id, "stored") /\ submit[id] = "admitted"
          /\ UNCHANGED <<row, result, claims, queue, admits, bounds>> /\ input' = input \union {id}
      BY <1>5 DEF StoreInput, SubmitFrame, manager
    <2>2. Balanced
      BY <2>1, SubmitOn DEF UnderWay, SubmitFrame
    <2>3. queue' \in Seq(Ids) /\ Len(queue') <= Capacity /\ admits' \in Int /\ admits' <= Capacity
      BY <2>1, CountedTyped
    <2>4. up = "serving" /\ {input', result'} \subseteq SUBSET Ids
      BY <1>1, <2>1 DEF UnderWay
    <2> QED BY <1>1, <1>2, <1>3, <2>1, <2>2, <2>3, <2>4, SubmitMoves DEF HasRow
  <1>6. CASE StoreInputFails(id) \/ CreateRowFails(id)
    <2>1. SubmitFrame /\ SubmitAt(id, "refused") /\ submit[id] \in {"admitted", "stored"}
          /\ UNCHANGED <<row, claims, queue>> /\ admits' = admits - 1
          /\ (UNCHANGED bounds \/ Fault) /\ input' \subseteq input /\ result' \subseteq result
      BY <1>6 DEF StoreInputFails, CreateRowFails, Refuse, RemoveAll, SubmitFrame
    <2>2. queue' \in Seq(Ids) /\ Len(queue') <= Capacity /\ admits' \in Int /\ admits' <= Capacity
      BY <2>1, CountedTyped
    <2>3. Balanced
      <3>1. submit[id] \in UnderWay /\ "refused" \notin UnderWay
        BY <2>1 DEF UnderWay
      <3> QED BY <2>1, <2>2, <3>1, SubmitOver DEF SubmitFrame
    <2>4. up = "serving" /\ {input', result'} \subseteq SUBSET Ids /\ BoundsTyped'
      BY <1>1, <2>1, FaultTyped DEF UnderWay
    <2> QED BY <1>1, <1>3, <2>1, <2>2, <2>3, <2>4, SubmitMoves DEF HasRow
  <1>7. CASE CreateRow(id)
    <2> DEFINE new == [status |-> "notStarted", attempts |-> 0, leased |-> FALSE]
    <2>1. SubmitFrame /\ SubmitAt(id, "created") /\ submit[id] = "stored"
          /\ UNCHANGED <<input, result, claims, queue, admits, bounds>> /\ row' = [row EXCEPT ![id] = new]
      BY <1>7 DEF CreateRow, SubmitFrame, manager
    <2>2. new \in RowType
      BY DEF RowType, Statuses
    <2> HIDE DEF new
    <2>3. row' \in [Ids -> RowType] /\ \A j \in Ids : HasRow(j)' => HasRow(j) \/ j = id
      BY <1>1, <2>1, <2>2 DEF HasRow
    <2>4. Balanced
      BY <2>1, SubmitOn DEF UnderWay, SubmitFrame
    <2>5. queue' \in Seq(Ids) /\ Len(queue') <= Capacity /\ admits' \in Int /\ admits' <= Capacity
      BY <2>1, CountedTyped
    <2>6. up = "serving" /\ {input', result'} \subseteq SUBSET Ids /\ BoundsTyped'
      BY <1>1, <1>2, <2>1 DEF UnderWay
    <2> QED BY <1>1, <2>1, <2>3, <2>4, <2>5, <2>6, SubmitMoves
  <1>8. CASE Enqueue(id)
    <2>1. SubmitFrame /\ submit[id] = "created" /\ UNCHANGED <<row, input, result, bounds>>
          /\ up = "serving" /\ {input', result'} \subseteq SUBSET Ids /\ BoundsTyped'
      BY <1>1, <1>2, <1>8 DEF Enqueue, SubmitFrame, persistent, UnderWay
    <2>2. submit[id] \in UnderWay /\ "acked" \notin UnderWay /\ "refused" \notin UnderWay
      BY <2>1 DEF UnderWay
    <2>3. CASE id \in claims /\ SubmitAt(id, "acked") /\ UNCHANGED <<claims, queue, admits>>
      <3>1. Overtaken
        BY <2>1, <2>3 DEF Overtaken
      <3>2. Balanced
        <4>1. Cardinality(SubmitsOf(submit')) = Cardinality(SubmitsOf(submit)) - 1
          <5>1. Cardinality(SubmitsOf([submit EXCEPT ![id] = "acked"])) = Cardinality(SubmitsOf(submit)) - 1
            BY <2>2, SubmitLess DEF IInv, Typed, FrontTyped
          <5> QED BY <2>3, <5>1 DEF SubmitAt
        <4>2. Held' = Held - 1
          BY <2>1, <2>3, <4>1, CountedTyped DEF Held, SubmitFrame
        <4> QED BY <2>3, <3>1, <4>2, CountedTyped DEF Accounted, Balanced, Exact
      <3>3. queue' \in Seq(Ids) /\ Len(queue') <= Capacity /\ admits' \in Int /\ admits' <= Capacity
        BY <2>3, CountedTyped
      <3> QED BY <1>1, <1>3, <2>1, <2>3, <3>2, <3>3, SubmitMoves
    <2>4. CASE /\ Len(queue) < Capacity /\ claims' = claims \union {id} /\ queue' = Append(queue, id)
               /\ SubmitAt(id, "acked") /\ UNCHANGED admits
      <3>1. queue' \in Seq(Ids) /\ Len(queue') = Len(queue) + 1
        BY <2>4, CountedTyped, AppendProperties
      <3>2. Len(queue') <= Capacity /\ admits' \in Int /\ admits' <= Capacity
        BY <2>4, <3>1, CountedTyped
      <3>3. Balanced
        BY <2>1, <2>2, <2>4, <3>1, SubmitOver DEF SubmitFrame
      <3> QED BY <1>1, <1>3, <2>1, <2>4, <3>1, <3>2, <3>3, SubmitMoves
    <2>5. CASE admits' = admits - 1 /\ SubmitAt(id, "refused") /\ UNCHANGED <<claims, queue>>
      <3>1. queue' \in Seq(Ids) /\ Len(queue') <= Capacity /\ admits' \in Int /\ admits' <= Capacity
        BY <2>5, CountedTyped
      <3>2. Balanced
        BY <2>1, <2>2, <2>5, SubmitOver DEF SubmitFrame
      <3> QED BY <1>1, <1>3, <2>1, <2>5, <3>1, <3>2, SubmitMoves
    <2> QED BY <1>8, <2>3, <2>4, <2>5 DEF Enqueue
  <1> QED BY <1>4, <1>5, <1>6, <1>7, <1>8 DEF SubmitStep

\* Steps that leave slots, claims and submits alone.
LEMMA Bystander ==
    ASSUME IInv, RowKept, {input', result', aged', expired', purging'} \subseteq SUBSET Ids,
           BoundsTyped', sweep' \in SweepType,
           UNCHANGED <<manager, submit, syncs, worker, recover, up>>
    PROVE  Steady
  <1>1. StoreTyped' /\ ManagerTyped' /\ FrontTyped' /\ WorkersTyped' /\ RecoverTyped'
    BY DEF IInv, Typed, RowKept, StoreTyped, ManagerTyped, FrontTyped, WorkersTyped, WorkerFits,
           RecoverTyped, BoundsTyped, manager
  <1>2. Old'
    BY OldKept DEF IInv, RowKept, manager
  <1>3. Balanced
    BY DEF IInv, Accounted, Held, Balanced, Exact, manager
  <1> QED BY <1>1, <1>2, <1>3 DEF IInv, Typed, Steady, Balanced

LEMMA DeleteInv ==
    ASSUME IInv, NEW id \in Ids, DeleteRow(id) \/ DeleteBlobs(id)
    PROVE  Steady
  <1>1. UNCHANGED <<aged, expired, sweep, bounds, manager, submit, syncs, worker, recover, up>>
    BY DEF DeleteRow, DeleteBlobs
  <1>2. RowKept
    BY RowGone, RowSame DEF DeleteRow, DeleteBlobs
  <1>3. {input, result, aged, expired, purging} \subseteq SUBSET Ids /\ sweep \in SweepType
    BY DEF IInv, Typed, StoreTyped
  <1>4. {input', result', purging'} \subseteq SUBSET Ids
    BY <1>3 DEF DeleteRow, DeleteBlobs, RemoveAll
  <1> QED BY <1>1, <1>2, <1>3, <1>4, FaultTyped, Bystander

LEMMA TimeInv ==
    ASSUME IInv, NEW id \in Ids, TimePasses(id)
    PROVE  Steady
  <1>1. UNCHANGED <<input, result, purging, sweep, bounds, manager, submit, syncs, worker, recover, up>>
    BY DEF TimePasses, Age, Expire, LeaseLapses, agents
  <1>2. {input, result, aged, expired, purging} \subseteq SUBSET Ids /\ sweep \in SweepType
        /\ row \in [Ids -> RowType]
    BY DEF IInv, Typed, StoreTyped
  <1>3. {aged', expired'} \subseteq SUBSET Ids
    BY <1>2 DEF TimePasses, Age, Expire, LeaseLapses
  <1>4. RowKept
    <2>1. CASE UNCHANGED row
      BY <2>1, RowSame
    <2>2. CASE LeaseLapses(id)
      <3> DEFINE y == [row[id] EXCEPT !.leased = FALSE]
      <3>1. y \in RowType /\ row' = [row EXCEPT ![id] = y] /\ row[id].leased
        BY <1>2, <2>2 DEF LeaseLapses, RowType
      <3>2. HasRow(id)
        BY <3>1 DEF HasRow, NoRow
      <3> HIDE DEF y
      <3> QED BY <1>2, <3>1, <3>2 DEF RowKept, HasRow
    <2> QED BY <2>1, <2>2 DEF TimePasses, Age, Expire
  <1> QED BY <1>1, <1>2, <1>3, <1>4, FaultTyped, Bystander

\* A slot is taken or given back together with what it is for.
LEMMA SlotMoves ==
    ASSUME IInv, UNCHANGED <<persistent, purging, submit, worker, recover, sweep, up, bounds, claims>>,
           feeding' \subseteq feeding, queue' \in Seq(Ids), Len(queue') <= Capacity,
           syncs' \in 0 .. MaxSyncs, admits' \in Int, admits' <= Capacity,
           NEW d \in {-1, 1}, admits' = admits + d,
           \/ syncs' = syncs + d /\ Len(queue') = Len(queue)
           \/ syncs' = syncs /\ Len(queue') = Len(queue) + d
    PROVE  Steady
  <1>1. StoreTyped' /\ ManagerTyped' /\ FrontTyped' /\ WorkersTyped' /\ RecoverTyped' /\ sweep' \in SweepType
    BY DEF IInv, Typed, StoreTyped, ManagerTyped, FrontTyped, WorkersTyped, WorkerFits, RecoverTyped,
           persistent, bounds
  <1>2. Old'
    BY OldKept DEF IInv, persistent, HasRow
  <1>3. Held' = Held + d
    <2>1. Held' = Cardinality(SubmitsOf(submit)) + syncs' + Len(queue') + Cardinality(HoldingOf(worker))
      BY DEF Held
    <2>2. Held = Cardinality(SubmitsOf(submit)) + syncs + Len(queue) + Cardinality(HoldingOf(worker))
      BY DEF Held
    <2>3. /\ d \in Int /\ syncs \in Int /\ Len(queue) \in Int
          /\ Cardinality(SubmitsOf(submit)) \in Int /\ Cardinality(HoldingOf(worker)) \in Int
      BY CountedTyped
    <2>4. CASE syncs' = syncs + d /\ Len(queue') = Len(queue)
      <3>1. PICK b, q, h : /\ b = Cardinality(SubmitsOf(submit)) /\ q = Len(queue)
                           /\ h = Cardinality(HoldingOf(worker))
        OBVIOUS
      <3>2. Held' = b + (syncs + d) + q + h /\ Held = b + syncs + q + h
        BY <2>1, <2>2, <2>4, <3>1
      <3>3. b \in Int /\ q \in Int /\ h \in Int
        BY <2>3, <3>1
      <3> QED BY <2>3, <3>2, <3>3
    <2>5. CASE syncs' = syncs /\ Len(queue') = Len(queue) + d
      <3>1. PICK b, q, h : /\ b = Cardinality(SubmitsOf(submit)) /\ q = Len(queue)
                           /\ h = Cardinality(HoldingOf(worker))
        OBVIOUS
      <3>2. Held' = b + syncs + (q + d) + h /\ Held = b + syncs + q + h
        BY <2>1, <2>2, <2>5, <3>1
      <3>3. b \in Int /\ q \in Int /\ h \in Int
        BY <2>3, <3>1
      <3> QED BY <2>3, <3>2, <3>3
    <2> QED BY <2>4, <2>5
  <1>4. Balanced
    BY <1>3, CountedTyped DEF IInv, Accounted, Balanced, Exact
  <1> QED BY <1>1, <1>2, <1>4 DEF IInv, Typed, Steady, Balanced

LEMMA SlotInv ==
    ASSUME IInv, SyncBegins \/ SyncEnds \/ \E id \in Ids : Feed(id)
    PROVE  Steady
  <1>1. syncs \in 0 .. MaxSyncs /\ MaxSyncs \in Nat
    BY BoundsAssumption DEF IInv, Typed, ManagerTyped
  <1>2. CASE SyncBegins
    <2>1. /\ syncs' = syncs + 1 /\ admits' = admits + 1 /\ syncs < MaxSyncs /\ admits < Capacity
          /\ UNCHANGED <<queue, feeding>>
          /\ UNCHANGED <<persistent, purging, submit, worker, recover, sweep, up, bounds, claims>>
      BY <1>2 DEF SyncBegins
    <2>2. syncs' \in 0 .. MaxSyncs /\ admits' \in Int /\ admits' <= Capacity
      BY <1>1, <2>1, CountedTyped
    <2>3. queue' \in Seq(Ids) /\ Len(queue') <= Capacity /\ Len(queue') = Len(queue)
      BY <2>1, CountedTyped
    <2> QED BY <2>1, <2>2, <2>3, SlotMoves
  <1>3. CASE SyncEnds
    <2>1. /\ syncs' = syncs - 1 /\ admits' = admits - 1 /\ syncs > 0
          /\ UNCHANGED <<queue, feeding>>
          /\ UNCHANGED <<persistent, purging, submit, worker, recover, sweep, up, bounds, claims>>
      BY <1>3 DEF SyncEnds
    <2>2. syncs' \in 0 .. MaxSyncs /\ admits' \in Int /\ admits' <= Capacity /\ admits' = admits + (-1)
      BY <1>1, <2>1, CountedTyped
    <2>3. queue' \in Seq(Ids) /\ Len(queue') <= Capacity /\ Len(queue') = Len(queue) /\ syncs' = syncs + (-1)
      BY <2>1, CountedTyped
    <2> QED BY <2>1, <2>2, <2>3, SlotMoves
  <1>4. ASSUME NEW id \in Ids, Feed(id) PROVE Steady
    <2>1. /\ admits' = admits + 1 /\ queue' = Append(queue, id) /\ feeding' \subseteq feeding
          /\ admits < Capacity /\ Len(queue) < Capacity /\ UNCHANGED syncs
          /\ UNCHANGED <<persistent, purging, submit, worker, recover, sweep, up, bounds, claims>>
      BY <1>4 DEF Feed
    <2>2. queue' \in Seq(Ids) /\ Len(queue') = Len(queue) + 1
      BY <2>1, CountedTyped, AppendProperties
    <2>3. /\ syncs' \in 0 .. MaxSyncs /\ admits' \in Int /\ admits' <= Capacity
          /\ Len(queue') <= Capacity
      BY <1>1, <2>1, <2>2, CountedTyped
    <2> QED BY <2>1, <2>2, <2>3, SlotMoves
  <1> QED BY <1>2, <1>3, <1>4

-----------------------------------------------------------------------------
(* The passes of recover *)

Passes == {"boot", "sweep"}
RecoverFrame == UNCHANGED <<aged, expired, admits, queue, submit, purging, syncs, worker, sweep>>

LEMMA RecoverMoves ==
    ASSUME IInv, NEW r \in Passes, NEW y, RecoverFits(y), recover' = [recover EXCEPT ![r] = y],
           recover[r].at # "idle", RecoverFrame, StoreChanges, {claims', feeding'} \subseteq SUBSET Ids,
           UNCHANGED up \/ (r = "boot" /\ y.at = "idle" /\ up' = "serving")
    PROVE  Steady
  <1>1. StoreTyped' /\ ManagerTyped' /\ FrontTyped' /\ WorkersTyped' /\ sweep' \in SweepType
    BY DEF IInv, Typed, StoreTyped, ManagerTyped, FrontTyped, WorkersTyped, WorkerFits, RecoverFrame,
           StoreChanges, RowKept, BoundsTyped
  <1>2. recover \in [Passes -> RecoverType] /\ recover'[r] = y
    BY DEF IInv, Typed, RecoverTyped, Passes
  <1>3. RecoverTyped'
    BY <1>2 DEF IInv, Typed, RecoverTyped, RecoverFits, Passes
  <1>4. Old'
    <2>1. \A id \in Ids : HasRow(id)' => submit'[id] \in {"created", "acked", "refused"}
      BY DEF IInv, Old, StoreChanges, RowKept, RecoverFrame
    <2>2. up' # "serving" => \A id \in Ids : submit'[id] \in {"new", "acked", "refused"}
      BY DEF IInv, Old, RecoverFrame
    <2>3. recover'["boot"].at # "idle" => up' = "booting"
      BY <1>2 DEF IInv, Old, Passes
    <2> QED BY <2>1, <2>2, <2>3 DEF Old
  <1>5. Balanced
    BY DEF IInv, Accounted, Held, Balanced, Exact, RecoverFrame
  <1> QED BY <1>1, <1>3, <1>4, <1>5 DEF IInv, Typed, Steady, Balanced

\* What a pass knows of before a step.
LEMMA KnowsTyped ==
    ASSUME IInv, NEW r \in Passes
    PROVE  /\ RecoverFits(recover[r]) /\ recover \in [Passes -> RecoverType]
           /\ row \in [Ids -> RowType] /\ {input, result, claims, feeding} \subseteq SUBSET Ids
  BY DEF IInv, Typed, StoreTyped, ManagerTyped, RecoverTyped, Passes

\* Steps that change only where the pass is, and perhaps the claims.
LEMMA RecoverAtInv ==
    ASSUME IInv, NEW r \in Passes, recover[r].at # "idle",
           NEW step \in {"next", "check", "fail", "clean", "discard", "claim", "requeue"},
           step = "next" \/ recover[r].at \in AtJob, RecoverAt(r, step),
           RecoverFrame, StoreChanges, UNCHANGED <<feeding, up>>,
           claims' \subseteq claims \/ (recover[r].at \in AtJob /\ claims' = claims \union {recover[r].id})
    PROVE  Steady
  <1> DEFINE x == recover[r]
             y == [x EXCEPT !.at = step]
  <1>1. RecoverFits(x) /\ recover \in [Passes -> RecoverType] /\ {claims, feeding} \subseteq SUBSET Ids
    BY KnowsTyped
  <1>2. /\ y \in RecoverType /\ y.at = step /\ y.todo = x.todo /\ y.claimed = x.claimed /\ y.id = x.id
        /\ recover' = [recover EXCEPT ![r] = y]
    BY <1>1 DEF RecoverFits, RecoverType, RecoverAt
  <1> HIDE DEF y
  <1>3. RecoverFits(y)
    BY <1>1, <1>2 DEF RecoverFits, AtJob
  <1>4. Seen(y) \subseteq Seen(x) /\ (x.at \in AtJob => x.id \in Seen(x) /\ x.id \in Ids)
    BY <1>1, <1>2 DEF Seen, AtJob, RecoverFits
  <1>5. {claims', feeding'} \subseteq SUBSET Ids
    BY <1>1, <1>4
  <1> QED BY <1>2, <1>3, <1>5, RecoverMoves

LEMMA RecoverLookInv ==
    ASSUME IInv, NEW r \in Passes, RecoverScan(r) \/ RecoverNext(r) \/ RecoverGet(r) \/ RecoverCheck(r)
    PROVE  Steady
  <1> DEFINE x == recover[r]
  <1>1. /\ RecoverFits(x) /\ recover \in [Passes -> RecoverType] /\ row \in [Ids -> RowType]
        /\ {input, result, claims, feeding} \subseteq SUBSET Ids
    BY KnowsTyped
  <1>2. x.at # "idle" /\ RecoverFrame /\ UNCHANGED <<row, input, result, feeding, claims, up>>
        /\ (UNCHANGED bounds \/ Fault)
    BY DEF RecoverScan, RecoverNext, RecoverGet, RecoverCheck, RecoverFrame, persistent, manager
  <1>3. StoreChanges
    BY <1>1, <1>2, RowSame, FaultTyped DEF StoreChanges
  <1>4. CASE RecoverScan(r)
    <2>1. x.at = "scan"
      BY <1>4 DEF RecoverScan
    <2>2. CASE RecoverAt(r, "next")
      BY <1>2, <1>3, <2>2, RecoverAtInv
    <2>3. ASSUME NEW ids \in Batch(IF r = "boot" THEN Abandoned ELSE Orphaned),
                 recover' = [recover EXCEPT ![r].at = "next", ![r].todo = ids]
          PROVE  Steady
      <3> DEFINE y == [x EXCEPT !.at = "next", !.todo = ids]
      <3>1. ids \subseteq Abandoned /\ Abandoned \subseteq Ids
        BY DEF Batch, Abandoned, Orphaned
      <3>2. /\ y \in RecoverType /\ y.at = "next" /\ y.todo = ids /\ y.claimed = x.claimed
            /\ recover' = [recover EXCEPT ![r] = y]
        BY <1>1, <2>3, <3>1 DEF RecoverFits, RecoverType
      <3> HIDE DEF y
      <3>3. RecoverFits(y)
        BY <3>2 DEF RecoverFits, AtJob
      <3> QED BY <1>1, <1>2, <1>3, <3>2, <3>3, RecoverMoves
    <2> QED BY <1>4, <2>2, <2>3 DEF RecoverScan
  <1>5. CASE RecoverNext(r)
    <2>1. PICK id \in x.todo : recover' = [recover EXCEPT ![r].at = "get", ![r].id = id, ![r].todo = @ \ {id}]
      BY <1>5 DEF RecoverNext
    <2> DEFINE y == [x EXCEPT !.at = "get", !.id = id, !.todo = @ \ {id}]
    <2>2. id \in Ids
      BY <1>1, <2>1 DEF RecoverFits, RecoverType
    <2>3. /\ y \in RecoverType /\ y.at = "get" /\ y.id = id /\ y.todo = x.todo \ {id}
          /\ y.claimed = x.claimed /\ recover' = [recover EXCEPT ![r] = y]
      BY <1>1, <2>1, <2>2 DEF RecoverFits, RecoverType
    <2> HIDE DEF y
    <2>4. RecoverFits(y)
      BY <2>2, <2>3 DEF RecoverFits
    <2> QED BY <1>1, <1>2, <1>3, <2>3, <2>4, RecoverMoves
  <1>6. CASE RecoverGet(r)
    <2>1. x.at = "get" /\ x.id \in Ids
      BY <1>1, <1>6 DEF RecoverGet, RecoverFits, AtJob
    <2>2. CASE RecoverAt(r, "next")
      BY <1>2, <1>3, <2>2, RecoverAtInv
    <2>3. CASE recover' = [recover EXCEPT ![r].at = "check", ![r].attempts = row[x.id].attempts]
      <3> DEFINE n == row[x.id].attempts
                 y == [x EXCEPT !.at = "check", !.attempts = n]
      <3>1. n \in Nat
        BY <1>1, <2>1 DEF RowType
      <3>2. recover' = [recover EXCEPT ![r] = y]
        BY <1>1, <2>3 DEF RecoverFits, RecoverType
      <3> HIDE DEF n
      <3>3. /\ y \in RecoverType /\ y.at = "check" /\ y.id = x.id /\ y.todo = x.todo
            /\ y.claimed = x.claimed
        BY <1>1, <3>1 DEF RecoverFits, RecoverType
      <3> HIDE DEF y
      <3>4. RecoverFits(y)
        BY <2>1, <3>3 DEF RecoverFits
      <3> QED BY <1>1, <1>2, <1>3, <3>2, <3>4, RecoverMoves
    <2> QED BY <1>6, <2>2, <2>3 DEF RecoverGet
  <1>7. CASE RecoverCheck(r)
    <2>1. x.at \in AtJob /\ (RecoverAt(r, "claim") \/ RecoverAt(r, "fail"))
      BY <1>7 DEF RecoverCheck, AtJob
    <2> QED BY <1>2, <1>3, <2>1, RecoverAtInv
  <1> QED BY <1>4, <1>5, <1>6, <1>7

LEMMA RecoverActInv ==
    ASSUME IInv, NEW r \in Passes,
           RecoverFail(r) \/ RecoverFailed(r) \/ RecoverClaim(r) \/ Requeue(r) \/ RecoverDone(r)
    PROVE  Steady
  <1> DEFINE x == recover[r]
  <1>1. /\ RecoverFits(x) /\ recover \in [Passes -> RecoverType] /\ row \in [Ids -> RowType]
        /\ {input, result, claims, feeding} \subseteq SUBSET Ids
    BY KnowsTyped
  <1>2. x.at # "idle" /\ RecoverFrame /\ (UNCHANGED bounds \/ Fault)
        /\ input' \subseteq input /\ result' \subseteq result
    BY DEF RecoverFail, RecoverFailed, RecoverClaim, Requeue, RecoverDone, RecoverFrame,
           RemoveInput, RemoveAll, persistent, manager
  <1>3. x.at \in AtJob => x.id \in Ids
    BY <1>1 DEF RecoverFits
  <1>4. RowKept => StoreChanges
    BY <1>1, <1>2, FaultTyped DEF StoreChanges
  <1>5. CASE RecoverFail(r)
    <2>1. x.at \in AtJob /\ UNCHANGED <<feeding, claims, up>>
      BY <1>5 DEF RecoverFail, AtJob, manager
    <2>2. RowKept
      BY <1>3, <1>5, <2>1, UpdateKept, RowSame DEF RecoverFail, Statuses
    <2>3. RecoverAt(r, "clean") \/ RecoverAt(r, "discard")
      BY <1>5 DEF RecoverFail
    <2> QED BY <1>2, <1>4, <2>1, <2>2, <2>3, RecoverAtInv
  <1>6. CASE RecoverFailed(r)
    <2>1. RecoverAt(r, "next") /\ UNCHANGED <<row, feeding, claims, up>>
      BY <1>6 DEF RecoverFailed, manager
    <2> QED BY <1>2, <1>4, <2>1, RowSame, RecoverAtInv
  <1>7. CASE RecoverClaim(r)
    <2>1. x.at \in AtJob /\ UNCHANGED <<row, feeding, up>>
      BY <1>7 DEF RecoverClaim, AtJob, persistent
    <2>2. \/ RecoverAt(r, "next") /\ claims' \subseteq claims
          \/ RecoverAt(r, "requeue") /\ claims' = claims \union {x.id}
      BY <1>7 DEF RecoverClaim
    <2> QED BY <1>2, <1>4, <2>1, <2>2, RowSame, RecoverAtInv
  <1>8. CASE Requeue(r)
    <2>1. x.at = "requeue" /\ UNCHANGED <<feeding, up>> /\ x.at \in AtJob
      BY <1>8 DEF Requeue, AtJob
    <2>2. CASE claims' = claims \ {x.id} /\ RecoverAt(r, "next") /\ UNCHANGED row
      BY <1>2, <1>4, <2>1, <2>2, RowSame, RecoverAtInv
    <2>3. CASE /\ Update(x.id, "notStarted", TRUE) /\ UNCHANGED claims
               /\ recover' = [recover EXCEPT ![r].at = "next", ![r].claimed = @ \union {x.id}]
      <3> DEFINE y == [x EXCEPT !.at = "next", !.claimed = @ \union {x.id}]
      <3>1. RowKept
        BY <1>3, <2>1, <2>3, UpdateKept DEF Statuses
      <3>2. /\ y \in RecoverType /\ y.at = "next" /\ y.todo = x.todo /\ y.claimed = x.claimed \union {x.id}
            /\ recover' = [recover EXCEPT ![r] = y]
        BY <1>1, <1>3, <2>1, <2>3 DEF RecoverFits, RecoverType
      <3> HIDE DEF y
      <3>3. RecoverFits(y)
        BY <3>2 DEF RecoverFits, AtJob
      <3> QED BY <1>1, <1>2, <1>4, <2>1, <2>3, <3>1, <3>2, <3>3, RecoverMoves
    <2> QED BY <1>8, <2>2, <2>3 DEF Requeue
  <1>9. CASE RecoverDone(r)
    <2>1. /\ recover' = [recover EXCEPT ![r] = Resting] /\ feeding' = feeding \union x.claimed
          /\ UNCHANGED <<row, claims>>
          /\ UNCHANGED up \/ (r = "boot" /\ up' = "serving")
      BY <1>9 DEF RecoverDone, persistent
    <2>2. RecoverFits(Resting) /\ Resting.at = "idle" /\ Seen(Resting) = {}
      BY RestingTyped DEF Seen, AtJob
    <2>3. {claims', feeding'} \subseteq SUBSET Ids
      BY <1>1, <2>1 DEF RecoverFits, RecoverType
    <2> QED BY <1>2, <1>4, <2>1, <2>2, <2>3, RowSame, RecoverMoves
  <1> QED BY <1>5, <1>6, <1>7, <1>8, <1>9

-----------------------------------------------------------------------------
(* The sweeper, crashes and restarts *)

LEMMA SweepAtTyped ==
    ASSUME sweep \in SweepType, NEW todo \in SUBSET Ids,
           NEW step \in {"expire", "orphans", "reclaim", "evict"}, SweepAt(step, todo)
    PROVE  sweep' \in SweepType
  BY DEF SweepAt, SweepType

LEMMA SweepInv ==
    ASSUME IInv, SweepBegins \/ SweepStep
    PROVE  Steady
  <1>1. /\ row \in [Ids -> RowType] /\ {input, result, aged, expired, purging} \subseteq SUBSET Ids
        /\ sweep \in SweepType
    BY DEF IInv, Typed, StoreTyped
  <1>2. CASE SweepBegins
    <2>1. UNCHANGED <<persistent, purging, manager, submit, syncs, worker, recover, up>>
          /\ (UNCHANGED bounds \/ Fault)
      BY <1>2 DEF SweepBegins
    <2>2. sweep' \in SweepType
      <3>1. Collectable \in SUBSET Ids
        BY <1>1 DEF Collectable
      <3> QED BY <1>1, <1>2, <3>1, SweepAtTyped DEF SweepBegins
    <2>3. RowKept
      BY <2>1, RowSame DEF persistent
    <2> QED BY <1>1, <2>1, <2>2, <2>3, FaultTyped, Bystander DEF persistent
  <1>3. CASE SweepDelete
    <2>1. PICK id \in sweep.todo :
              \/ /\ row' = [row EXCEPT ![id] = NoRow]
                 /\ sweep' = [sweep EXCEPT !.todo = @ \ {id}, !.id = id,
                              !.at = IF @ = "expire" THEN "expireBlobs" ELSE "evictBlobs"]
              \/ SweepSkip(id) /\ UNCHANGED row
      BY <1>3 DEF SweepDelete
    <2>2. id \in Ids
      BY <1>1, <2>1 DEF SweepType
    <2>3. RowKept
      BY <2>1, <2>2, RowGone, RowSame
    <2>4. sweep' \in SweepType
      BY <1>1, <2>1, <2>2 DEF SweepType, SweepSkip
    <2>5. UNCHANGED <<input, result, aged, expired, purging, manager, submit, syncs, worker, recover, up>>
          /\ (UNCHANGED bounds \/ Fault)
      BY <1>3 DEF SweepDelete
    <2> QED BY <1>1, <2>3, <2>4, <2>5, FaultTyped, Bystander
  <1>4. CASE SweepDeleteBlobs
    <2>1. UNCHANGED <<row, aged, expired, purging, manager, submit, syncs, worker, recover, up, bounds>>
      BY <1>4 DEF SweepDeleteBlobs
    <2>2. sweep' \in SweepType /\ {input', result'} \subseteq SUBSET Ids
      BY <1>1, <1>4 DEF SweepDeleteBlobs, SweepType, RemoveAll
    <2> QED BY <1>1, <2>1, <2>2, RowSame, FaultTyped, Bystander
  <1>5. CASE OrphansBegin \/ EvictBegins \/ SweepEnds
    <2>1. UNCHANGED <<persistent, purging, manager, submit, syncs, worker, recover, up, bounds>>
      BY <1>5 DEF OrphansBegin, EvictBegins, SweepEnds
    <2>2. sweep' \in SweepType
      <3>1. CASE OrphansBegin
        <4>1. input \union result \in SUBSET Ids
          BY <1>1
        <4> QED BY <1>1, <3>1, <4>1, SweepAtTyped DEF OrphansBegin
      <3>2. CASE EvictBegins
        BY <1>1, <3>2, SweepAtTyped DEF EvictBegins
      <3>3. CASE SweepEnds
        BY <3>3, RestingTyped DEF SweepEnds
      <3> QED BY <1>5, <3>1, <3>2, <3>3
    <2>3. RowKept
      BY <2>1, RowSame DEF persistent
    <2> QED BY <1>1, <2>1, <2>2, <2>3, FaultTyped, Bystander DEF persistent
  <1>6. CASE SweepOrphan
    <2>1. PICK id \in sweep.todo : SweepSkip(id)
      BY <1>6 DEF SweepOrphan
    <2>2. sweep' \in SweepType
      BY <1>1, <2>1 DEF SweepType, SweepSkip
    <2>3. UNCHANGED <<row, aged, expired, purging, manager, submit, syncs, worker, recover, up>>
          /\ (UNCHANGED bounds \/ Fault) /\ {input', result'} \subseteq SUBSET Ids
      BY <1>1, <1>6 DEF SweepOrphan, RemoveAll
    <2> QED BY <1>1, <2>2, <2>3, RowSame, FaultTyped, Bystander
  <1>7. CASE ReclaimBegins
    <2>1. UNCHANGED <<persistent, manager, submit, purging, syncs, worker, up, bounds>>
          /\ SweepAt("reclaim", {})
      BY <1>7 DEF ReclaimBegins
    <2>2. sweep' \in SweepType
      BY <1>1, <2>1, SweepAtTyped
    <2>3. CASE UNCHANGED recover
      <3>1. RowKept
        BY <2>1, RowSame DEF persistent
      <3> QED BY <1>1, <2>1, <2>2, <2>3, <3>1, FaultTyped, Bystander DEF persistent
    <2>4. CASE RecoverAt("sweep", "scan")
      <3> DEFINE y == [recover["sweep"] EXCEPT !.at = "scan"]
      <3>1. recover \in [{"boot", "sweep"} -> RecoverType]
        BY DEF IInv, Typed, RecoverTyped
      <3>2. y \in RecoverType /\ y.at = "scan" /\ recover' = [recover EXCEPT !["sweep"] = y]
        BY <2>4, <3>1 DEF RecoverAt, RecoverType
      <3> HIDE DEF y
      <3>3. RecoverTyped' /\ recover'["boot"] = recover["boot"]
        BY <3>1, <3>2 DEF IInv, Typed, RecoverTyped, RecoverFits, AtJob
      <3>4. StoreTyped' /\ ManagerTyped' /\ FrontTyped' /\ WorkersTyped'
        BY <2>1 DEF IInv, Typed, StoreTyped, ManagerTyped, FrontTyped, WorkersTyped, WorkerFits,
                    persistent, manager, bounds
      <3>5. Old'
        BY <2>1, <2>4, <3>3 DEF IInv, Old, persistent, HasRow
      <3>6. Balanced
        BY <2>1 DEF IInv, Accounted, Held, Balanced, Exact, manager
      <3> QED BY <2>2, <3>3, <3>4, <3>5, <3>6 DEF IInv, Typed, Steady, Balanced
    <2> QED BY <1>7, <2>3, <2>4 DEF ReclaimBegins
  <1> QED BY <1>2, <1>3, <1>4, <1>5, <1>6, <1>7 DEF SweepStep

LEMMA CrashInv ==
    ASSUME IInv, Crash
    PROVE  Steady
  <1>1. /\ UNCHANGED <<row, input, result, aged, expired, faults>> /\ up' = "down" /\ crashes' = crashes + 1
        /\ submit' = [id \in Ids |-> IF submit[id] \in {"new", "acked"} THEN submit[id] ELSE "refused"]
        /\ purging' = {} /\ syncs' = 0 /\ admits' = 0 /\ queue' = <<>> /\ claims' = {} /\ feeding' = {}
        /\ worker' = [w \in Workers |-> Idle] /\ recover' = [r \in {"boot", "sweep"} |-> Resting]
        /\ sweep' = Asleep /\ crashes < MaxCrashes
    BY DEF Crash, persistent
  <1>2. Typed'
    <2>1. StoreTyped'
      BY <1>1 DEF IInv, Typed, StoreTyped
    <2>2. ManagerTyped'
      <3>1. <<>> \in Seq(Ids) /\ Len(<<>>) = 0
        OBVIOUS
      <3> QED BY <1>1, <3>1, CapacityTyped, BoundsAssumption DEF ManagerTyped
    <2>3. FrontTyped'
      BY <1>1, BoundsAssumption DEF IInv, Typed, FrontTyped
    <2>4. WorkersTyped'
      BY <1>1, RestingTyped DEF WorkersTyped, WorkerFits
    <2>5. RecoverTyped'
      BY <1>1, RestingTyped DEF RecoverTyped, RecoverFits
    <2> QED BY <1>1, <2>1, <2>2, <2>3, <2>4, <2>5, RestingTyped DEF Typed
  <1>3. Old'
    <2>1. recover'["boot"] = Resting /\ recover'["sweep"] = Resting /\ Seen(Resting) = {}
      BY <1>1, RestingTyped DEF Seen, AtJob
    <2>2. \A id \in Ids : /\ submit'[id] \in {"new", "acked", "refused"}
                          /\ HasRow(id)' => submit'[id] \in {"created", "acked", "refused"}
      BY <1>1 DEF IInv, Old, HasRow
    <2> QED BY <1>1, <2>1, <2>2, RestingTyped DEF Old
  <1>4. Balanced
    <2>1. \A id \in Ids : submit'[id] \notin UnderWay
      BY <1>1 DEF UnderWay
    <2>2. Cardinality(SubmitsOf(submit')) = 0 /\ Cardinality(HoldingOf(worker')) = 0
      BY <1>1, <2>1, NothingHeld, RestingTyped
    <2>3. Len(queue') = 0
      BY <1>1
    <2> QED BY <1>1, <2>2, <2>3 DEF Accounted, Held, Balanced, Exact
  <1> QED BY <1>2, <1>3, <1>4 DEF IInv, Steady, Balanced

LEMMA BootInv ==
    ASSUME IInv, Boot
    PROVE  Steady
  <1> DEFINE y == [recover["boot"] EXCEPT !.at = "scan"]
  <1>1. /\ UNCHANGED <<persistent, manager, submit, purging, syncs, worker, bounds>>
        /\ up = "down" /\ up' = "booting" /\ sweep' = [Asleep EXCEPT !.first = TRUE]
        /\ recover \in [{"boot", "sweep"} -> RecoverType]
    BY DEF Boot, IInv, Typed, RecoverTyped
  <1>2. /\ y \in RecoverType /\ y.at = "scan" /\ y.todo = recover["boot"].todo
        /\ y.claimed = recover["boot"].claimed /\ recover' = [recover EXCEPT !["boot"] = y]
    BY <1>1 DEF Boot, RecoverAt, RecoverType
  <1> HIDE DEF y
  <1>3. RecoverTyped' /\ recover'["sweep"] = recover["sweep"] /\ recover'["boot"] = y
    BY <1>1, <1>2 DEF IInv, Typed, RecoverTyped, RecoverFits, AtJob
  <1>4. StoreTyped' /\ ManagerTyped' /\ FrontTyped' /\ WorkersTyped'
    BY <1>1 DEF IInv, Typed, StoreTyped, ManagerTyped, FrontTyped, WorkersTyped, WorkerFits,
                persistent, manager, bounds
  <1>6. Old'
    BY <1>1, <1>3 DEF IInv, Old, persistent, manager, HasRow, Answered
  <1>7. Balanced
    BY <1>1 DEF IInv, Accounted, Held, Balanced, Exact, manager
  <1> QED BY <1>1, <1>3, <1>4, <1>6, <1>7, RestingTyped DEF IInv, Typed, Steady, Balanced

-----------------------------------------------------------------------------
(* The theorems *)

LEMMA NextSteady == IInv /\ [Next]_vars => Steady
  <1> SUFFICES ASSUME IInv, [Next]_vars PROVE Steady
    OBVIOUS
  <1>1. CASE UNCHANGED vars
    <2>1. UNCHANGED <<row, aged, input, result, expired, purging, sweep, bounds>>
          /\ UNCHANGED <<manager, submit, syncs, worker, recover, up>>
      BY <1>1 DEF vars, persistent, agents
    <2>2. {input, result, aged, expired, purging} \subseteq SUBSET Ids /\ sweep \in SweepType
      BY DEF IInv, Typed, StoreTyped
    <2> QED BY <2>1, <2>2, RowSame, FaultTyped, Bystander
  <1>2. CASE \E id \in Ids : Admit(id) \/ SubmitStep(id)
    BY <1>2, SubmitInv
  <1>3. CASE \E id \in Ids : DeleteRow(id) \/ DeleteBlobs(id)
    BY <1>3, DeleteInv
  <1>4. CASE SyncBegins \/ SyncEnds \/ \E id \in Ids : Feed(id)
    BY <1>4, SlotInv
  <1>5. CASE \E w \in Workers : WorkerStep(w)
    BY <1>5, WorkerStartInv, WorkerEndInv DEF WorkerStep
  <1>6. CASE \E r \in {"boot", "sweep"} : RecoverStep(r)
    BY <1>6, RecoverLookInv, RecoverActInv DEF RecoverStep, Passes
  <1>7. CASE SweepBegins \/ SweepStep
    BY <1>7, SweepInv
  <1>8. CASE \E id \in Ids : TimePasses(id)
    BY <1>8, TimeInv
  <1>9. CASE Crash \/ Boot
    BY <1>9, CrashInv, BootInv
  <1> QED BY <1>1, <1>2, <1>3, <1>4, <1>5, <1>6, <1>7, <1>8, <1>9 DEF Next

LEMMA NextIInv == IInv /\ [Next]_vars => IInv'
  BY NextSteady DEF Steady

LEMMA SpecIInv == Spec => []IInv
  BY InitInv, NextIInv, PTL DEF Spec

\* Every variable keeps its type.  That admits never falls below zero needs the
\* slots: none is given back twice, whatever crashes, fails or is reclaimed
\* (Manager.admits and Manager.release).
THEOREM TypeCorrect == Spec => []TypeOK
  <1>1. IInv => TypeOK
    <2> SUFFICES ASSUME IInv PROVE TypeOK
      OBVIOUS
    <2>1. admits \in 0 .. Capacity
      BY CountedTyped
    <2>2. /\ row \in [Ids -> RowType]
          /\ {input, result, aged, expired, purging, claims, feeding} \subseteq SUBSET Ids
          /\ up \in {"down", "booting", "serving"}
          /\ submit \in [Ids -> {"new", "admitted", "stored", "created", "acked", "refused"}]
          /\ syncs \in 0 .. MaxSyncs /\ queue \in Seq(Ids) /\ Len(queue) <= Capacity
          /\ crashes \in 0 .. MaxCrashes /\ faults \in 0 .. MaxFaults
      BY DEF IInv, Typed, StoreTyped, ManagerTyped, FrontTyped
    <2>3. worker \in [Workers -> WorkerType] /\ recover \in [{"boot", "sweep"} -> RecoverType]
          /\ sweep \in SweepType
      BY DEF IInv, Typed, WorkersTyped, RecoverTyped
    <2> QED BY <2>1, <2>2, <2>3 DEF TypeOK, RowType, WorkerType, RecoverType, SweepType
  <1> QED BY <1>1, SpecIInv, PTL

-----------------------------------------------------------------------------
(* Who knows of a job while its submit is under way: nobody else, if uploads
   are prompt *)

InQueue(id) == \E i \in 1 .. Len(queue) : queue[i] = id
AtWork(id) == \E w \in Workers : worker[w].at # "idle" /\ worker[w].id = id
Fresh(y) == y.status \in {"none", "notStarted"}

Mentioned(id) ==
    \/ \E r \in Passes : id \in Seen(recover[r])
    \/ InQueue(id) \/ AtWork(id) \/ id \in feeding \/ id \in claims
    \/ ~Fresh(row[id])
Known == \A id \in Ids : Mentioned(id) => Answered(id)

\* An id comes into the queue at its end and leaves it at its head.
LEMMA QueueEnds ==
    ASSUME queue \in Seq(Ids)
    PROVE  /\ \A id, j : id \in Ids /\ queue' = Append(queue, id) /\ InQueue(j)' => InQueue(j) \/ j = id
           /\ queue # <<>> => Head(queue) \in Ids /\ InQueue(Head(queue))
           /\ \A j : queue # <<>> /\ queue' = Tail(queue) /\ InQueue(j)' => InQueue(j)
  <1>1. ASSUME NEW id \in Ids, NEW j, queue' = Append(queue, id), InQueue(j)' PROVE InQueue(j) \/ j = id
    <2>1. PICK i \in 1 .. Len(queue') : queue'[i] = j
      BY <1>1 DEF InQueue
    <2>2. /\ Len(queue) \in Nat /\ Len(queue') = Len(queue) + 1
          /\ \A k \in 1 .. Len(queue) : queue'[k] = queue[k]
          /\ queue'[Len(queue) + 1] = id
      BY <1>1, AppendProperties, LenProperties
    <2>3. i \in 1 .. Len(queue) \/ i = Len(queue) + 1
      BY <2>1, <2>2
    <2> QED BY <2>1, <2>2, <2>3 DEF InQueue
  <1>2. ASSUME queue # <<>> PROVE Head(queue) \in Ids /\ InQueue(Head(queue))
    <2>1. Len(queue) \in Nat \ {0} /\ Head(queue) = queue[1] /\ Head(queue) \in Ids
      BY <1>2, HeadTailProperties, LenProperties, EmptySeq
    <2>2. 1 \in 1 .. Len(queue)
      BY <2>1
    <2> QED BY <2>1, <2>2 DEF InQueue
  <1>3. ASSUME NEW j, queue # <<>>, queue' = Tail(queue), InQueue(j)' PROVE InQueue(j)
    <2>1. PICK i \in 1 .. Len(queue') : queue'[i] = j
      BY <1>3 DEF InQueue
    <2>2. /\ Len(queue) \in Nat \ {0} /\ Len(queue') = Len(queue) - 1
          /\ \A k \in 1 .. Len(queue') : queue'[k] = queue[k + 1]
      BY <1>3, HeadTailProperties, LenProperties, EmptySeq
    <2>3. i + 1 \in 1 .. Len(queue) /\ queue[i + 1] = j
      BY <2>1, <2>2
    <2> QED BY <2>3 DEF InQueue
  <1> QED BY <1>1, <1>2, <1>3

\* Who is mentioned after a step was before it, or is answered now.
LEMMA KnownFrom ==
    ASSUME Known, \A id \in Ids : Answered(id) => Answered(id)',
           \A id \in Ids : Mentioned(id)' => Mentioned(id) \/ Answered(id)'
    PROVE  Known'
  BY DEF Known

LEMMA KnownInit == Init => Known
  <1> SUFFICES ASSUME Init, NEW id \in Ids, Mentioned(id) PROVE FALSE
    BY DEF Known
  <1>1. /\ recover["boot"] = Resting /\ recover["sweep"] = Resting /\ queue = <<>>
        /\ feeding = {} /\ claims = {} /\ row[id] = NoRow /\ \A w \in Workers : worker[w] = Idle
    BY DEF Init
  <1>2. Seen(Resting) = {} /\ Fresh(NoRow) /\ Idle.at = "idle"
    BY RestingTyped DEF Seen, AtJob, Fresh, NoRow
  <1>3. ~InQueue(id)
    BY <1>1 DEF InQueue
  <1> QED BY <1>1, <1>2, <1>3 DEF Mentioned, AtWork, Passes

\* A row that changes keeps its status, is that of a job mentioned, or is new.
RowMentioned == \A j \in Ids : ~Fresh(row'[j]) => Mentioned(j)

LEMMA UpdateMentioned ==
    ASSUME IInv, NEW id \in Ids, Mentioned(id), NEW z, row' = [row EXCEPT ![id] = z] \/ UNCHANGED row
    PROVE  RowMentioned
  BY DEF RowMentioned, IInv, Typed, StoreTyped, Mentioned

LEMMA KnownWorker ==
    ASSUME IInv, Known, NEW w \in Workers, WorkerStep(w)
    PROVE  Known'
  <1> DEFINE x == worker[w]
  <1>0. WorkerFits(x) /\ worker \in [Workers -> WorkerType] /\ queue \in Seq(Ids) /\ row \in [Ids -> RowType]
    BY DEF IInv, Typed, WorkersTyped, ManagerTyped, StoreTyped
  <1>1. UNCHANGED <<submit, recover, feeding>> /\ claims' \subseteq claims
    BY DEF WorkerStep, TakeJob, GetJob, MarkRunning, EngineReturns, EnginePanics, WriteResult, Succeed,
           Fail, RunEnds, Finished, persistent, manager
  <1>2. CASE TakeJob(w)
    <2> DEFINE h == Head(queue)
               y == [Idle EXCEPT !.at = "get", !.id = h]
    <2>1. queue # <<>> /\ queue' = Tail(queue) /\ worker' = [worker EXCEPT ![w] = y] /\ UNCHANGED row
      BY <1>2 DEF TakeJob, persistent
    <2>2. y.id = h
      BY DEF Idle
    <2> HIDE DEF y
    <2>3. \A id \in Ids : AtWork(id)' => AtWork(id) \/ id = h
      BY <1>0, <2>1, <2>2 DEF AtWork
    <2> HIDE DEF h
    <2>4. InQueue(h) /\ \A id \in Ids : InQueue(id)' => InQueue(id)
      BY <1>0, <2>1, QueueEnds DEF h
    <2>5. \A id \in Ids : Mentioned(id)' => Mentioned(id)
      BY <1>1, <2>1, <2>3, <2>4 DEF Mentioned
    <2> QED BY <1>1, <2>5, KnownFrom DEF Answered
  <1>3. CASE ~TakeJob(w)
    <2>1. x.at # "idle" /\ x.id \in Ids /\ UNCHANGED queue
      BY <1>0, <1>3 DEF WorkerStep, GetJob, MarkRunning, EngineReturns, EnginePanics, WriteResult, Succeed,
           Fail, RunEnds, WorkerFits, manager
    <2>2. Mentioned(x.id)
      BY <2>1 DEF Mentioned, AtWork
    <2>3. RowMentioned
      <3>1. \E z : row' = [row EXCEPT ![x.id] = z] \/ UNCHANGED row
        BY <1>0, <1>3, <2>1 DEF WorkerStep, GetJob, MarkRunning, MarkedRunning, EngineReturns, EnginePanics,
           WriteResult, Succeed, Fail, RunEnds, Update, RowType, persistent
      <3> QED BY <2>1, <2>2, <3>1, UpdateMentioned
    <2>4. \A id \in Ids : AtWork(id)' => AtWork(id)
      <3>1. \E y : worker' = [worker EXCEPT ![w] = y] /\ (y.at = "idle" \/ y.id = x.id)
        <4>1. CASE Finished(w)
          BY <4>1, RestingTyped DEF Finished
        <4>2. CASE \E step : WorkerAt(w, step)
          <5>1. PICK step : WorkerAt(w, step)
            BY <4>2
          <5>2. [x EXCEPT !.at = step].id = x.id /\ worker' = [worker EXCEPT ![w] = [x EXCEPT !.at = step]]
            BY <1>0, <5>1 DEF WorkerAt, WorkerFits, WorkerType
          <5> QED BY <5>2
        <4>3. CASE MarkRunning(w) /\ ~Finished(w)
          <5> DEFINE b == x.id \in input
                     y == [x EXCEPT !.at = "run", !.sawInput = b]
          <5>1. worker' = [worker EXCEPT ![w] = y]
            BY <1>0, <4>3 DEF MarkRunning
          <5>2. y.id = x.id
            BY <1>0 DEF WorkerFits, WorkerType
          <5> QED BY <5>1, <5>2
        <4>4. CASE EnginePanics(w)
          <5> DEFINE y == [x EXCEPT !.at = "fail", !.released = TRUE]
          <5>1. worker' = [worker EXCEPT ![w] = y]
            BY <1>0, <4>4 DEF EnginePanics
          <5>2. y.id = x.id
            BY <1>0 DEF WorkerFits, WorkerType
          <5> QED BY <5>1, <5>2
        <4> QED BY <1>3, <4>1, <4>2, <4>3, <4>4 DEF WorkerStep, GetJob, MarkRunning, EngineReturns,
                  WriteResult, Succeed, Fail, RunEnds
      <3> QED BY <1>0, <2>1, <3>1 DEF AtWork
    <2>5. \A id \in Ids : InQueue(id)' => InQueue(id)
      BY <2>1 DEF InQueue
    <2>6. \A id \in Ids : Mentioned(id)' => Mentioned(id)
      BY <1>1, <2>3, <2>4, <2>5 DEF Mentioned, RowMentioned
    <2> QED BY <1>1, <2>6, KnownFrom DEF Answered
  <1> QED BY <1>2, <1>3

\* A pass goes on, with jobs somebody knows of or whose submit is answered.
LEMMA KnownPass ==
    ASSUME IInv, Known, NEW r \in Passes, NEW y, recover' = [recover EXCEPT ![r] = y],
           \A id \in Ids : id \in Seen(y) \union claims' \union feeding' => Mentioned(id) \/ Answered(id),
           RowMentioned, UNCHANGED <<queue, worker, submit>>
    PROVE  Known'
  <1>1. recover \in [Passes -> RecoverType]
    BY KnowsTyped DEF Passes
  <1>2. \A id \in Ids : (InQueue(id)' <=> InQueue(id)) /\ (AtWork(id)' <=> AtWork(id))
    BY DEF InQueue, AtWork
  <1>3. ASSUME NEW id \in Ids, Mentioned(id)' PROVE Mentioned(id) \/ Answered(id)
    <2>1. CASE \E p \in Passes : id \in Seen(recover'[p])
      <3>1. PICK p \in Passes : id \in Seen(recover'[p])
        BY <2>1
      <3>2. recover'[p] = y \/ recover'[p] = recover[p]
        BY <1>1
      <3> QED BY <3>1, <3>2 DEF Mentioned
    <2>2. CASE ~\E p \in Passes : id \in Seen(recover'[p])
      BY <1>2, <1>3, <2>2 DEF Mentioned, RowMentioned
    <2> QED BY <2>1, <2>2
  <1> QED BY <1>3, KnownFrom DEF Answered

LEMMA KnownPassAt ==
    ASSUME IInv, Known, NEW r \in Passes, NEW step, RecoverAt(r, step),
           step \notin AtJob \/ recover[r].at \in AtJob,
           claims' \subseteq claims \/ (recover[r].at \in AtJob /\ claims' = claims \union {recover[r].id}),
           RowMentioned, UNCHANGED <<feeding, queue, worker, submit>>
    PROVE  Known'
  <1> DEFINE x == recover[r]
             y == [x EXCEPT !.at = step]
  <1>1. /\ recover' = [recover EXCEPT ![r] = y] /\ y.at = step /\ y.todo = x.todo
        /\ y.claimed = x.claimed /\ y.id = x.id
    BY KnowsTyped DEF RecoverFits, RecoverType, RecoverAt
  <1> HIDE DEF y
  <1>2. Seen(y) \subseteq Seen(x) /\ (x.at \in AtJob => x.id \in Seen(x))
    BY <1>1 DEF Seen
  <1>3. \A id \in Ids : id \in Seen(y) \union claims' \union feeding' => Mentioned(id)
    BY <1>2 DEF Mentioned
  <1> QED BY <1>1, <1>3, KnownPass

LEMMA KnownPasses ==
    ASSUME IInv, Known, PromptUploads, NEW r \in Passes, RecoverStep(r)
    PROVE  Known'
  <1> DEFINE x == recover[r]
  <1>1. /\ RecoverFits(x) /\ recover \in [Passes -> RecoverType] /\ row \in [Ids -> RowType]
        /\ UNCHANGED <<queue, worker, submit>>
    BY KnowsTyped DEF RecoverStep, RecoverScan, RecoverNext, RecoverGet, RecoverCheck, RecoverFail,
           RecoverFailed, RecoverClaim, Requeue, RecoverDone, manager
  <1>2. x.at \in AtJob => x.id \in Ids /\ x.id \in Seen(x) /\ Mentioned(x.id)
    BY <1>1 DEF RecoverFits, Seen, Mentioned
  <1>3. UNCHANGED row => RowMentioned
    BY DEF RowMentioned, Mentioned
  <1>4. ASSUME x.at \in AtJob, NEW status, NEW leased, Update(x.id, status, leased) PROVE RowMentioned
    <2>1. \E z : row' = [row EXCEPT ![x.id] = z] \/ UNCHANGED row
      BY <1>1, <1>4 DEF Update, RowType
    <2> QED BY <1>2, <1>4, <2>1, UpdateMentioned
  <1>5. CASE RecoverScan(r)
    <2>1. x.at = "scan" /\ UNCHANGED <<row, claims, feeding>>
      BY <1>5 DEF RecoverScan, persistent, manager
    <2>2. CASE RecoverAt(r, "next")
      BY <1>1, <1>3, <2>1, <2>2, KnownPassAt DEF AtJob
    <2>3. ASSUME NEW ids \in Batch(IF r = "boot" THEN Abandoned ELSE Orphaned),
                 recover' = [recover EXCEPT ![r].at = "next", ![r].todo = ids]
          PROVE  Known'
      <3> DEFINE y == [x EXCEPT !.at = "next", !.todo = ids]
      <3>1. /\ y.at = "next" /\ y.todo = ids /\ y.claimed = x.claimed
            /\ recover' = [recover EXCEPT ![r] = y]
        BY <1>1, <2>3 DEF RecoverFits, RecoverType
      <3> HIDE DEF y
      <3>2. ASSUME NEW id \in ids PROVE id \in Ids /\ (Mentioned(id) \/ Answered(id))
        <4>1. id \in Abandoned /\ id \in Ids /\ row[id].status \in {"notStarted", "running"}
              /\ (r # "boot" => (row[id].status = "notStarted" => id \in aged))
          BY DEF Batch, Abandoned, Orphaned
        <4>2. row[id].status = "running" => Mentioned(id)
          BY <4>1 DEF Mentioned, Fresh
        <4>3. HasRow(id)
          BY <4>1 DEF HasRow, NoRow
        <4>4. submit[id] \in {"created", "acked", "refused"}
          BY <4>1, <4>3 DEF IInv, Old
        <4>5. r = "boot" => Answered(id)
          BY <2>1, <4>1, <4>4 DEF IInv, Old, Answered
        <4>6. id \in aged => Answered(id)
          BY <4>4 DEF PromptUploads, Answered
        <4> QED BY <4>1, <4>2, <4>5, <4>6
      <3>3. Seen(y) \subseteq ids \union Seen(x)
        BY <3>1 DEF Seen, AtJob
      <3>4. \A id \in Ids : id \in Seen(y) \union claims' \union feeding' => Mentioned(id) \/ Answered(id)
        BY <2>1, <3>2, <3>3 DEF Mentioned
      <3> QED BY <1>1, <1>3, <2>1, <3>1, <3>4, KnownPass
    <2> QED BY <1>5, <2>2, <2>3 DEF RecoverScan
  <1>6. CASE RecoverNext(r)
    <2>1. PICK id \in x.todo : recover' = [recover EXCEPT ![r].at = "get", ![r].id = id, ![r].todo = @ \ {id}]
      BY <1>6 DEF RecoverNext
    <2>2. UNCHANGED <<row, claims, feeding>>
      BY <1>6 DEF RecoverNext, persistent, manager
    <2> DEFINE y == [x EXCEPT !.at = "get", !.id = id, !.todo = @ \ {id}]
    <2>3. /\ y.at = "get" /\ y.id = id /\ y.todo = x.todo \ {id} /\ y.claimed = x.claimed
          /\ recover' = [recover EXCEPT ![r] = y]
      BY <1>1, <2>1 DEF RecoverFits, RecoverType
    <2> HIDE DEF y
    <2>4. Seen(y) \subseteq Seen(x)
      BY <2>1, <2>3 DEF Seen
    <2>5. \A j \in Ids : j \in Seen(y) \union claims' \union feeding' => Mentioned(j)
      BY <2>2, <2>4 DEF Mentioned
    <2> QED BY <1>1, <1>3, <2>2, <2>3, <2>5, KnownPass
  <1>7. CASE RecoverGet(r)
    <2>1. x.at = "get" /\ x.at \in AtJob /\ UNCHANGED <<row, claims, feeding>>
      BY <1>7 DEF RecoverGet, AtJob, persistent, manager
    <2>2. CASE RecoverAt(r, "next")
      BY <1>1, <1>3, <2>1, <2>2, KnownPassAt
    <2>3. CASE recover' = [recover EXCEPT ![r].at = "check", ![r].attempts = row[x.id].attempts]
      <3> DEFINE n == row[x.id].attempts
                 y == [x EXCEPT !.at = "check", !.attempts = n]
      <3>1. /\ recover' = [recover EXCEPT ![r] = y] /\ y.id = x.id /\ y.todo = x.todo /\ y.claimed = x.claimed
        BY <1>1, <2>3 DEF RecoverFits, RecoverType
      <3> HIDE DEF y
      <3>2. Seen(y) \subseteq Seen(x)
        BY <2>1, <3>1 DEF Seen
      <3>3. \A j \in Ids : j \in Seen(y) \union claims' \union feeding' => Mentioned(j)
        BY <2>1, <3>2 DEF Mentioned
      <3> QED BY <1>1, <1>3, <2>1, <3>1, <3>3, KnownPass
    <2> QED BY <1>7, <2>2, <2>3 DEF RecoverGet
  <1>8. CASE RecoverCheck(r) \/ RecoverFailed(r)
    <2>1. x.at \in AtJob /\ UNCHANGED <<row, claims, feeding>>
          /\ \E step \in {"next", "claim", "fail"} : RecoverAt(r, step)
      BY <1>8 DEF RecoverCheck, RecoverFailed, AtJob, persistent, manager
    <2> QED BY <1>1, <1>3, <2>1, KnownPassAt
  <1>9. CASE RecoverFail(r)
    <2>1. x.at \in AtJob /\ UNCHANGED <<claims, feeding>>
          /\ \E step \in {"clean", "discard"} : RecoverAt(r, step)
      BY <1>9 DEF RecoverFail, AtJob, manager
    <2>2. RowMentioned
      BY <1>3, <1>4, <1>9, <2>1 DEF RecoverFail
    <2> QED BY <1>1, <2>1, <2>2, KnownPassAt
  <1>10. CASE RecoverClaim(r)
    <2>1. x.at \in AtJob /\ UNCHANGED <<row, feeding>>
      BY <1>10 DEF RecoverClaim, AtJob, persistent
    <2>2. /\ claims' = claims \/ claims' = claims \union {x.id}
          /\ \E step \in {"next", "requeue"} : RecoverAt(r, step)
      BY <1>10 DEF RecoverClaim
    <2> QED BY <1>1, <1>3, <2>1, <2>2, KnownPassAt
  <1>11. CASE Requeue(r)
    <2>1. x.at = "requeue" /\ x.at \in AtJob /\ UNCHANGED feeding
      BY <1>11 DEF Requeue, AtJob
    <2>2. CASE claims' = claims \ {x.id} /\ RecoverAt(r, "next") /\ UNCHANGED row
      BY <1>1, <1>3, <2>1, <2>2, KnownPassAt
    <2>3. CASE /\ Update(x.id, "notStarted", TRUE) /\ UNCHANGED claims
               /\ recover' = [recover EXCEPT ![r].at = "next", ![r].claimed = @ \union {x.id}]
      <3> DEFINE y == [x EXCEPT !.at = "next", !.claimed = @ \union {x.id}]
      <3>1. /\ y.at = "next" /\ y.todo = x.todo /\ y.claimed = x.claimed \union {x.id}
            /\ recover' = [recover EXCEPT ![r] = y]
        BY <1>1, <2>3 DEF RecoverFits, RecoverType
      <3> HIDE DEF y
      <3>2. Seen(y) \subseteq Seen(x)
        BY <1>2, <2>1, <3>1 DEF Seen, AtJob
      <3>3. \A j \in Ids : j \in Seen(y) \union claims' \union feeding' => Mentioned(j)
        BY <2>1, <2>3, <3>2 DEF Mentioned
      <3> QED BY <1>1, <1>4, <2>1, <2>3, <3>1, <3>3, KnownPass
    <2> QED BY <1>11, <2>2, <2>3 DEF Requeue
  <1>12. CASE RecoverDone(r)
    <2>1. /\ recover' = [recover EXCEPT ![r] = Resting] /\ feeding' = feeding \union x.claimed
          /\ UNCHANGED <<row, claims>>
      BY <1>12 DEF RecoverDone, persistent
    <2>2. Seen(Resting) = {} /\ x.claimed \subseteq Seen(x)
      BY RestingTyped DEF Seen, AtJob
    <2>3. \A j \in Ids : j \in Seen(Resting) \union claims' \union feeding' => Mentioned(j)
      BY <2>1, <2>2 DEF Mentioned
    <2> QED BY <1>1, <1>3, <2>1, <2>3, KnownPass
  <1> QED BY <1>5, <1>6, <1>7, <1>8, <1>9, <1>10, <1>11, <1>12 DEF RecoverStep

\* A submit makes its job known with its answer, and feed hands on what it has.
LEMMA KnownSubmit ==
    ASSUME IInv, Known, NEW id \in Ids, Admit(id) \/ SubmitStep(id) \/ Feed(id)
    PROVE  Known'
  <1>1. /\ UNCHANGED <<worker, recover>> /\ queue \in Seq(Ids) /\ row \in [Ids -> RowType] /\ Submitted
        /\ feeding' \subseteq feeding
    BY DEF Admit, SubmitStep, StoreInput, StoreInputFails, CreateRow, CreateRowFails, Refuse, Enqueue, Feed,
           manager, IInv, Typed, StoreTyped, ManagerTyped, FrontTyped, Submitted
  <1>2. UNCHANGED submit \/ (~Answered(id) /\ \E step : SubmitAt(id, step))
    BY DEF Admit, SubmitStep, StoreInput, StoreInputFails, CreateRow, CreateRowFails, Refuse, Enqueue, Feed,
           Answered
  <1>3. \A j \in Ids : Answered(j) => Answered(j)'
    BY <1>1, <1>2 DEF Answered, SubmitAt, Submitted
  <1>4. \A j \in Ids : ~Fresh(row'[j]) => ~Fresh(row[j])
    <2>1. UNCHANGED row \/ CreateRow(id)
      BY DEF Admit, SubmitStep, StoreInput, StoreInputFails, CreateRowFails, Refuse, Enqueue, Feed, persistent
    <2> QED BY <1>1, <2>1 DEF CreateRow, Fresh
  <1>5. \A j \in Ids : InQueue(j)' => InQueue(j) \/ (j = id /\ (id \in feeding \/ Answered(id)'))
    <2>1. UNCHANGED queue \/ (queue' = Append(queue, id) /\ (id \in feeding \/ SubmitAt(id, "acked")))
      BY DEF Admit, SubmitStep, StoreInput, StoreInputFails, CreateRow, CreateRowFails, Refuse, Enqueue, Feed,
             manager
    <2>2. CASE UNCHANGED queue
      BY <2>2 DEF InQueue
    <2>3. CASE queue' = Append(queue, id) /\ (id \in feeding \/ SubmitAt(id, "acked"))
      <3>1. SubmitAt(id, "acked") => Answered(id)'
        BY <1>1 DEF SubmitAt, Submitted, Answered
      <3>2. \A j \in Ids : InQueue(j)' => InQueue(j) \/ j = id
        BY <1>1, <2>3, QueueEnds
      <3> QED BY <2>3, <3>1, <3>2
    <2> QED BY <2>1, <2>2, <2>3
  <1>6. \A j \in Ids : j \in claims' => j \in claims \/ (j = id /\ Answered(id)')
    <2>1. UNCHANGED claims \/ (claims' = claims \union {id} /\ SubmitAt(id, "acked"))
      BY DEF Admit, SubmitStep, StoreInput, StoreInputFails, CreateRow, CreateRowFails, Refuse, Enqueue, Feed,
             manager
    <2>2. SubmitAt(id, "acked") => Answered(id)'
      BY <1>1 DEF SubmitAt, Submitted, Answered
    <2> QED BY <2>1, <2>2
  <1>7. \A j \in Ids : AtWork(j)' <=> AtWork(j)
    BY <1>1 DEF AtWork
  <1>8. \A j \in Ids : Mentioned(j)' => Mentioned(j) \/ Answered(j)'
    BY <1>1, <1>4, <1>5, <1>6, <1>7 DEF Mentioned
  <1> QED BY <1>3, <1>8, KnownFrom

\* Nobody gets to know a job from a step that only removes, or lets time pass.
LEMMA KnownStays ==
    ASSUME IInv, Known, UNCHANGED <<submit, worker, recover, queue, claims, feeding>>,
           \A j \in Ids : ~Fresh(row'[j]) => ~Fresh(row[j])
    PROVE  Known'
  <1>1. \A j \in Ids : (InQueue(j)' <=> InQueue(j)) /\ (AtWork(j)' <=> AtWork(j))
    BY DEF InQueue, AtWork
  <1>2. \A j \in Ids : Mentioned(j)' => Mentioned(j)
    BY <1>1 DEF Mentioned
  <1> QED BY <1>2, KnownFrom DEF Answered

LEMMA KnownOthers ==
    ASSUME IInv, Known,
           \/ \E id \in Ids : DeleteRow(id) \/ DeleteBlobs(id) \/ TimePasses(id)
           \/ SyncBegins \/ SyncEnds \/ SweepBegins \/ SweepStep \/ Boot \/ UNCHANGED vars
    PROVE  Known'
  <1>1. UNCHANGED <<submit, worker, queue, claims, feeding>>
    BY DEF DeleteRow, DeleteBlobs, TimePasses, Age, Expire, LeaseLapses, SyncBegins, SyncEnds, SweepBegins,
           SweepStep, SweepDelete, SweepDeleteBlobs, OrphansBegin, SweepOrphan, ReclaimBegins, EvictBegins,
           SweepEnds, Boot, vars, manager, agents
  <1>2. row \in [Ids -> RowType] /\ recover \in [Passes -> RecoverType] /\ sweep.todo \subseteq Ids
    BY DEF IInv, Typed, StoreTyped, RecoverTyped, Passes, SweepType
  <1>3. \A j \in Ids : ~Fresh(row'[j]) => ~Fresh(row[j])
    <2>1. \/ UNCHANGED row \/ \E id \in Ids : row' = [row EXCEPT ![id] = NoRow]
          \/ \E id \in Ids : row' = [row EXCEPT ![id].leased = FALSE]
      BY <1>2 DEF DeleteRow, DeleteBlobs, TimePasses, Age, Expire, LeaseLapses, SyncBegins, SyncEnds,
           SweepBegins, SweepStep, SweepDelete, SweepDeleteBlobs, OrphansBegin, SweepOrphan, ReclaimBegins,
           EvictBegins, SweepEnds, Boot, vars, persistent
    <2>2. Fresh(NoRow)
      BY DEF Fresh, NoRow
    <2>3. ASSUME NEW id \in Ids, row' = [row EXCEPT ![id].leased = FALSE], NEW j \in Ids
          PROVE  row'[j].status = row[j].status
      BY <1>2, <2>3 DEF RowType
    <2> QED BY <1>2, <2>1, <2>2, <2>3 DEF Fresh
  <1>4. CASE UNCHANGED recover
    BY <1>1, <1>3, <1>4, KnownStays
  <1>5. ASSUME NEW r \in Passes, RecoverAt(r, "scan") PROVE Known'
    <2>1. RowMentioned
      BY <1>3 DEF RowMentioned, Mentioned
    <2> QED BY <1>1, <1>5, <2>1, KnownPassAt DEF AtJob
  <1>6. UNCHANGED recover \/ \E r \in Passes : RecoverAt(r, "scan")
    BY DEF DeleteRow, DeleteBlobs, TimePasses, Age, Expire, LeaseLapses, SyncBegins, SyncEnds, SweepBegins,
           SweepStep, SweepDelete, SweepDeleteBlobs, OrphansBegin, SweepOrphan, ReclaimBegins, EvictBegins,
           SweepEnds, Boot, vars, agents, Passes
  <1> QED BY <1>4, <1>5, <1>6

LEMMA KnownCrash == ASSUME IInv, Known, Crash PROVE Known'
  <1>1. /\ \A r \in Passes : recover'[r] = Resting
        /\ \A w \in Workers : worker'[w] = Idle
        /\ queue' = <<>> /\ feeding' = {} /\ claims' = {} /\ row' = row
        /\ \A id \in Ids : submit'[id] = IF submit[id] \in {"new", "acked"} THEN submit[id] ELSE "refused"
    BY DEF Crash, Passes, persistent
  <1>2. Seen(Resting) = {} /\ Idle.at = "idle"
    BY RestingTyped DEF Seen, AtJob
  <1>3. \A id \in Ids : Answered(id) => Answered(id)'
    BY <1>1 DEF Answered
  <1>4. \A id \in Ids : Mentioned(id)' => Mentioned(id)
    BY <1>1, <1>2 DEF Mentioned, InQueue, AtWork
  <1> QED BY <1>3, <1>4, KnownFrom

LEMMA NextKnown == ASSUME IInv, Known, PromptUploads, [Next]_vars PROVE Known'
  <1>1. CASE \E id \in Ids : Admit(id) \/ SubmitStep(id) \/ Feed(id)
    BY <1>1, KnownSubmit
  <1>2. CASE \E w \in Workers : WorkerStep(w)
    BY <1>2, KnownWorker
  <1>3. CASE \E r \in {"boot", "sweep"} : RecoverStep(r)
    BY <1>3, KnownPasses DEF Passes
  <1>4. CASE \/ \E id \in Ids : DeleteRow(id) \/ DeleteBlobs(id) \/ TimePasses(id)
             \/ SyncBegins \/ SyncEnds \/ SweepBegins \/ SweepStep \/ Boot \/ UNCHANGED vars
    BY <1>4, KnownOthers
  <1>5. CASE Crash
    BY <1>5, KnownCrash
  <1> QED BY <1>1, <1>2, <1>3, <1>4, <1>5 DEF Next

\* Every admission slot taken belongs to a submit, a synchronous request, a queued
\* job or a worker, with the periodic pass of recover at work and whatever crashes,
\* panics and fails, as long as an upload ends before its row may be taken for
\* abandoned (Manager.Admit, Enqueue, release; recover's age condition): an id that
\* is claimed before its submit has enqueued it is the only way to lose a slot.
THEOREM NoSlotLeak == Spec /\ []PromptUploads => []SlotsAccounted
  <1>1. Init => Exact
    <2> SUFFICES ASSUME Init PROVE Exact
      OBVIOUS
    <2>1. Cardinality(SubmitsOf(submit)) = 0 /\ Cardinality(HoldingOf(worker)) = 0
      BY NothingHeld, RestingTyped DEF Init, UnderWay
    <2>2. Len(queue) = 0
      BY DEF Init
    <2> QED BY <2>1, <2>2 DEF Init, Exact, Held
  <1>2. IInv /\ Known => ~Overtaken
    BY DEF Known, Mentioned, Overtaken, Answered
  <1>3. IInv /\ Known /\ Exact /\ PromptUploads /\ [Next]_vars => IInv' /\ Known' /\ Exact'
    BY <1>2, NextSteady, NextKnown DEF Steady
  <1>4. Exact => SlotsAccounted
    <2>1. InSubmit = SubmitsOf(submit)
      BY DEF InSubmit, SubmitsOf, UnderWay
    <2>2. Holding = HoldingOf(worker)
      BY DEF Holding, Busy, HoldingOf
    <2> QED BY <2>1, <2>2 DEF Exact, Held, SlotsAccounted
  <1> QED BY <1>1, <1>3, <1>4, InitInv, KnownInit, PTL DEF Spec

-----------------------------------------------------------------------------
(* Claims *)

One(b) == IF b THEN 1 ELSE 0
Holds(x, id) == x.at # "idle" /\ ~x.released /\ x.id = id
Requeues(x, id) == x.at = "requeue" /\ x.id = id

QueuedAs(q, id) == {i \in 1 .. Len(q) : q[i] = id}
HeldAs(f, id) == {w \in Workers : Holds(f[w], id)}
ClaimedBy(g, id) == {r \in Passes : id \in g[r].claimed}
RequeuedBy(g, id) == {r \in Passes : Requeues(g[r], id)}
InAll(q, f, g, fed, id) ==
    Cardinality(QueuedAs(q, id)) + Cardinality(HeldAs(f, id))
    + Cardinality(ClaimedBy(g, id)) + Cardinality(RequeuedBy(g, id)) + One(id \in fed)

\* The periodic pass runs while the sweeper waits for it.
Waits == recover["sweep"].at # "idle" => sweep.at = "reclaim" /\ up # "down"
CInv == ClaimedOnce /\ Waits

LEMMA PlacesAre ==
    ASSUME queue \in Seq(Ids), NEW id
    PROVE  Places(id) = InAll(queue, worker, recover, feeding, id)
  <1>1. DOMAIN queue = 1 .. Len(queue)
    BY LenProperties
  <1>2. {i \in DOMAIN queue : queue[i] = id} = QueuedAs(queue, id)
    BY <1>1 DEF QueuedAs
  <1>3. {w \in Holding : worker[w].id = id} = HeldAs(worker, id)
    BY DEF Holding, Busy, HeldAs, Holds
  <1>4. /\ {r \in {"boot", "sweep"} : id \in recover[r].claimed} = ClaimedBy(recover, id)
        /\ {r \in {"boot", "sweep"} : recover[r].at = "requeue" /\ recover[r].id = id} = RequeuedBy(recover, id)
    BY DEF ClaimedBy, RequeuedBy, Requeues, Passes
  <1> QED BY <1>2, <1>3, <1>4 DEF Places, InAll, One

LEMMA PlacesAfter ==
    ASSUME queue' \in Seq(Ids), NEW id
    PROVE  Places(id)' = InAll(queue', worker', recover', feeding', id)
  <1>1. DOMAIN queue' = 1 .. Len(queue')
    BY LenProperties
  <1>2. {i \in DOMAIN queue' : queue'[i] = id} = QueuedAs(queue', id)
    BY <1>1 DEF QueuedAs
  <1>3. {w \in Holding' : worker'[w].id = id} = HeldAs(worker', id)
    BY DEF Holding, Busy, HeldAs, Holds
  <1>4. /\ {r \in {"boot", "sweep"} : id \in recover'[r].claimed} = ClaimedBy(recover', id)
        /\ {r \in {"boot", "sweep"} : recover'[r].at = "requeue" /\ recover'[r].id = id} = RequeuedBy(recover', id)
    BY DEF ClaimedBy, RequeuedBy, Requeues, Passes
  <1> QED BY <1>2, <1>3, <1>4 DEF Places, InAll, One

\* Two sets that differ in one element at most.
LEMMA CountOne ==
    ASSUME NEW T, IsFiniteSet(T), NEW A \in SUBSET T, NEW B \in SUBSET T, NEW x,
           \A y \in T : y # x => (y \in A <=> y \in B)
    PROVE  /\ Cardinality(A) \in Nat /\ Cardinality(B) \in Nat
           /\ Cardinality(B) = Cardinality(A) + One(x \in B) - One(x \in A)
           /\ Cardinality(A) >= One(x \in A)
  <1>1. /\ IsFiniteSet(A) /\ Cardinality(A) \in Nat
        /\ IsFiniteSet(B) /\ Cardinality(B) \in Nat
    BY FS_Subset, FS_CardinalityType
  <1>2. CASE x \in A
    <2>1. IsFiniteSet(A \ {x}) /\ Cardinality(A \ {x}) = Cardinality(A) - 1 /\ Cardinality(A \ {x}) \in Nat
      BY <1>1, <1>2, FS_RemoveElement, FS_CardinalityType
    <2>2. CASE x \in B
      <3>1. A = B
        BY <1>2, <2>2
      <3> QED BY <1>1, <1>2, <2>1, <2>2, <3>1 DEF One
    <2>3. CASE x \notin B
      <3>1. B = A \ {x}
        BY <1>2, <2>3
      <3> QED BY <1>1, <1>2, <2>1, <2>3, <3>1 DEF One
    <2> QED BY <2>2, <2>3
  <1>3. CASE x \notin A
    <2>1. CASE x \in B
      <3>1. B = A \union {x}
        BY <1>3, <2>1
      <3>2. Cardinality(B) = Cardinality(A) + 1
        BY <1>1, <1>3, <3>1, FS_AddElement
      <3> QED BY <1>1, <1>3, <2>1, <3>2 DEF One
    <2>2. CASE x \notin B
      <3>1. A = B
        BY <1>3, <2>2
      <3> QED BY <1>1, <1>3, <2>2, <3>1 DEF One
    <2> QED BY <2>1, <2>2
  <1> QED BY <1>2, <1>3

LEMMA PassesFinite == IsFiniteSet(Passes)
  <1>1. IsFiniteSet({"boot"}) /\ IsFiniteSet({"sweep"})
    BY FS_Singleton
  <1>2. Passes = {"boot"} \union {"sweep"}
    BY DEF Passes
  <1> QED BY <1>1, <1>2, FS_Union

LEMMA CountsNat ==
    ASSUME NEW q \in Seq(Ids), NEW f, NEW g, NEW id
    PROVE  /\ Cardinality(QueuedAs(q, id)) \in Nat /\ Cardinality(HeldAs(f, id)) \in Nat
           /\ Cardinality(ClaimedBy(g, id)) \in Nat /\ Cardinality(RequeuedBy(g, id)) \in Nat
  <1>1. PICK n \in Nat : n = Len(q)
    BY LenProperties
  <1>2. IsFiniteSet(1 .. n) /\ QueuedAs(q, id) \subseteq 1 .. n
    BY <1>1, FS_Interval DEF QueuedAs
  <1>3. ClaimedBy(g, id) \subseteq Passes /\ RequeuedBy(g, id) \subseteq Passes
    BY DEF ClaimedBy, RequeuedBy
  <1>4. HeldAs(f, id) \subseteq Workers
    BY DEF HeldAs
  <1> QED BY <1>2, <1>3, <1>4, PassesFinite, WorkersAssumption, FS_Subset, FS_CardinalityType

\* One worker, or one pass, changes.
LEMMA HeldMoves ==
    ASSUME DOMAIN worker = Workers, NEW w \in Workers, NEW y, worker' = [worker EXCEPT ![w] = y], NEW id
    PROVE  Cardinality(HeldAs(worker', id)) =
               Cardinality(HeldAs(worker, id)) + One(Holds(y, id)) - One(Holds(worker[w], id))
  <1> DEFINE A == HeldAs(worker, id)
             B == HeldAs(worker', id)
  <1>1. A \in SUBSET Workers /\ B \in SUBSET Workers
    BY DEF HeldAs
  <1>2. worker'[w] = y /\ \A v \in Workers : v # w => worker'[v] = worker[v]
    OBVIOUS
  <1>3. \A v \in Workers : v # w => (v \in A <=> v \in B)
    BY <1>2 DEF HeldAs
  <1>4. (w \in A <=> Holds(worker[w], id)) /\ (w \in B <=> Holds(y, id))
    BY <1>2 DEF HeldAs
  <1> HIDE DEF A, B
  <1>5. Cardinality(B) = Cardinality(A) + One(w \in B) - One(w \in A)
    BY <1>1, <1>3, WorkersAssumption, CountOne
  <1>6. One(w \in A) = One(Holds(worker[w], id)) /\ One(w \in B) = One(Holds(y, id))
    BY <1>4 DEF One
  <1> QED BY <1>5, <1>6 DEF A, B

LEMMA PassCounts ==
    ASSUME DOMAIN recover = Passes, NEW r \in Passes, NEW y, recover' = [recover EXCEPT ![r] = y], NEW id
    PROVE  /\ Cardinality(ClaimedBy(recover', id)) =
                  Cardinality(ClaimedBy(recover, id)) + One(id \in y.claimed) - One(id \in recover[r].claimed)
           /\ Cardinality(RequeuedBy(recover', id)) =
                  Cardinality(RequeuedBy(recover, id)) + One(Requeues(y, id)) - One(Requeues(recover[r], id))
           /\ Cardinality(ClaimedBy(recover, id)) >= One(id \in recover[r].claimed)
           /\ Cardinality(RequeuedBy(recover, id)) >= One(Requeues(recover[r], id))
  <1>2. recover'[r] = y /\ \A v \in Passes : v # r => recover'[v] = recover[v]
    OBVIOUS
  <1>3. /\ Cardinality(ClaimedBy(recover', id)) =
               Cardinality(ClaimedBy(recover, id)) + One(id \in y.claimed) - One(id \in recover[r].claimed)
        /\ Cardinality(ClaimedBy(recover, id)) >= One(id \in recover[r].claimed)
    <2> DEFINE A == ClaimedBy(recover, id)
               B == ClaimedBy(recover', id)
    <2>1. A \in SUBSET Passes /\ B \in SUBSET Passes
      BY DEF ClaimedBy
    <2>3. \A v \in Passes : v # r => (v \in A <=> v \in B)
      BY <1>2 DEF ClaimedBy
    <2>4. (r \in A <=> id \in recover[r].claimed) /\ (r \in B <=> id \in y.claimed)
      BY <1>2 DEF ClaimedBy
    <2> HIDE DEF A, B
    <2>5. Cardinality(B) = Cardinality(A) + One(r \in B) - One(r \in A) /\ Cardinality(A) >= One(r \in A)
      BY <2>1, <2>3, PassesFinite, CountOne
    <2>6. One(r \in A) = One(id \in recover[r].claimed) /\ One(r \in B) = One(id \in y.claimed)
      BY <2>4 DEF One
    <2> QED BY <2>5, <2>6 DEF A, B
  <1>4. /\ Cardinality(RequeuedBy(recover', id)) =
               Cardinality(RequeuedBy(recover, id)) + One(Requeues(y, id)) - One(Requeues(recover[r], id))
        /\ Cardinality(RequeuedBy(recover, id)) >= One(Requeues(recover[r], id))
    <2> DEFINE A == RequeuedBy(recover, id)
               B == RequeuedBy(recover', id)
    <2>1. A \in SUBSET Passes /\ B \in SUBSET Passes
      BY DEF RequeuedBy
    <2>3. \A v \in Passes : v # r => (v \in A <=> v \in B)
      BY <1>2 DEF RequeuedBy
    <2>4. (r \in A <=> Requeues(recover[r], id)) /\ (r \in B <=> Requeues(y, id))
      BY <1>2 DEF RequeuedBy
    <2> HIDE DEF A, B
    <2>5. Cardinality(B) = Cardinality(A) + One(r \in B) - One(r \in A) /\ Cardinality(A) >= One(r \in A)
      BY <2>1, <2>3, PassesFinite, CountOne
    <2>6. One(r \in A) = One(Requeues(recover[r], id)) /\ One(r \in B) = One(Requeues(y, id))
      BY <2>4 DEF One
    <2> QED BY <2>5, <2>6 DEF A, B
  <1> QED BY <1>3, <1>4

\* An id comes into the queue at its end and leaves it at its head.
LEMMA QueuedMore ==
    ASSUME NEW q \in Seq(Ids), NEW h \in Ids, NEW id
    PROVE  /\ id = h => Cardinality(QueuedAs(Append(q, h), id)) = Cardinality(QueuedAs(q, id)) + 1
           /\ id # h => Cardinality(QueuedAs(Append(q, h), id)) = Cardinality(QueuedAs(q, id))
  <1>0. PICK p : p = Append(q, h)
    OBVIOUS
  <1> DEFINE A == QueuedAs(q, id)
             B == QueuedAs(p, id)
  <1>1. PICK n \in Nat : n = Len(q)
    BY LenProperties
  <1>2. /\ Len(p) = n + 1 /\ p[n + 1] = h
        /\ \A i \in 1 .. n : p[i] = q[i]
    BY <1>0, <1>1, AppendProperties, LenProperties
  <1>3. IsFiniteSet(1 .. n + 1)
    BY <1>1, FS_Interval
  <1>4. A \in SUBSET (1 .. n + 1) /\ B \in SUBSET (1 .. n + 1)
    BY <1>1, <1>2 DEF QueuedAs
  <1>5. \A i \in 1 .. n + 1 : i # n + 1 => (i \in A <=> i \in B)
    BY <1>1, <1>2 DEF QueuedAs
  <1>6. n + 1 \notin A /\ (n + 1 \in B <=> id = h)
    BY <1>1, <1>2 DEF QueuedAs
  <1> HIDE DEF A, B
  <1>7. Cardinality(A) \in Nat /\ Cardinality(B) = Cardinality(A) + One(n + 1 \in B) - One(n + 1 \in A)
    <2>1. PICK T : T = 1 .. n + 1
      OBVIOUS
    <2>2. PICK x : x = n + 1
      OBVIOUS
    <2>3. IsFiniteSet(T) /\ A \in SUBSET T /\ B \in SUBSET T /\ \A i \in T : i # x => (i \in A <=> i \in B)
      BY <1>3, <1>4, <1>5, <2>1, <2>2
    <2>4. Cardinality(A) \in Nat /\ Cardinality(B) = Cardinality(A) + One(x \in B) - One(x \in A)
      BY <2>3, CountOne
    <2> QED BY <2>2, <2>4
  <1>8. One(n + 1 \in B) = (IF id = h THEN 1 ELSE 0) /\ One(n + 1 \in A) = 0
    BY <1>6 DEF One
  <1>9. (id = h => Cardinality(B) = Cardinality(A) + 1) /\ (id # h => Cardinality(B) = Cardinality(A))
    BY <1>7, <1>8
  <1> QED BY <1>0, <1>9 DEF A, B

LEMMA QueuedLess ==
    ASSUME NEW q \in Seq(Ids), q # <<>>, NEW id
    PROVE  /\ id = Head(q) => Cardinality(QueuedAs(Tail(q), id)) = Cardinality(QueuedAs(q, id)) - 1
           /\ id # Head(q) => Cardinality(QueuedAs(Tail(q), id)) = Cardinality(QueuedAs(q, id))
  <1>0. PICK h, p : h = Head(q) /\ p = Tail(q)
    OBVIOUS
  <1> DEFINE A == QueuedAs(q, id)
             B == QueuedAs(p, id)
             C == {i \in A : i # 1}
  <1>1. PICK n \in Nat \ {0} : n = Len(q)
    BY LenProperties, EmptySeq
  <1>2. Len(p) = n - 1 /\ h = q[1] /\ \A i \in 1 .. n - 1 : p[i] = q[i + 1]
    <2>1. /\ Len(Tail(q)) = Len(q) - 1
          /\ \A i \in 1 .. Len(Tail(q)) : Tail(q)[i] = q[i + 1]
      BY HeadTailProperties
    <2>2. h = q[1]
      BY <1>0
    <2> QED BY <1>0, <1>1, <2>1, <2>2
  <1>3. IsFiniteSet(1 .. n) /\ A \in SUBSET (1 .. n) /\ B \in SUBSET (1 .. n) /\ C \in SUBSET (1 .. n)
    <2>1. IsFiniteSet(1 .. n)
      BY <1>1, FS_Interval
    <2>2. A \in SUBSET (1 .. n)
      BY <1>1 DEF QueuedAs
    <2>3. B \in SUBSET (1 .. n - 1) /\ 1 .. n - 1 \subseteq 1 .. n
      BY <1>1, <1>2 DEF QueuedAs
    <2> QED BY <2>1, <2>2, <2>3
  <1>4. /\ \A i \in B : i \in Nat /\ i + 1 \in C
        /\ \A j \in C : j \in Int /\ j - 1 \in B
    <2>1. ASSUME NEW i \in B PROVE i \in Nat /\ i + 1 \in C
      <3>1. i \in 1 .. n - 1 /\ q[i + 1] = id
        BY <1>2, <2>1 DEF QueuedAs
      <3>2. i + 1 \in 1 .. n /\ i + 1 # 1 /\ i \in Nat
        BY <1>1, <3>1
      <3>3. i + 1 \in A
        BY <1>1, <3>1, <3>2 DEF QueuedAs
      <3> QED BY <3>2, <3>3
    <2>2. ASSUME NEW j \in C PROVE j \in Int /\ j - 1 \in B
      <3>1. j \in 1 .. n /\ q[j] = id /\ j # 1
        BY <1>1, <2>2 DEF QueuedAs
      <3>2. j - 1 \in 1 .. n - 1 /\ (j - 1) + 1 = j /\ j \in Int
        BY <1>1, <3>1
      <3>3. p[j - 1] = id
        BY <1>2, <3>1, <3>2
      <3> QED BY <1>2, <3>2, <3>3 DEF QueuedAs
    <2> QED BY <2>1, <2>2
  <1>5. 1 \in A <=> id = h
    BY <1>1, <1>2 DEF QueuedAs
  <1>6. Cardinality(B) = Cardinality(C)
    <2> DEFINE f == [i \in B |-> i + 1]
    <2> HIDE DEF B, C
    <2>1. f \in [B -> C]
      BY <1>4
    <2>2. \A i, j \in B : f[i] = f[j] => i = j
      BY <1>4
    <2>3. \A j \in C : \E i \in B : f[i] = j
      <3> TAKE j \in C
      <3>1. j - 1 \in B /\ (j - 1) + 1 = j
        BY <1>4
      <3> QED BY <3>1
    <2> HIDE DEF f
    <2>4. ExistsBijection(B, C)
      BY <2>1, <2>2, <2>3 DEF ExistsBijection, Bijection, Injection, Surjection, IsInjective
    <2>5. IsFiniteSet(B)
      BY <1>3, FS_Subset
    <2> QED BY <2>4, <2>5, FS_Bijection
  <1>7. \A i \in 1 .. n : i # 1 => (i \in A <=> i \in C)
    OBVIOUS
  <1>8. 1 \notin C
    OBVIOUS
  <1> HIDE DEF A, B, C
  <1>9. Cardinality(A) \in Nat /\ Cardinality(C) = Cardinality(A) + One(1 \in C) - One(1 \in A)
    <2>1. PICK T : T = 1 .. n
      OBVIOUS
    <2>2. PICK x : x = 1
      OBVIOUS
    <2>3. IsFiniteSet(T) /\ A \in SUBSET T /\ C \in SUBSET T /\ \A i \in T : i # x => (i \in A <=> i \in C)
      BY <1>3, <1>7, <2>1, <2>2
    <2>4. Cardinality(A) \in Nat /\ Cardinality(C) = Cardinality(A) + One(x \in C) - One(x \in A)
      BY <2>3, CountOne
    <2> QED BY <2>2, <2>4
  <1>10. One(1 \in A) = (IF id = h THEN 1 ELSE 0) /\ One(1 \in C) = 0
    BY <1>5, <1>8 DEF One
  <1>11. (id = h => Cardinality(B) = Cardinality(A) - 1) /\ (id # h => Cardinality(B) = Cardinality(A))
    BY <1>6, <1>9, <1>10
  <1> QED BY <1>0, <1>11 DEF A, B

\* A worker keeps or lets go of its job.
LEMMA WorkerClaims ==
    ASSUME IInv, queue' \in Seq(Ids), ClaimedOnce, NEW w \in Workers, NEW y, worker' = [worker EXCEPT ![w] = y],
           UNCHANGED <<queue, feeding, recover>>,
           \/ UNCHANGED claims /\ \A id \in Ids : Holds(y, id) <=> Holds(worker[w], id)
           \/ /\ worker[w].at # "idle" /\ ~worker[w].released /\ claims' = claims \ {worker[w].id}
              /\ y.at = "idle" \/ y.released
    PROVE  ClaimedOnce'
  <1> SUFFICES ASSUME NEW id \in Ids PROVE Places(id)' = IF id \in claims' THEN 1 ELSE 0
    BY DEF ClaimedOnce
  <1>1. queue \in Seq(Ids) /\ DOMAIN worker = Workers
    BY DEF IInv, Typed, ManagerTyped, WorkersTyped
  <1>2. PICK q, h, c, r, f :
            /\ q = Cardinality(QueuedAs(queue, id)) /\ h = Cardinality(HeldAs(worker, id))
            /\ c = Cardinality(ClaimedBy(recover, id)) /\ r = Cardinality(RequeuedBy(recover, id))
            /\ f = One(id \in feeding)
    OBVIOUS
  <1>3. PICK o, n : o = One(Holds(worker[w], id)) /\ n = One(Holds(y, id))
    OBVIOUS
  <1>4. Cardinality(HeldAs(worker', id)) = h + n - o
    BY <1>1, <1>2, <1>3, HeldMoves
  <1>5. Places(id) = q + h + c + r + f
    BY <1>1, <1>2, PlacesAre DEF InAll
  <1>6. Places(id)' = q + (h + n - o) + c + r + f
    BY <1>2, <1>4, PlacesAfter DEF InAll
  <1>7. q \in Nat /\ h \in Nat /\ c \in Nat /\ r \in Nat /\ f \in Nat /\ h + n - o \in Nat
    BY <1>1, <1>2, <1>4, CountsNat DEF One
  <1>8. Places(id) = IF id \in claims THEN 1 ELSE 0
    BY DEF ClaimedOnce
  <1>9. CASE UNCHANGED claims /\ \A j \in Ids : Holds(y, j) <=> Holds(worker[w], j)
    <2>1. n = o /\ n \in Nat
      BY <1>3, <1>9 DEF One
    <2> QED BY <1>5, <1>6, <1>7, <1>8, <1>9, <2>1
  <1>10. CASE /\ worker[w].at # "idle" /\ ~worker[w].released /\ claims' = claims \ {worker[w].id}
              /\ y.at = "idle" \/ y.released
    <2>1. n = 0
      BY <1>3, <1>10 DEF One, Holds
    <2>2. CASE id = worker[w].id
      <3>1. o = 1 /\ id \notin claims'
        BY <1>3, <1>10, <2>2 DEF One, Holds
      <3> QED BY <1>5, <1>6, <1>7, <1>8, <2>1, <3>1
    <2>3. CASE id # worker[w].id
      <3>1. o = 0 /\ (id \in claims' <=> id \in claims)
        BY <1>3, <1>10, <2>3 DEF One, Holds
      <3> QED BY <1>5, <1>6, <1>7, <1>8, <2>1, <3>1
    <2> QED BY <2>2, <2>3
  <1> QED BY <1>9, <1>10

\* A job goes from the queue to a worker, from a submit or from feed to the queue.
LEMMA TakeClaims ==
    ASSUME IInv, queue' \in Seq(Ids), ClaimedOnce, NEW w \in Workers, TakeJob(w)
    PROVE  ClaimedOnce'
  <1> SUFFICES ASSUME NEW id \in Ids PROVE Places(id)' = IF id \in claims' THEN 1 ELSE 0
    BY DEF ClaimedOnce
  <1>1. PICK e : e = Head(queue)
    OBVIOUS
  <1>2. PICK y : y = [Idle EXCEPT !.at = "get", !.id = e]
    OBVIOUS
  <1>3. /\ worker[w].at = "idle" /\ queue # <<>> /\ worker' = [worker EXCEPT ![w] = y] /\ queue' = Tail(queue)
        /\ UNCHANGED <<claims, feeding, recover>>
    BY <1>1, <1>2 DEF TakeJob
  <1>4. queue \in Seq(Ids) /\ DOMAIN worker = Workers
    BY DEF IInv, Typed, ManagerTyped, WorkersTyped
  <1>5. Cardinality(QueuedAs(queue', id)) = Cardinality(QueuedAs(queue, id)) - (IF id = e THEN 1 ELSE 0)
    <2>1. PICK q, p : q = queue /\ p = queue'
      OBVIOUS
    <2>2. q \in Seq(Ids) /\ q # <<>> /\ e = Head(q) /\ p = Tail(q)
      BY <1>1, <1>3, <1>4, <2>1
    <2>3. /\ id = e => Cardinality(QueuedAs(p, id)) = Cardinality(QueuedAs(q, id)) - 1
          /\ id # e => Cardinality(QueuedAs(p, id)) = Cardinality(QueuedAs(q, id))
      BY <2>2, QueuedLess
    <2>4. Cardinality(QueuedAs(q, id)) \in Nat
      BY <2>2, CountsNat
    <2> QED BY <2>1, <2>3, <2>4
  <1>6. Cardinality(HeldAs(worker', id)) = Cardinality(HeldAs(worker, id)) + (IF id = e THEN 1 ELSE 0)
    <2>1. Cardinality(HeldAs(worker', id)) =
              Cardinality(HeldAs(worker, id)) + One(Holds(y, id)) - One(Holds(worker[w], id))
      BY <1>3, <1>4, HeldMoves
    <2>2. One(Holds(worker[w], id)) = 0
      BY <1>3 DEF Holds, One
    <2>3. One(Holds(y, id)) = (IF id = e THEN 1 ELSE 0)
      <3>1. Holds(y, id) <=> id = e
        BY <1>2 DEF Holds, Idle
      <3> QED BY <3>1 DEF One
    <2>4. Cardinality(HeldAs(worker, id)) \in Nat /\ (IF id = e THEN 1 ELSE 0) \in {0, 1}
      BY <1>4, CountsNat DEF One
    <2> QED BY <2>1, <2>2, <2>3, <2>4
  <1>7. PICK q, h, o, c, r, f :
            /\ q = Cardinality(QueuedAs(queue, id)) /\ h = Cardinality(HeldAs(worker, id)) /\ o = (IF id = e THEN 1 ELSE 0)
            /\ c = Cardinality(ClaimedBy(recover, id)) /\ r = Cardinality(RequeuedBy(recover, id))
            /\ f = One(id \in feeding)
    OBVIOUS
  <1>8. q \in Nat /\ h \in Nat /\ c \in Nat /\ r \in Nat /\ f \in {0, 1} /\ o \in {0, 1}
    BY <1>4, <1>7, CountsNat DEF One
  <1>9. Places(id) = q + h + c + r + f
    BY <1>4, <1>7, PlacesAre DEF InAll
  <1>10. Places(id)' = (q - o) + (h + o) + c + r + f
    BY <1>3, <1>5, <1>6, <1>7, PlacesAfter DEF InAll
  <1> QED BY <1>3, <1>8, <1>9, <1>10 DEF ClaimedOnce

LEMMA QueueClaims ==
    ASSUME IInv, queue' \in Seq(Ids), ClaimedOnce, NEW e \in Ids, queue' = Append(queue, e),
           UNCHANGED <<worker, recover>>,
           \/ e \notin claims /\ claims' = claims \union {e} /\ UNCHANGED feeding
           \/ e \in feeding /\ feeding' = feeding \ {e} /\ UNCHANGED claims
    PROVE  ClaimedOnce'
  <1> SUFFICES ASSUME NEW id \in Ids PROVE Places(id)' = IF id \in claims' THEN 1 ELSE 0
    BY DEF ClaimedOnce
  <1>1. queue \in Seq(Ids)
    BY DEF IInv, Typed, ManagerTyped
  <1>2. Cardinality(QueuedAs(queue', id)) = Cardinality(QueuedAs(queue, id)) + (IF id = e THEN 1 ELSE 0)
    <2>1. PICK q, p : q = queue /\ p = queue'
      OBVIOUS
    <2>2. q \in Seq(Ids) /\ p = Append(q, e)
      BY <1>1, <2>1
    <2>3. /\ id = e => Cardinality(QueuedAs(p, id)) = Cardinality(QueuedAs(q, id)) + 1
          /\ id # e => Cardinality(QueuedAs(p, id)) = Cardinality(QueuedAs(q, id))
      BY <2>2, QueuedMore
    <2>4. Cardinality(QueuedAs(q, id)) \in Nat
      BY <2>2, CountsNat
    <2> QED BY <2>1, <2>3, <2>4
  <1>3. PICK q, o, h, c, r, f, g :
            /\ q = Cardinality(QueuedAs(queue, id)) /\ o = (IF id = e THEN 1 ELSE 0)
            /\ h = Cardinality(HeldAs(worker, id)) /\ c = Cardinality(ClaimedBy(recover, id))
            /\ r = Cardinality(RequeuedBy(recover, id))
            /\ f = One(id \in feeding) /\ g = One(id \in feeding')
    OBVIOUS
  <1>4. q \in Nat /\ h \in Nat /\ c \in Nat /\ r \in Nat /\ f \in {0, 1} /\ g \in {0, 1} /\ o \in {0, 1}
    BY <1>1, <1>3, CountsNat DEF One
  <1>5. Places(id) = q + h + c + r + f
    BY <1>1, <1>3, PlacesAre DEF InAll
  <1>6. Places(id)' = (q + o) + h + c + r + g
    BY <1>1, <1>2, <1>3, PlacesAfter DEF InAll
  <1>7. Places(id) = IF id \in claims THEN 1 ELSE 0
    BY DEF ClaimedOnce
  <1>8. CASE id # e
    <2>1. o = 0 /\ g = f /\ (id \in claims' <=> id \in claims)
      BY <1>3, <1>8 DEF One
    <2> QED BY <1>4, <1>5, <1>6, <1>7, <2>1
  <1>9. CASE id = e /\ e \notin claims /\ claims' = claims \union {e} /\ UNCHANGED feeding
    <2>1. o = 1 /\ g = f /\ id \notin claims /\ id \in claims'
      BY <1>3, <1>9 DEF One
    <2> QED BY <1>4, <1>5, <1>6, <1>7, <2>1
  <1>10. CASE id = e /\ e \in feeding /\ feeding' = feeding \ {e} /\ UNCHANGED claims
    <2>1. o = 1 /\ f = 1 /\ g = 0 /\ (id \in claims' <=> id \in claims)
      BY <1>3, <1>10 DEF One
    <2> QED BY <1>4, <1>5, <1>6, <1>7, <2>1
  <1> QED BY <1>8, <1>9, <1>10

\* A pass of recover moves: k places are elsewhere.
LEMMA PassPlaces ==
    ASSUME IInv, queue' \in Seq(Ids), ClaimedOnce, NEW p \in Passes, NEW y, recover' = [recover EXCEPT ![p] = y],
           UNCHANGED <<queue, worker>>, NEW id \in Ids
    PROVE  /\ \E k \in Nat :
                  /\ Places(id) = k + One(id \in recover[p].claimed) + One(Requeues(recover[p], id))
                                  + One(id \in feeding)
                  /\ Places(id)' = k + One(id \in y.claimed) + One(Requeues(y, id)) + One(id \in feeding')
           /\ Places(id) = IF id \in claims THEN 1 ELSE 0
  <1>1. queue \in Seq(Ids) /\ DOMAIN recover = Passes
    BY DEF IInv, Typed, ManagerTyped, RecoverTyped, Passes
  <1>2. PICK q, h, c, r, f, g :
            /\ q = Cardinality(QueuedAs(queue, id)) /\ h = Cardinality(HeldAs(worker, id))
            /\ c = Cardinality(ClaimedBy(recover, id)) /\ r = Cardinality(RequeuedBy(recover, id))
            /\ f = One(id \in feeding) /\ g = One(id \in feeding')
    OBVIOUS
  <1>3. PICK c0, c1, r0, r1 :
            /\ c0 = One(id \in recover[p].claimed) /\ c1 = One(id \in y.claimed)
            /\ r0 = One(Requeues(recover[p], id)) /\ r1 = One(Requeues(y, id))
    OBVIOUS
  <1>4. /\ Cardinality(ClaimedBy(recover', id)) = c + c1 - c0 /\ c >= c0
        /\ Cardinality(RequeuedBy(recover', id)) = r + r1 - r0 /\ r >= r0
    <2>1. /\ Cardinality(ClaimedBy(recover', id)) =
               Cardinality(ClaimedBy(recover, id)) + One(id \in y.claimed) - One(id \in recover[p].claimed)
          /\ Cardinality(RequeuedBy(recover', id)) =
               Cardinality(RequeuedBy(recover, id)) + One(Requeues(y, id)) - One(Requeues(recover[p], id))
          /\ Cardinality(ClaimedBy(recover, id)) >= One(id \in recover[p].claimed)
          /\ Cardinality(RequeuedBy(recover, id)) >= One(Requeues(recover[p], id))
      BY <1>1, PassCounts
    <2> QED BY <1>2, <1>3, <2>1
  <1>5. /\ q \in Nat /\ h \in Nat /\ c \in Nat /\ r \in Nat
        /\ f \in {0, 1} /\ g \in {0, 1} /\ c0 \in {0, 1} /\ c1 \in {0, 1} /\ r0 \in {0, 1} /\ r1 \in {0, 1}
    BY <1>1, <1>2, <1>3, CountsNat DEF One
  <1>6. Places(id) = q + h + c + r + f
    BY <1>1, <1>2, PlacesAre DEF InAll
  <1>7. Places(id)' = q + h + (c + c1 - c0) + (r + r1 - r0) + g
    BY <1>2, <1>4, PlacesAfter DEF InAll
  <1>8. PICK k \in Nat : k = q + h + (c - c0) + (r - r0)
    BY <1>4, <1>5
  <1>9. Places(id) = k + c0 + r0 + f /\ Places(id)' = k + c1 + r1 + g
    BY <1>5, <1>6, <1>7, <1>8
  <1>10. Places(id) = IF id \in claims THEN 1 ELSE 0
    BY DEF ClaimedOnce
  <1> QED BY <1>2, <1>3, <1>8, <1>9, <1>10

\* The pass goes on, claims its job, hands it to feed's list, or gives the claim back.
LEMMA PassClaims ==
    ASSUME IInv, queue' \in Seq(Ids), ClaimedOnce, NEW p \in Passes, NEW y, recover' = [recover EXCEPT ![p] = y],
           UNCHANGED <<queue, worker>>, NEW e, e = recover[p].id,
           \/ /\ y.claimed = recover[p].claimed /\ recover[p].at # "requeue" /\ y.at # "requeue"
              /\ UNCHANGED <<claims, feeding>>
           \/ /\ y.claimed = recover[p].claimed /\ recover[p].at # "requeue" /\ y.at = "requeue" /\ y.id = e
              /\ e \notin claims /\ claims' = claims \union {e} /\ UNCHANGED feeding
           \/ /\ y.claimed = recover[p].claimed \union {e} /\ recover[p].at = "requeue" /\ y.at # "requeue"
              /\ UNCHANGED <<claims, feeding>>
           \/ /\ y.claimed = recover[p].claimed /\ recover[p].at = "requeue" /\ y.at # "requeue"
              /\ claims' = claims \ {e} /\ UNCHANGED feeding
           \/ /\ y.claimed = {} /\ recover[p].at # "requeue" /\ y.at # "requeue"
              /\ feeding' = feeding \union recover[p].claimed /\ UNCHANGED claims
    PROVE  ClaimedOnce'
  <1> SUFFICES ASSUME NEW id \in Ids PROVE Places(id)' = IF id \in claims' THEN 1 ELSE 0
    BY DEF ClaimedOnce
  <1>1. PICK c0, c1, r0, r1, f, g :
            /\ c0 = One(id \in recover[p].claimed) /\ c1 = One(id \in y.claimed)
            /\ r0 = One(Requeues(recover[p], id)) /\ r1 = One(Requeues(y, id))
            /\ f = One(id \in feeding) /\ g = One(id \in feeding')
    OBVIOUS
  <1>2. PICK k \in Nat : Places(id) = k + c0 + r0 + f /\ Places(id)' = k + c1 + r1 + g
    <2>1. \E k \in Nat :
              /\ Places(id) = k + One(id \in recover[p].claimed) + One(Requeues(recover[p], id))
                              + One(id \in feeding)
              /\ Places(id)' = k + One(id \in y.claimed) + One(Requeues(y, id)) + One(id \in feeding')
      BY PassPlaces, Zenon
    <2> QED BY <1>1, <2>1
  <1>3. Places(id) = IF id \in claims THEN 1 ELSE 0
    BY PassPlaces
  <1>4. f \in {0, 1} /\ g \in {0, 1} /\ c0 \in {0, 1} /\ c1 \in {0, 1} /\ r0 \in {0, 1} /\ r1 \in {0, 1}
    BY <1>1 DEF One
  <1>5. CASE /\ y.claimed = recover[p].claimed /\ recover[p].at # "requeue" /\ y.at # "requeue"
             /\ UNCHANGED <<claims, feeding>>
    <2>1. c1 = c0 /\ r0 = 0 /\ r1 = 0 /\ g = f
      BY <1>1, <1>5 DEF One, Requeues
    <2> QED BY <1>2, <1>3, <1>4, <1>5, <2>1
  <1>6. CASE /\ y.claimed = recover[p].claimed /\ recover[p].at # "requeue" /\ y.at = "requeue" /\ y.id = e
             /\ e \notin claims /\ claims' = claims \union {e} /\ UNCHANGED feeding
    <2>1. c1 = c0 /\ r0 = 0 /\ g = f
      BY <1>1, <1>6 DEF One, Requeues
    <2>2. CASE id = e
      <3>1. r1 = 1 /\ id \notin claims /\ id \in claims'
        BY <1>1, <1>6, <2>2 DEF One, Requeues
      <3> QED BY <1>2, <1>3, <1>4, <2>1, <3>1
    <2>3. CASE id # e
      <3>1. r1 = 0 /\ (id \in claims' <=> id \in claims)
        BY <1>1, <1>6, <2>3 DEF One, Requeues
      <3> QED BY <1>2, <1>3, <1>4, <2>1, <3>1
    <2> QED BY <2>2, <2>3
  <1>7. CASE /\ y.claimed = recover[p].claimed \union {e} /\ recover[p].at = "requeue" /\ y.at # "requeue"
             /\ UNCHANGED <<claims, feeding>>
    <2>1. r1 = 0 /\ g = f /\ (id \in claims' <=> id \in claims)
      BY <1>1, <1>7 DEF One, Requeues
    <2>2. CASE id = e
      <3>1. r0 = 1 /\ c1 = 1
        BY <1>1, <1>7, <2>2 DEF One, Requeues
      <3>2. c0 = 0
        BY <1>2, <1>3, <1>4, <3>1
      <3> QED BY <1>2, <1>3, <1>4, <2>1, <3>1, <3>2
    <2>3. CASE id # e
      <3>1. r0 = 0 /\ c1 = c0
        BY <1>1, <1>7, <2>3 DEF One, Requeues
      <3> QED BY <1>2, <1>3, <1>4, <2>1, <3>1
    <2> QED BY <2>2, <2>3
  <1>8. CASE /\ y.claimed = recover[p].claimed /\ recover[p].at = "requeue" /\ y.at # "requeue"
             /\ claims' = claims \ {e} /\ UNCHANGED feeding
    <2>1. c1 = c0 /\ r1 = 0 /\ g = f
      BY <1>1, <1>8 DEF One, Requeues
    <2>2. CASE id = e
      <3>1. r0 = 1 /\ id \notin claims'
        BY <1>1, <1>8, <2>2 DEF One, Requeues
      <3> QED BY <1>2, <1>3, <1>4, <2>1, <3>1
    <2>3. CASE id # e
      <3>1. r0 = 0 /\ (id \in claims' <=> id \in claims)
        BY <1>1, <1>8, <2>3 DEF One, Requeues
      <3> QED BY <1>2, <1>3, <1>4, <2>1, <3>1
    <2> QED BY <2>2, <2>3
  <1>9. CASE /\ y.claimed = {} /\ recover[p].at # "requeue" /\ y.at # "requeue"
             /\ feeding' = feeding \union recover[p].claimed /\ UNCHANGED claims
    <2>1. c1 = 0 /\ r0 = 0 /\ r1 = 0 /\ (id \in claims' <=> id \in claims)
      BY <1>1, <1>9 DEF One, Requeues
    <2>2. CASE id \in recover[p].claimed
      <3>1. c0 = 1 /\ g = 1
        BY <1>1, <1>9, <2>2 DEF One
      <3>2. f = 0
        BY <1>2, <1>3, <1>4, <3>1
      <3> QED BY <1>2, <1>3, <1>4, <2>1, <3>1, <3>2
    <2>3. CASE id \notin recover[p].claimed
      <3>1. c0 = 0 /\ g = f
        BY <1>1, <1>9, <2>3 DEF One
      <3> QED BY <1>2, <1>3, <1>4, <2>1, <3>1
    <2> QED BY <2>2, <2>3
  <1> QED BY <1>5, <1>6, <1>7, <1>8, <1>9

\* After a crash nobody has any job.
LEMMA NothingPlaced ==
    ASSUME NEW q, q = <<>>, NEW f, \A w \in Workers : f[w] = Idle,
           NEW g, \A p \in Passes : g[p] = Resting, NEW id
    PROVE  InAll(q, f, g, {}, id) = 0
  <1>1. QueuedAs(q, id) = {}
    BY DEF QueuedAs
  <1>2. HeldAs(f, id) = {}
    BY DEF HeldAs, Holds, Idle
  <1>3. ClaimedBy(g, id) = {} /\ RequeuedBy(g, id) = {}
    BY DEF ClaimedBy, RequeuedBy, Requeues, Resting
  <1>4. One(id \in {}) = 0
    BY DEF One
  <1> QED BY <1>1, <1>2, <1>3, <1>4, FS_EmptySet DEF InAll

LEMMA SamePlaces ==
    ASSUME ClaimedOnce, UNCHANGED <<queue, claims, feeding, worker, recover>>
    PROVE  ClaimedOnce'
  BY DEF ClaimedOnce, Places, Holding, Busy

LEMMA WorkerStepClaims ==
    ASSUME IInv, queue' \in Seq(Ids), ClaimedOnce, NEW w \in Workers, WorkerStep(w)
    PROVE  ClaimedOnce'
  <1> DEFINE x == worker[w]
  <1>1. worker \in [Workers -> WorkerType] /\ WorkerFits(x)
    BY DEF IInv, Typed, WorkersTyped
  <1>2. CASE TakeJob(w)
    BY <1>2, TakeClaims
  <1>3. ASSUME Finished(w), x.at # "idle", UNCHANGED <<queue, feeding, recover>>
        PROVE  ClaimedOnce'
    <2>1. worker' = [worker EXCEPT ![w] = Idle] /\ Idle.at = "idle"
      BY <1>3, RestingTyped DEF Finished
    <2>2. CASE x.released
      <3>1. UNCHANGED claims /\ \A id \in Ids : ~Holds(x, id) /\ ~Holds(Idle, id)
        BY <1>3, <2>1, <2>2 DEF Finished, Holds
      <3> QED BY <1>3, <2>1, <3>1, WorkerClaims
    <2>3. CASE ~x.released
      <3>1. claims' = claims \ {x.id}
        BY <1>3, <2>3 DEF Finished
      <3> QED BY <1>3, <2>1, <2>3, <3>1, WorkerClaims
    <2> QED BY <2>2, <2>3
  <1>4. ASSUME NEW y, worker' = [worker EXCEPT ![w] = y], x.at # "idle", y.at # "idle", y.id = x.id,
               y.released = x.released, UNCHANGED <<queue, claims, feeding, recover>>
        PROVE  ClaimedOnce'
    <2>1. \A id \in Ids : Holds(y, id) <=> Holds(x, id)
      BY <1>4 DEF Holds
    <2> QED BY <1>4, <2>1, WorkerClaims
  <1>5. ASSUME NEW step \in {"mark", "run", "write", "succeed", "fail", "clean", "discard"}, NEW saw,
               worker' = [worker EXCEPT ![w] = [x EXCEPT !.at = step, !.sawInput = saw]]
               \/ WorkerAt(w, step),
               x.at # "idle", UNCHANGED <<queue, claims, feeding, recover>>
        PROVE  ClaimedOnce'
    <2>1. PICK y : /\ y = [x EXCEPT !.at = step, !.sawInput = saw] \/ y = [x EXCEPT !.at = step]
                   /\ worker' = [worker EXCEPT ![w] = y]
      <3>1. CASE WorkerAt(w, step)
        <4>1. worker' = [worker EXCEPT ![w] = [x EXCEPT !.at = step]]
          BY <3>1 DEF WorkerAt
        <4> QED BY <4>1
      <3>2. CASE worker' = [worker EXCEPT ![w] = [x EXCEPT !.at = step, !.sawInput = saw]]
        BY <3>2
      <3> QED BY <1>5, <3>1, <3>2
    <2>2. DOMAIN x = {"at", "id", "sawInput", "released"}
      BY <1>1 DEF WorkerFits, WorkerType
    <2>3. CASE y = [x EXCEPT !.at = step, !.sawInput = saw]
      <3>1. y.at = step /\ y.id = x.id /\ y.released = x.released
        BY <2>2, <2>3
      <3> QED BY <1>4, <1>5, <2>1, <3>1
    <2>4. CASE y = [x EXCEPT !.at = step]
      <3>1. y.at = step /\ y.id = x.id /\ y.released = x.released
        BY <2>2, <2>4
      <3> QED BY <1>4, <1>5, <2>1, <3>1
    <2> QED BY <2>1, <2>3, <2>4
  <1>6. CASE GetJob(w)
    <2>1. /\ x.at = "get" /\ UNCHANGED <<queue, feeding, recover>>
          /\ (WorkerAt(w, "mark") /\ UNCHANGED claims) \/ Finished(w)
      BY <1>6 DEF GetJob
    <2> QED BY <1>3, <1>5, <2>1
  <1>7. CASE MarkRunning(w)
    <2>1. /\ x.at = "mark" /\ UNCHANGED <<queue, feeding, recover>>
          /\ \/ /\ worker' = [worker EXCEPT ![w].at = "run", ![w].sawInput = x.id \in input]
                /\ UNCHANGED claims
             \/ Finished(w)
      BY <1>7 DEF MarkRunning
    <2>2. CASE worker' = [worker EXCEPT ![w].at = "run", ![w].sawInput = x.id \in input] /\ UNCHANGED claims
      <3>1. PICK saw : saw = (x.id \in input)
        OBVIOUS
      <3>2. worker' = [worker EXCEPT ![w] = [x EXCEPT !.at = "run", !.sawInput = saw]]
        BY <1>1, <2>2, <3>1
      <3> QED BY <1>5, <2>1, <2>2, <3>2
    <2> QED BY <1>3, <2>1, <2>2
  <1>8. CASE EngineReturns(w) \/ WriteResult(w) \/ Succeed(w) \/ Fail(w)
    <2>1. /\ x.at # "idle" /\ UNCHANGED <<queue, claims, feeding, recover>>
          /\ \E step \in {"write", "succeed", "fail", "clean", "discard"} : WorkerAt(w, step)
      BY <1>8 DEF EngineReturns, WriteResult, Succeed, Fail, manager
    <2> QED BY <1>5, <2>1
  <1>9. CASE EnginePanics(w)
    <2>1. /\ x.at = "run" /\ claims' = claims \ {x.id} /\ UNCHANGED <<queue, feeding, recover>>
          /\ worker' = [worker EXCEPT ![w].at = "fail", ![w].released = TRUE]
      BY <1>9 DEF EnginePanics
    <2>2. PICK y : y = [x EXCEPT !.at = "fail", !.released = TRUE]
      OBVIOUS
    <2>3. worker' = [worker EXCEPT ![w] = y] /\ y.released /\ ~x.released
      BY <1>1, <2>1, <2>2 DEF WorkerFits, WorkerType
    <2> QED BY <2>1, <2>3, WorkerClaims
  <1>10. CASE RunEnds(w)
    <2>1. x.at \in {"clean", "discard"} /\ Finished(w) /\ UNCHANGED <<queue, feeding, recover>>
      BY <1>10 DEF RunEnds
    <2> QED BY <1>3, <2>1
  <1> QED BY <1>2, <1>6, <1>7, <1>8, <1>9, <1>10 DEF WorkerStep

LEMMA PassStepClaims ==
    ASSUME IInv, queue' \in Seq(Ids), ClaimedOnce, NEW p \in Passes, RecoverStep(p)
    PROVE  ClaimedOnce'
  <1> DEFINE x == recover[p]
  <1>1. recover \in [Passes -> RecoverType] /\ RecoverFits(x)
    BY DEF IInv, Typed, RecoverTyped, Passes
  <1>2. UNCHANGED <<queue, worker>>
    BY DEF RecoverStep, RecoverScan, RecoverNext, RecoverGet, RecoverCheck, RecoverFail, RecoverFailed,
           RecoverClaim, Requeue, RecoverDone, manager
  <1>3. ASSUME NEW step \in {"scan", "next", "get", "check", "fail", "clean", "discard", "claim", "requeue"},
               RecoverAt(p, step)
        PROVE  \E y : /\ recover' = [recover EXCEPT ![p] = y]
                      /\ y.at = step /\ y.claimed = x.claimed /\ y.id = x.id
    <2>1. PICK y : y = [x EXCEPT !.at = step]
      OBVIOUS
    <2>2. y.at = step /\ y.claimed = x.claimed /\ y.id = x.id
      BY <1>1, <2>1 DEF RecoverType
    <2>3. recover' = [recover EXCEPT ![p] = y]
      BY <1>3, <2>1 DEF RecoverAt
    <2> QED BY <2>2, <2>3
  <1>4. CASE RecoverScan(p)
    <2>1. /\ x.at = "scan" /\ UNCHANGED <<claims, feeding>>
          /\ \/ \E ids : recover' = [recover EXCEPT ![p].at = "next", ![p].todo = ids]
             \/ RecoverAt(p, "next")
      BY <1>4 DEF RecoverScan, manager
    <2>2. \E y : recover' = [recover EXCEPT ![p] = y] /\ y.at = "next" /\ y.claimed = x.claimed
      <3>1. CASE RecoverAt(p, "next")
        BY <1>3, <3>1
      <3>2. ASSUME NEW ids, recover' = [recover EXCEPT ![p].at = "next", ![p].todo = ids]
            PROVE  \E y : recover' = [recover EXCEPT ![p] = y] /\ y.at = "next" /\ y.claimed = x.claimed
        <4>1. PICK y : y = [x EXCEPT !.at = "next", !.todo = ids]
          OBVIOUS
        <4>2. recover' = [recover EXCEPT ![p] = y] /\ y.at = "next" /\ y.claimed = x.claimed
          BY <1>1, <3>2, <4>1 DEF RecoverType
        <4> QED BY <4>2
      <3> QED BY <2>1, <3>1, <3>2
    <2> QED BY <1>2, <2>1, <2>2, PassClaims
  <1>5. CASE RecoverNext(p)
    <2>1. PICK id \in x.todo : /\ x.at = "next" /\ UNCHANGED <<claims, feeding>>
                               /\ recover' = [recover EXCEPT ![p].at = "get", ![p].id = id, ![p].todo = @ \ {id}]
      BY <1>5 DEF RecoverNext, manager
    <2>2. PICK y : y = [x EXCEPT !.at = "get", !.id = id, !.todo = @ \ {id}]
      OBVIOUS
    <2>3. recover' = [recover EXCEPT ![p] = y] /\ y.at = "get" /\ y.claimed = x.claimed
      BY <1>1, <2>1, <2>2 DEF RecoverType
    <2> QED BY <1>2, <2>1, <2>3, PassClaims
  <1>6. CASE RecoverGet(p)
    <2>1. /\ x.at = "get" /\ UNCHANGED <<claims, feeding>>
          /\ \/ recover' = [recover EXCEPT ![p].at = "check", ![p].attempts = row[x.id].attempts]
             \/ RecoverAt(p, "next")
      BY <1>6 DEF RecoverGet, manager
    <2>2. \E y : recover' = [recover EXCEPT ![p] = y] /\ y.at \in {"next", "check"} /\ y.claimed = x.claimed
      <3>1. CASE RecoverAt(p, "next")
        BY <1>3, <3>1
      <3>2. CASE recover' = [recover EXCEPT ![p].at = "check", ![p].attempts = row[x.id].attempts]
        <4>1. PICK n : n = row[x.id].attempts
          OBVIOUS
        <4>2. PICK y : y = [x EXCEPT !.at = "check", !.attempts = n]
          OBVIOUS
        <4>3. recover' = [recover EXCEPT ![p] = y] /\ y.at = "check" /\ y.claimed = x.claimed
          BY <1>1, <3>2, <4>1, <4>2 DEF RecoverType
        <4> QED BY <4>3
      <3> QED BY <2>1, <3>1, <3>2
    <2> QED BY <1>2, <2>1, <2>2, PassClaims
  <1>7. CASE RecoverCheck(p) \/ RecoverFail(p) \/ RecoverFailed(p)
    <2>1. /\ x.at # "requeue" /\ UNCHANGED <<claims, feeding>>
          /\ \E step \in {"claim", "fail", "clean", "discard", "next"} : RecoverAt(p, step)
      BY <1>7 DEF RecoverCheck, RecoverFail, RecoverFailed, manager
    <2>2. \E y : recover' = [recover EXCEPT ![p] = y] /\ y.at # "requeue" /\ y.claimed = x.claimed
      BY <1>3, <2>1
    <2> QED BY <1>2, <2>1, <2>2, PassClaims
  <1>8. CASE RecoverClaim(p)
    <2>1. /\ x.at = "claim" /\ UNCHANGED feeding
          /\ \/ RecoverAt(p, "next") /\ UNCHANGED claims
             \/ RecoverAt(p, "requeue") /\ x.id \notin claims /\ claims' = claims \union {x.id}
      BY <1>8 DEF RecoverClaim
    <2>2. CASE RecoverAt(p, "next") /\ UNCHANGED claims
      <3>1. \E y : recover' = [recover EXCEPT ![p] = y] /\ y.at # "requeue" /\ y.claimed = x.claimed
        BY <1>3, <2>2
      <3> QED BY <1>2, <2>1, <2>2, <3>1, PassClaims
    <2>3. CASE RecoverAt(p, "requeue") /\ x.id \notin claims /\ claims' = claims \union {x.id}
      <3>1. \E y : recover' = [recover EXCEPT ![p] = y] /\ y.at = "requeue" /\ y.claimed = x.claimed /\ y.id = x.id
        BY <1>3, <2>3
      <3> QED BY <1>2, <2>1, <2>3, <3>1, PassClaims
    <2> QED BY <2>1, <2>2, <2>3
  <1>9. CASE Requeue(p)
    <2>1. /\ x.at = "requeue" /\ UNCHANGED feeding
          /\ \/ /\ recover' = [recover EXCEPT ![p].at = "next", ![p].claimed = @ \union {x.id}]
                /\ UNCHANGED claims
             \/ claims' = claims \ {x.id} /\ RecoverAt(p, "next")
      BY <1>9 DEF Requeue
    <2>2. CASE recover' = [recover EXCEPT ![p].at = "next", ![p].claimed = @ \union {x.id}] /\ UNCHANGED claims
      <3>1. PICK c : c = x.claimed \union {x.id}
        OBVIOUS
      <3>2. PICK y : y = [x EXCEPT !.at = "next", !.claimed = c]
        OBVIOUS
      <3>3. recover' = [recover EXCEPT ![p] = y] /\ y.at = "next" /\ y.claimed = c
        BY <1>1, <2>2, <3>1, <3>2 DEF RecoverType
      <3> QED BY <1>2, <2>1, <2>2, <3>1, <3>3, PassClaims
    <2>3. CASE claims' = claims \ {x.id} /\ RecoverAt(p, "next")
      <3>1. \E y : recover' = [recover EXCEPT ![p] = y] /\ y.at = "next" /\ y.claimed = x.claimed
        BY <1>3, <2>3
      <3> QED BY <1>2, <2>1, <2>3, <3>1, PassClaims
    <2> QED BY <2>1, <2>2, <2>3
  <1>10. CASE RecoverDone(p)
    <2>1. /\ x.at = "next" /\ feeding' = feeding \union x.claimed /\ UNCHANGED claims
          /\ recover' = [recover EXCEPT ![p] = Resting]
      BY <1>10 DEF RecoverDone
    <2>2. Resting.claimed = {} /\ Resting.at # "requeue"
      BY RestingTyped
    <2> QED BY <1>2, <2>1, <2>2, PassClaims
  <1> QED BY <1>4, <1>5, <1>6, <1>7, <1>8, <1>9, <1>10 DEF RecoverStep

\* A submit takes a claim with its place in the queue; everybody else has none.
LEMMA FrontClaims ==
    ASSUME IInv, queue' \in Seq(Ids), ClaimedOnce, NEW id \in Ids,
           Admit(id) \/ SubmitStep(id) \/ Feed(id) \/ DeleteRow(id) \/ DeleteBlobs(id) \/ TimePasses(id)
    PROVE  ClaimedOnce'
  <1>1. CASE Feed(id)
    BY <1>1, QueueClaims DEF Feed
  <1>2. CASE Enqueue(id) /\ id \notin claims /\ claims' # claims
    <2>1. claims' = claims \union {id} /\ queue' = Append(queue, id) /\ UNCHANGED <<feeding, worker, recover>>
      BY <1>2 DEF Enqueue
    <2> QED BY <1>2, <2>1, QueueClaims
  <1>3. CASE Enqueue(id) /\ ~(id \notin claims /\ claims' # claims)
    <2>1. UNCHANGED <<queue, claims, feeding, worker, recover>>
      BY <1>3 DEF Enqueue
    <2> QED BY <2>1, SamePlaces
  <1>4. CASE Admit(id) \/ (SubmitStep(id) /\ ~Enqueue(id)) \/ DeleteRow(id) \/ DeleteBlobs(id) \/ TimePasses(id)
    <2>1. UNCHANGED <<queue, claims, feeding, worker, recover>>
      BY <1>4 DEF Admit, SubmitStep, StoreInput, StoreInputFails, CreateRow, CreateRowFails, Refuse, DeleteRow,
                  DeleteBlobs, TimePasses, Age, Expire, LeaseLapses, manager, agents
    <2> QED BY <2>1, SamePlaces
  <1> QED BY <1>1, <1>2, <1>3, <1>4

LEMMA SweepClaims ==
    ASSUME IInv, queue' \in Seq(Ids), CInv, SyncBegins \/ SyncEnds \/ SweepBegins \/ SweepStep \/ Boot
    PROVE  ClaimedOnce'
  <1>1. UNCHANGED <<queue, claims, feeding, worker>>
    BY DEF SyncBegins, SyncEnds, SweepBegins, SweepStep, SweepDelete, SweepDeleteBlobs, OrphansBegin,
           SweepOrphan, ReclaimBegins, EvictBegins, SweepEnds, Boot, manager
  <1>2. CASE UNCHANGED recover
    BY <1>1, <1>2, SamePlaces DEF CInv
  <1>3. ASSUME NEW p \in Passes, recover[p].at = "idle", RecoverAt(p, "scan") PROVE ClaimedOnce'
    <2>1. recover \in [Passes -> RecoverType]
      BY DEF IInv, Typed, RecoverTyped, Passes
    <2>2. PICK y : y = [recover[p] EXCEPT !.at = "scan"]
      OBVIOUS
    <2>3. recover' = [recover EXCEPT ![p] = y] /\ y.at = "scan" /\ y.claimed = recover[p].claimed
      BY <1>3, <2>1, <2>2 DEF RecoverAt, RecoverType
    <2> QED BY <1>1, <1>3, <2>3, PassClaims DEF CInv
  <1>4. CASE ReclaimBegins
    <2>1. recover["sweep"].at = "idle" /\ (UNCHANGED recover \/ RecoverAt("sweep", "scan"))
      BY <1>4 DEF ReclaimBegins, Sweeping, CInv, Waits
    <2> QED BY <1>2, <1>3, <2>1 DEF Passes
  <1>5. CASE Boot
    <2>1. recover["boot"].at = "idle" /\ RecoverAt("boot", "scan")
      BY <1>5 DEF Boot, IInv, Old
    <2> QED BY <1>3, <2>1 DEF Passes
  <1>6. CASE ~ReclaimBegins /\ ~Boot
    <2>1. UNCHANGED recover
      BY <1>6 DEF SyncBegins, SyncEnds, SweepBegins, SweepStep, SweepDelete, SweepDeleteBlobs, OrphansBegin,
                  SweepOrphan, EvictBegins, SweepEnds
    <2> QED BY <1>2, <2>1
  <1> QED BY <1>4, <1>5, <1>6

LEMMA CrashClaims == ASSUME Crash PROVE ClaimedOnce'
  <1> SUFFICES ASSUME NEW id \in Ids PROVE Places(id)' = IF id \in claims' THEN 1 ELSE 0
    BY DEF ClaimedOnce
  <1>1. /\ queue' = <<>> /\ claims' = {} /\ feeding' = {}
        /\ \A w \in Workers : worker'[w] = Idle
        /\ \A p \in Passes : recover'[p] = Resting
    BY DEF Crash, Passes
  <1>2. <<>> \in Seq(Ids)
    OBVIOUS
  <1>3. Places(id)' = InAll(queue', worker', recover', {}, id)
    BY <1>1, <1>2, PlacesAfter
  <1>4. InAll(queue', worker', recover', {}, id) = 0
    BY <1>1, NothingPlaced
  <1> QED BY <1>1, <1>3, <1>4

LEMMA WaitsKept ==
    ASSUME IInv, Waits, [Next]_vars
    PROVE  Waits'
  <1>1. recover \in [Passes -> RecoverType] /\ sweep \in SweepType
    BY DEF IInv, Typed, RecoverTyped, Passes
  <1>2. CASE \E p \in Passes : RecoverStep(p)
    <2>1. PICK p \in Passes : RecoverStep(p)
      BY <1>2
    <2>2. recover[p].at # "idle" /\ UNCHANGED sweep /\ (UNCHANGED up \/ up' = "serving")
      BY <2>1 DEF RecoverStep, RecoverScan, RecoverNext, RecoverGet, RecoverCheck, RecoverFail, RecoverFailed,
                  RecoverClaim, Requeue, RecoverDone
    <2>3. p = "boot" => recover'["sweep"] = recover["sweep"]
      BY <1>1, <2>1 DEF Passes, RecoverStep, RecoverScan, RecoverNext, RecoverGet, RecoverCheck, RecoverFail,
                        RecoverFailed, RecoverClaim, Requeue, RecoverDone, RecoverAt
    <2> QED BY <2>1, <2>2, <2>3 DEF Waits, Passes
  <1>3. CASE Crash
    <2>1. recover'["sweep"] = Resting
      BY <1>3 DEF Crash
    <2> QED BY <2>1, RestingTyped DEF Waits
  <1>4. CASE Boot
    <2>1. recover["sweep"].at = "idle" /\ recover'["sweep"] = recover["sweep"]
      BY <1>1, <1>4 DEF Boot, RecoverAt, Waits, Passes
    <2> QED BY <2>1 DEF Waits
  <1>5. CASE ReclaimBegins
    <2>1. sweep'.at = "reclaim" /\ up # "down" /\ UNCHANGED up
      BY <1>1, <1>5 DEF ReclaimBegins, Sweeping, SweepAt, SweepType
    <2> QED BY <2>1 DEF Waits
  <1>6. CASE SweepBegins \/ (SweepStep /\ ~ReclaimBegins)
    <2>1. sweep.at # "reclaim" \/ recover["sweep"].at = "idle"
      BY <1>6 DEF SweepBegins, SweepStep, SweepDelete, SweepDeleteBlobs, OrphansBegin, SweepOrphan, EvictBegins,
                  SweepEnds, Sweeping
    <2>2. UNCHANGED recover
      BY <1>6 DEF SweepBegins, SweepStep, SweepDelete, SweepDeleteBlobs, OrphansBegin, SweepOrphan, EvictBegins,
                  SweepEnds
    <2> QED BY <2>1, <2>2 DEF Waits
  <1>7. CASE \E id \in Ids : Admit(id) \/ SubmitStep(id) \/ Feed(id) \/ DeleteRow(id) \/ DeleteBlobs(id) \/ TimePasses(id)
    <2>1. UNCHANGED <<recover, sweep, up>>
      BY <1>7 DEF Admit, SubmitStep, StoreInput, StoreInputFails, CreateRow, CreateRowFails, Enqueue, Refuse, Feed,
                  DeleteRow, DeleteBlobs, TimePasses, Age, Expire, LeaseLapses, agents
    <2> QED BY <2>1 DEF Waits
  <1>8. CASE SyncBegins \/ SyncEnds \/ UNCHANGED vars \/ \E w \in Workers : WorkerStep(w)
    <2>1. UNCHANGED <<recover, sweep, up>>
      BY <1>8 DEF SyncBegins, SyncEnds, vars, agents, WorkerStep, TakeJob, GetJob, MarkRunning, EngineReturns,
                  EnginePanics, WriteResult, Succeed, Fail, RunEnds
    <2> QED BY <2>1 DEF Waits
  <1> QED BY <1>2, <1>3, <1>4, <1>5, <1>6, <1>7, <1>8 DEF Next, Passes

LEMMA NextCInv == IInv /\ IInv' /\ CInv /\ [Next]_vars => CInv'
  <1> SUFFICES ASSUME IInv, IInv', CInv, [Next]_vars PROVE ClaimedOnce'
    BY WaitsKept DEF CInv
  <1>1. queue' \in Seq(Ids)
    BY DEF IInv, Typed, ManagerTyped
  <1>2. CASE UNCHANGED vars
    BY <1>2, SamePlaces DEF vars, manager, agents, CInv
  <1>3. CASE \E id \in Ids : Admit(id) \/ SubmitStep(id) \/ Feed(id) \/ DeleteRow(id) \/ DeleteBlobs(id) \/ TimePasses(id)
    BY <1>1, <1>3, FrontClaims DEF CInv
  <1>4. CASE \E w \in Workers : WorkerStep(w)
    BY <1>1, <1>4, WorkerStepClaims DEF CInv
  <1>5. CASE \E p \in {"boot", "sweep"} : RecoverStep(p)
    BY <1>1, <1>5, PassStepClaims DEF CInv, Passes
  <1>6. CASE SyncBegins \/ SyncEnds \/ SweepBegins \/ SweepStep \/ Boot
    BY <1>1, <1>6, SweepClaims
  <1>7. CASE Crash
    BY <1>7, CrashClaims
  <1> QED BY <1>2, <1>3, <1>4, <1>5, <1>6, <1>7 DEF Next

LEMMA InitCInv == Init => CInv
  <1> SUFFICES ASSUME Init PROVE CInv
    OBVIOUS
  <1>1. Waits
    BY RestingTyped DEF Init, Waits
  <1>2. ASSUME NEW id \in Ids PROVE Places(id) = IF id \in claims THEN 1 ELSE 0
    <2>1. /\ queue = <<>> /\ claims = {} /\ feeding = {}
          /\ \A w \in Workers : worker[w] = Idle
          /\ \A p \in Passes : recover[p] = Resting
      BY DEF Init, Passes
    <2>2. Places(id) = InAll(queue, worker, recover, {}, id)
      BY <2>1, PlacesAre
    <2>3. InAll(queue, worker, recover, {}, id) = 0
      BY <2>1, NothingPlaced
    <2> QED BY <2>1, <2>2, <2>3
  <1> QED BY <1>1, <1>2 DEF CInv, ClaimedOnce

\* "Nothing may enqueue an id twice", and no claim outlives its job: an id that is
\* claimed is in exactly one place of the queue, the workers, the passes of recover
\* and feed, and an id that is not is in none, whatever crashes, panics, fails or is
\* reclaimed (Manager.claims, Enqueue, recoverOne, run).
THEOREM NoDoubleClaim == Spec => []ClaimedOnce
  <1>1. CInv => ClaimedOnce
    BY DEF CInv
  <1> QED BY <1>1, InitCInv, NextCInv, SpecIInv, PTL DEF Spec
=============================================================================
