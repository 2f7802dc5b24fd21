------------------------- MODULE JobContractProofs -------------------------
(***************************************************************************)
(* What JobLifecycle promises a client, for any number of operations and   *)
(* workers and any number of crashes and failing steps, with both passes   *)
(* of recover at work, as long as they are Timely.  JobProofs has the      *)
(* slots and the claims; here is what everybody who has a job in hand may  *)
(* rely on: its row, its blobs and who else has it.                        *)
(***************************************************************************)
EXTENDS JobProofs

-----------------------------------------------------------------------------
(* The invariant *)

InHand(id) == InQueue(id) \/ id \in feeding
Claimed(id) == \E r \in Passes : id \in recover[r].claimed \/ Requeues(recover[r], id)
Has(x, id) == x.at # "idle" /\ x.id = id
LooksAt(x, id) == x.at \in AtJob /\ x.id = id

\* A job may be run once more, or a pass has to fail it.
Takeable(id) == Unfinished(id) => row[id].attempts < MaxAttempts
Hopeless(id) == row[id].attempts >= MaxAttempts \/ id \notin input

\* The row of the job of a worker x.  It may be gone, for anyone may delete it.
WorkerSees(x, id) ==
    HasRow(id) =>
        /\ x.at \in {"get", "mark"} => Takeable(id)
        /\ x.at \in {"mark", "run", "write", "succeed", "fail", "discard"} => Unfinished(id)
        /\ x.at = "succeed" => id \in result
        /\ x.at = "clean" => Terminal(id)
        /\ x.at = "discard" => faults # 0

\* The row of the job of a pass x: what the pass has read of it still decides what
\* becomes of it, so two passes that have the same job decide alike.
PassSees(x, id) ==
    HasRow(id) =>
        /\ x.at \in {"check", "fail", "discard"} => row[id].status # "succeeded"
        /\ x.at = "check" => row[id].attempts = x.attempts /\ (Unfinished(id) \/ Hopeless(id))
        /\ x.at \in {"claim", "requeue"} => Unfinished(id) /\ ~Hopeless(id)
        /\ x.at \in {"fail", "discard"} => Hopeless(id)
        /\ x.at = "clean" => Terminal(id)
        /\ x.at = "discard" => faults # 0

RowFits(y) ==
    /\ y.status = "none" => y = NoRow
    /\ y.attempts <= MaxAttempts
    /\ y.leased => y.status \in {"notStarted", "running"}
Ready(id) == InHand(id) \/ Claimed(id) \/ submit[id] = "created" => Takeable(id)
WorkersSee(id) == \A w \in Workers : Has(worker[w], id) => WorkerSees(worker[w], id)
PassesSee(id) == \A r \in Passes : LooksAt(recover[r], id) => PassSees(recover[r], id)

\* After a panic a worker has its job without a claim, and yet to itself.
OnlyOne(w, id) ==
    /\ ~InHand(id) /\ ~Claimed(id)
    /\ \A v \in Workers : Has(worker[v], id) => v = w
Alone(id) == \A w \in Workers : Has(worker[w], id) /\ worker[w].released => OnlyOne(w, id)

\* A committed result is there before its row says so; an input is there until its
\* row is terminal, as long as no step has failed.
NeedsInput(id) == submit[id] = "stored" \/ Unfinished(id)
BlobsFit(id) ==
    /\ row[id].status = "succeeded" => id \in result
    /\ faults = 0 /\ NeedsInput(id) => id \in input

Fits(id) ==
    /\ RowFits(row[id]) /\ Ready(id) /\ WorkersSee(id) /\ PassesSee(id) /\ Alone(id)
    /\ BlobsFit(id)

\* Who removes the blobs of a row has removed the row before.
Ended(id) == HasRow(id) => Terminal(id)
ClientsGone ==
    /\ \A id \in purging : ~HasRow(id) /\ Answered(id)
    /\ \A id \in expired : Answered(id)
SweepGone ==
    /\ sweep.at \in {"expireBlobs", "evictBlobs"} =>
           sweep.id \in Ids /\ ~HasRow(sweep.id) /\ Answered(sweep.id)
    /\ sweep.at \in {"expire", "evict", "expireBlobs", "evictBlobs"} => \A id \in sweep.todo : Answered(id)
    /\ sweep.at \in {"evict", "evictBlobs"} => \A id \in sweep.todo : Ended(id)
    /\ sweep.at \in {"expire", "expireBlobs"} => sweep.todo \subseteq expired
Gone == ClientsGone /\ SweepGone

AllFit == \A id \in Ids : Fits(id)
JInv == IInv /\ Known /\ CInv /\ AllFit /\ Gone

LEMMA JTyped ==
    ASSUME IInv
    PROVE  /\ row \in [Ids -> RowType] /\ worker \in [Workers -> WorkerType]
           /\ \A w \in Workers : WorkerFits(worker[w])
           /\ recover \in [Passes -> RecoverType] /\ \A r \in Passes : RecoverFits(recover[r])
           /\ {input, result, expired, purging, feeding} \subseteq SUBSET Ids
           /\ queue \in Seq(Ids) /\ Len(queue) \in Nat
           /\ submit \in [Ids -> {"new", "admitted", "stored", "created", "acked", "refused"}]
           /\ faults \in Nat /\ sweep \in SweepType
           /\ \A id \in Ids : HasRow(id) => submit[id] \in {"created", "acked", "refused"}
  <1>2. Typed
    BY DEF IInv
  <1>3. /\ row \in [Ids -> RowType] /\ {input, result, expired, purging, feeding} \subseteq SUBSET Ids
        /\ queue \in Seq(Ids) /\ sweep \in SweepType
        /\ submit \in [Ids -> {"new", "admitted", "stored", "created", "acked", "refused"}]
        /\ faults \in Nat
    BY <1>2, BoundsAssumption DEF Typed, StoreTyped, ManagerTyped, FrontTyped
  <1>4. /\ worker \in [Workers -> WorkerType] /\ \A w \in Workers : WorkerFits(worker[w])
        /\ recover \in [Passes -> RecoverType] /\ \A r \in Passes : RecoverFits(recover[r])
    BY <1>2 DEF Typed, WorkersTyped, RecoverTyped, Passes
  <1>5. \A id \in Ids : HasRow(id) => submit[id] \in {"created", "acked", "refused"}
    BY DEF IInv, Old
  <1>6. Len(queue) \in Nat
    BY <1>3, LenProperties
  <1> QED BY <1>3, <1>4, <1>5, <1>6

-----------------------------------------------------------------------------
(* A step that is about other jobs *)

\* The row stays, goes, or loses its lease; blobs go when the row does.
StoreQuiet(id) ==
    /\ \/ row'[id] = row[id]
       \/ row'[id] = NoRow
       \/ /\ HasRow(id) /\ HasRow(id)' /\ ~row'[id].leased
          /\ row'[id].status = row[id].status /\ row'[id].attempts = row[id].attempts
    /\ id \in input' => id \in input
    /\ id \in input => id \in input' \/ (~HasRow(id)' /\ submit'[id] # "stored")
    /\ id \in result => id \in result' \/ ~HasRow(id)'
    /\ faults' = 0 => faults = 0

\* The job comes into no other hands than before, and who had it may rely on the
\* same.
PlacesQuiet(id) ==
    /\ submit'[id] \in {"stored", "created"} => submit'[id] = submit[id]
    /\ (InHand(id) \/ Claimed(id))' => InHand(id) \/ Claimed(id)
WorkersQuiet(id) ==
    \A w \in Workers : Has(worker[w], id)' =>
        \/ worker'[w] = worker[w]
        \/ /\ Has(worker[w], id) \/ InHand(id)
           /\ worker'[w].released => OnlyOne(w, id)
           /\ WorkerSees(worker[w], id)'
PassesQuiet(id) ==
    \A r \in Passes : LooksAt(recover[r], id)' => recover'[r] = recover[r] \/ PassSees(recover[r], id)'
Quiet(id) == StoreQuiet(id) /\ PlacesQuiet(id) /\ WorkersQuiet(id) /\ PassesQuiet(id)

LEMMA QuietFits ==
    ASSUME NEW id \in Ids, Fits(id), Quiet(id)
    PROVE  Fits(id)'
  <1>1. RowFits(row[id]) /\ Ready(id) /\ WorkersSee(id) /\ PassesSee(id) /\ Alone(id) /\ BlobsFit(id)
    BY DEF Fits
  <1>2. StoreQuiet(id) /\ PlacesQuiet(id) /\ WorkersQuiet(id) /\ PassesQuiet(id)
    BY DEF Quiet
  <1>3. NoRow.status = "none" /\ NoRow.attempts = 0 /\ ~NoRow.leased
    BY DEF NoRow
  <1>4. /\ HasRow(id)' => HasRow(id) /\ row'[id].status = row[id].status /\ row'[id].attempts = row[id].attempts
        /\ Unfinished(id)' => HasRow(id)'
    BY <1>2, <1>3 DEF StoreQuiet, HasRow, Unfinished
  <1>5. RowFits(row'[id])
    BY <1>1, <1>2, <1>3, BoundsAssumption DEF StoreQuiet, RowFits, HasRow
  <1>6. HasRow(id)' => /\ Takeable(id) => Takeable(id)'
                       /\ Unfinished(id)' <=> Unfinished(id)
                       /\ Terminal(id)' <=> Terminal(id)
                       /\ Hopeless(id)' <=> Hopeless(id)
    BY <1>2, <1>4 DEF Takeable, Unfinished, Terminal, Hopeless, StoreQuiet
  <1>7. Ready(id)'
    BY <1>1, <1>2, <1>4, <1>6 DEF Ready, PlacesQuiet, Takeable
  <1>8. WorkersSee(id)'
    <2> SUFFICES ASSUME NEW w \in Workers, Has(worker[w], id)' PROVE WorkerSees(worker[w], id)'
      BY DEF WorkersSee
    <2>1. CASE worker'[w] = worker[w]
      <3>1. WorkerSees(worker[w], id)
        BY <1>1, <2>1 DEF WorkersSee, Has
      <3> QED BY <1>2, <1>4, <1>6, <2>1, <3>1 DEF WorkerSees, StoreQuiet
    <2> QED BY <1>2, <2>1 DEF WorkersQuiet
  <1>9. PassesSee(id)'
    <2> SUFFICES ASSUME NEW r \in Passes, LooksAt(recover[r], id)' PROVE PassSees(recover[r], id)'
      BY DEF PassesSee
    <2>1. CASE recover'[r] = recover[r]
      <3>1. PassSees(recover[r], id)
        BY <1>1, <2>1 DEF PassesSee, LooksAt
      <3> QED BY <1>2, <1>4, <1>6, <2>1, <3>1 DEF PassSees, StoreQuiet
    <2> QED BY <1>2, <2>1 DEF PassesQuiet
  <1>10. Alone(id)'
    <2> SUFFICES ASSUME NEW w \in Workers, Has(worker[w], id)', worker'[w].released
                 PROVE  OnlyOne(w, id)'
      BY DEF Alone
    <2>1. OnlyOne(w, id)
      BY <1>1, <1>2 DEF WorkersQuiet, Alone, Has
    <2>2. ASSUME NEW v \in Workers, Has(worker[v], id)' PROVE v = w
      BY <1>2, <2>1, <2>2 DEF WorkersQuiet, OnlyOne, Has
    <2> QED BY <1>2, <2>1, <2>2 DEF OnlyOne, PlacesQuiet
  <1>11. BlobsFit(id)'
    BY <1>1, <1>2, <1>3, <1>4 DEF BlobsFit, NeedsInput, StoreQuiet, PlacesQuiet, Unfinished, HasRow
  <1> QED BY <1>5, <1>7, <1>8, <1>9, <1>10, <1>11 DEF Fits

-----------------------------------------------------------------------------
(* Who has a job has it alone *)

LEMMA InSome ==
    ASSUME NEW T, IsFiniteSet(T), NEW A \in SUBSET T
    PROVE  /\ Cardinality(A) \in Nat
           /\ \A x \in A : Cardinality(A) >= 1
           /\ \A x, y \in A : x # y => Cardinality(A) >= 2
  <1>1. IsFiniteSet(A) /\ Cardinality(A) \in Nat
    BY FS_Subset, FS_CardinalityType
  <1>2. ASSUME NEW x \in A
        PROVE  /\ IsFiniteSet(A \ {x}) /\ Cardinality(A \ {x}) \in Nat
               /\ Cardinality(A) = Cardinality(A \ {x}) + 1
    <2>1. Cardinality(A \ {x}) = Cardinality(A) - 1
      BY <1>1, FS_RemoveElement
    <2>2. IsFiniteSet(A \ {x}) /\ Cardinality(A \ {x}) \in Nat
      BY <1>1, FS_Subset, FS_CardinalityType
    <2> QED BY <1>1, <2>1, <2>2
  <1>3. ASSUME NEW x \in A, NEW y \in A, x # y PROVE Cardinality(A) >= 2
    <2>1. y \in A \ {x}
      BY <1>3
    <2>2. Cardinality(A \ {x}) # 0
      BY <1>2, <2>1, FS_EmptySet
    <2>3. PICK k : k = Cardinality(A \ {x})
      OBVIOUS
    <2>4. k \in Nat /\ k # 0 /\ Cardinality(A) = k + 1
      BY <1>2, <2>2, <2>3
    <2>5. k >= 1
      BY <2>4
    <2> QED BY <2>4, <2>5
  <1>4. ASSUME NEW x \in A PROVE Cardinality(A) >= 1
    <2>1. PICK k \in Nat : Cardinality(A) = k + 1
      BY <1>2
    <2>2. k + 1 >= 1
      OBVIOUS
    <2> QED BY <2>1, <2>2
  <1> QED BY <1>1, <1>3, <1>4

\* ClaimedOnce, place by place: a job is in one of them.
LEMMA OnePlace ==
    ASSUME IInv, ClaimedOnce, NEW id \in Ids
    PROVE  /\ \A w \in Workers : Holds(worker[w], id) =>
                  /\ ~InHand(id) /\ ~Claimed(id)
                  /\ \A v \in Workers : Holds(worker[v], id) => v = w
           /\ InHand(id) \/ Claimed(id) => id \in claims
  <1> DEFINE q == Cardinality(QueuedAs(queue, id))
             h == Cardinality(HeldAs(worker, id))
             c == Cardinality(ClaimedBy(recover, id))
             n == Cardinality(RequeuedBy(recover, id))
             f == One(id \in feeding)
  <1>1. queue \in Seq(Ids)
    BY JTyped
  <1>2. /\ q \in Nat /\ h \in Nat /\ c \in Nat /\ n \in Nat /\ f \in Nat
    BY <1>1, CountsNat DEF One
  <1>3. q + h + c + n + f = IF id \in claims THEN 1 ELSE 0
    BY <1>1, PlacesAre DEF ClaimedOnce, InAll
  <1>4. InQueue(id) => q >= 1
    <2>1. QueuedAs(queue, id) \subseteq 1 .. Len(queue) /\ IsFiniteSet(1 .. Len(queue))
      <3>1. Len(queue) \in Nat
        BY JTyped
      <3> QED BY <3>1, FS_Interval DEF QueuedAs
    <2>2. ASSUME NEW i \in 1 .. Len(queue), queue[i] = id PROVE q >= 1
      <3>1. i \in QueuedAs(queue, id)
        BY <2>2 DEF QueuedAs
      <3> QED BY <2>1, <3>1, InSome
    <2> QED BY <2>2 DEF InQueue
  <1>5. \A w \in Workers : Holds(worker[w], id) => h >= 1 /\ \A v \in Workers : Holds(worker[v], id) /\ v # w => h >= 2
    <2>1. HeldAs(worker, id) \subseteq Workers /\ IsFiniteSet(Workers)
      BY WorkersAssumption DEF HeldAs
    <2>2. \A w \in Workers : Holds(worker[w], id) => w \in HeldAs(worker, id)
      BY DEF HeldAs
    <2> QED BY <2>1, <2>2, InSome
  <1>6. Claimed(id) => c >= 1 \/ n >= 1
    <2>1. /\ ClaimedBy(recover, id) \subseteq Passes /\ RequeuedBy(recover, id) \subseteq Passes
          /\ IsFiniteSet(Passes)
      BY PassesFinite DEF ClaimedBy, RequeuedBy
    <2>2. ASSUME NEW r \in Passes, id \in recover[r].claimed \/ Requeues(recover[r], id)
          PROVE  c >= 1 \/ n >= 1
      <3>1. r \in ClaimedBy(recover, id) \/ r \in RequeuedBy(recover, id)
        BY <2>2 DEF ClaimedBy, RequeuedBy
      <3> QED BY <2>1, <3>1, InSome
    <2> QED BY <2>2 DEF Claimed
  <1>7. id \in feeding => f = 1
    BY DEF One
  <1> HIDE DEF q, h, c, n, f
  <1>8. ASSUME NEW w \in Workers, Holds(worker[w], id)
        PROVE  /\ ~InHand(id) /\ ~Claimed(id)
               /\ \A v \in Workers : Holds(worker[v], id) => v = w
    <2>1. h = 1 /\ q = 0 /\ c = 0 /\ n = 0 /\ f = 0
      BY <1>2, <1>3, <1>5, <1>8
    <2> QED BY <1>4, <1>5, <1>6, <1>7, <1>8, <2>1 DEF InHand
  <1>9. InHand(id) \/ Claimed(id) => id \in claims
    BY <1>2, <1>3, <1>4, <1>6, <1>7 DEF InHand
  <1> QED BY <1>8, <1>9

LEMMA Single ==
    ASSUME IInv, ClaimedOnce, NEW id \in Ids, Alone(id), NEW w \in Workers, Has(worker[w], id)
    PROVE  OnlyOne(w, id)
  <1>1. CASE worker[w].released
    BY <1>1 DEF Alone
  <1>2. CASE ~worker[w].released
    <2>1. Holds(worker[w], id)
      BY <1>2 DEF Holds, Has
    <2>2. ASSUME NEW v \in Workers, Has(worker[v], id) PROVE v = w
      <3>1. CASE worker[v].released
        BY <2>2, <3>1 DEF Alone, OnlyOne
      <3>2. CASE ~worker[v].released
        <4>1. Holds(worker[v], id)
          BY <2>2, <3>2 DEF Holds, Has
        <4> QED BY <2>1, <4>1, OnePlace
      <3> QED BY <3>1, <3>2
    <2> QED BY <2>1, <2>2, OnePlace DEF OnlyOne
  <1> QED BY <1>1, <1>2

\* What is known of a job that somebody has.
LEMMA InNobodysHands ==
    ASSUME Known, NEW id \in Ids, ~Answered(id)
    PROVE  /\ ~InHand(id) /\ ~Claimed(id)
           /\ \A w \in Workers : ~Has(worker[w], id)
           /\ \A r \in Passes : ~LooksAt(recover[r], id)
  <1>1. ~Mentioned(id)
    BY DEF Known
  <1>2. \A r \in Passes : id \notin Seen(recover[r])
    BY <1>1 DEF Mentioned
  <1>3. \A r \in Passes : id \notin recover[r].claimed /\ ~LooksAt(recover[r], id)
    BY <1>2 DEF Seen, LooksAt
  <1>4. \A r \in Passes : Requeues(recover[r], id) => LooksAt(recover[r], id)
    BY DEF Requeues, LooksAt, AtJob
  <1> QED BY <1>1, <1>3, <1>4 DEF Mentioned, InHand, Claimed, AtWork, Has

-----------------------------------------------------------------------------
(* The job that a step is about: one lemma for each kind of actor *)

StoreSame(id) ==
    /\ row'[id] = row[id] /\ (id \in input' <=> id \in input) /\ (id \in result' <=> id \in result)
    /\ faults' = 0 => faults = 0
RowInOrder(id) ==
    /\ RowFits(row'[id]) /\ (row'[id].status = "succeeded" => id \in result')
    /\ faults' = 0 /\ Unfinished(id)' => id \in input'

\* A worker goes on with its job, or is done with it.
LEMMA WorkerActs ==
    ASSUME JInv, Undisturbed, NEW w \in Workers, worker[w].at # "idle", NEW j, j = worker[w].id,
           NEW y, worker' = [worker EXCEPT ![w] = y],
           y.at = "idle" \/ (y.id = j /\ WorkerSees(worker[w], j)'),
           UNCHANGED <<submit, queue, feeding, recover>>,
           \A id \in Ids \ {j} : StoreSame(id),
           RowInOrder(j)
    PROVE  AllFit'
  <1>1. j = worker[w].id
    OBVIOUS
  <1>2. /\ j \in Ids /\ Has(worker[w], j) /\ worker \in [Workers -> WorkerType]
        /\ \A i \in Ids : Fits(i)
    BY <1>1, JTyped DEF JInv, AllFit, WorkerFits, Has
  <1>3. OnlyOne(w, j)
    BY <1>2, Single DEF JInv, CInv, Fits
  <1>4. Answered(j)
    BY <1>2 DEF JInv, Known, Mentioned, AtWork, Has
  <1>5. \A r \in Passes : LooksAt(recover[r], j) => recover[r].at = "get"
    <2> SUFFICES ASSUME NEW r \in Passes, LooksAt(recover[r], j), recover[r].at # "get" PROVE FALSE
      OBVIOUS
    <2>1. recover[r].at \notin {"idle", "scan", "next", "get"} /\ recover[r].id = j
      BY DEF LooksAt, AtJob
    <2> QED BY <1>1, <2>1 DEF Undisturbed, Passes
  <1>6. \A v \in Workers : worker'[v] = IF v = w THEN y ELSE worker[v]
    BY <1>2
  <1>7. \A i : (InHand(i)' <=> InHand(i)) /\ (Claimed(i)' <=> Claimed(i))
    BY DEF InHand, InQueue, Claimed, Requeues
  <1>8. ASSUME NEW i \in Ids, i # j PROVE Fits(i)'
    <2>1. StoreSame(i)
      BY <1>1, <1>8
    <2>2. StoreQuiet(i) /\ PlacesQuiet(i)
      BY <1>7, <2>1 DEF StoreQuiet, StoreSame, PlacesQuiet
    <2>3. WorkersQuiet(i)
      BY <1>1, <1>6, <1>8 DEF WorkersQuiet, Has
    <2>4. PassesQuiet(i)
      BY DEF PassesQuiet
    <2> QED BY <1>2, <2>2, <2>3, <2>4, QuietFits DEF Quiet
  <1>9. Fits(j)'
    <2>1. RowFits(row'[j]) /\ BlobsFit(j)'
      BY <1>1, <1>4 DEF RowInOrder, BlobsFit, NeedsInput, Answered
    <2>2. Ready(j)'
      BY <1>3, <1>4, <1>7 DEF OnlyOne, Ready, Answered
    <2>3. \A v \in Workers : Has(worker[v], j)' => v = w /\ y.at # "idle"
      BY <1>3, <1>6 DEF OnlyOne, Has
    <2>4. WorkersSee(j)'
      <3> SUFFICES ASSUME NEW v \in Workers, Has(worker[v], j)' PROVE WorkerSees(worker[v], j)'
        BY DEF WorkersSee
      <3>1. v = w /\ y.at # "idle"
        BY <2>3
      <3> QED BY <1>1, <3>1
    <2>5. PassesSee(j)'
      BY <1>5 DEF PassesSee, PassSees, LooksAt
    <2>6. Alone(j)'
      BY <1>3, <1>7, <2>3 DEF Alone, OnlyOne
    <2> QED BY <2>1, <2>2, <2>4, <2>5, <2>6 DEF Fits
  <1> QED BY <1>8, <1>9 DEF AllFit

-----------------------------------------------------------------------------
(* Workers *)

LEMMA WorkerAtIs ==
    ASSUME JInv, NEW w \in Workers, NEW step, WorkerAt(w, step)
    PROVE  \E y : worker' = [worker EXCEPT ![w] = y] /\ y.at = step /\ y.id = worker[w].id
  <1> DEFINE y == [worker[w] EXCEPT !.at = step]
  <1>1. worker' = [worker EXCEPT ![w] = y] /\ y.at = step /\ y.id = worker[w].id
    BY JTyped DEF WorkerAt, WorkerType, JInv
  <1> HIDE DEF y
  <1> QED BY <1>1

LEMMA UpdateIs ==
    ASSUME JInv, NEW id \in Ids, NEW status \in Statuses \ {"none"}, NEW leased \in BOOLEAN,
           Update(id, status, leased)
    PROVE  \E z : /\ \A j \in Ids : row'[j] = IF j = id THEN z ELSE row[j]
                  /\ ~HasRow(id) => z = row[id]
                  /\ HasRow(id) => /\ z # NoRow /\ z.status = status /\ z.leased = leased
                                   /\ z.attempts = row[id].attempts
  <1> DEFINE y == [row[id] EXCEPT !.status = status, !.leased = leased]
  <1>1. row \in [Ids -> RowType]
    BY JTyped DEF JInv
  <1>2. CASE HasRow(id)
    <2>1. y.status = status /\ y.leased = leased /\ y.attempts = row[id].attempts
      BY <1>1 DEF RowType
    <2>2. row' = [row EXCEPT ![id] = y]
      <3>1. row' = [row EXCEPT ![id].status = status, ![id].leased = leased]
        BY <1>2 DEF Update
      <3> QED BY <1>1, <3>1 DEF RowType
    <2>3. y # NoRow
      BY <2>1 DEF NoRow
    <2> HIDE DEF y
    <2> QED BY <1>1, <1>2, <2>1, <2>2, <2>3
  <1>3. CASE ~HasRow(id)
    BY <1>3 DEF Update
  <1> QED BY <1>2, <1>3

LEMMA FinishedIs ==
    ASSUME NEW w, Finished(w)
    PROVE  worker' = [worker EXCEPT ![w] = Idle] /\ Idle.at = "idle"
  BY DEF Finished, Idle

LEMMA NoNewFault ==
    ASSUME faults \in Nat, UNCHANGED bounds \/ Fault
    PROVE  faults' = 0 => faults = 0
  BY DEF Fault, bounds

LEMMA FaultCounts == ASSUME faults \in Nat, Fault PROVE faults' # 0
  BY DEF Fault

\* What is known of the job of a worker, and of any row.
LEMMA WorkerKnows ==
    ASSUME JInv, NEW w \in Workers, worker[w].at # "idle", NEW j, j = worker[w].id
    PROVE  /\ j \in Ids /\ WorkerSees(worker[w], j) /\ RowFits(row[j]) /\ BlobsFit(j)
           /\ faults \in Nat /\ row \in [Ids -> RowType] /\ worker \in [Workers -> WorkerType]
           /\ \A id \in Ids : Fits(id)
  <1>1. /\ j \in Ids /\ faults \in Nat /\ row \in [Ids -> RowType]
        /\ worker \in [Workers -> WorkerType]
    BY JTyped DEF JInv, WorkerFits
  <1>2. Fits(j) /\ \A id \in Ids : Fits(id)
    BY <1>1 DEF JInv, AllFit
  <1>3. Has(worker[w], j)
    BY DEF Has
  <1> QED BY <1>1, <1>2, <1>3 DEF Fits, WorkersSee

\* A step that leaves rows and blobs alone.
LEMMA WorkerTurns ==
    ASSUME JInv, Undisturbed, NEW w \in Workers, worker[w].at # "idle", NEW j, j = worker[w].id,
           NEW y, worker' = [worker EXCEPT ![w] = y],
           y.at = "idle" \/ (y.id = j /\ WorkerSees(worker[w], j)'),
           UNCHANGED <<row, input, result, submit, queue, feeding, recover>>,
           faults' = 0 => faults = 0
    PROVE  AllFit'
  <1>1. RowFits(row[j]) /\ BlobsFit(j) /\ j \in Ids
    BY WorkerKnows
  <1>2. RowInOrder(j)
    BY <1>1 DEF RowInOrder, BlobsFit, NeedsInput, Unfinished
  <1>3. \A id \in Ids \ {j} : StoreSame(id)
    BY DEF StoreSame
  <1> QED BY <1>2, <1>3, WorkerActs

LEMMA WorkerRests ==
    ASSUME JInv, Undisturbed, NEW w \in Workers, worker[w].at # "idle", Finished(w),
           UNCHANGED <<row, input, result, submit, queue, feeding, recover>>,
           faults' = 0 => faults = 0
    PROVE  AllFit'
  <1>1. PICK y : worker' = [worker EXCEPT ![w] = y] /\ y.at = "idle"
    BY FinishedIs
  <1>2. PICK j : j = worker[w].id
    OBVIOUS
  <1>3. y.at = "idle" \/ (y.id = j /\ WorkerSees(worker[w], j)')
    BY <1>1
  <1> QED BY <1>1, <1>2, <1>3, WorkerTurns

\* A status is one of five, and a row that is there has one of four.
LEMMA RowIs ==
    ASSUME JInv, NEW id \in Ids, HasRow(id)
    PROVE  /\ Unfinished(id) \/ Terminal(id)
           /\ ~(Unfinished(id) /\ Terminal(id))
           /\ row[id].attempts \in Nat
  <1>1. row[id] \in RowType /\ RowFits(row[id])
    BY JTyped DEF JInv, AllFit, Fits
  <1> QED BY <1>1 DEF RowType, Statuses, RowFits, HasRow, Unfinished, Terminal

\* A worker takes the job at the head of the queue, which has the lease of nobody.
LEMMA TakeFits == ASSUME JInv, NEW w \in Workers, TakeJob(w) PROVE AllFit'
  <1> DEFINE y == [Idle EXCEPT !.at = "get", !.id = Head(queue)]
  <1>1. /\ worker' = [worker EXCEPT ![w] = y] /\ queue # <<>> /\ queue' = Tail(queue)
        /\ UNCHANGED <<row, input, result, submit, feeding, recover, faults>>
    BY DEF TakeJob, persistent, bounds
  <1>2. y.at = "get" /\ y.id = Head(queue) /\ ~y.released
    BY DEF Idle
  <1> HIDE DEF y
  <1>3. worker \in [Workers -> WorkerType] /\ queue \in Seq(Ids)
    BY JTyped DEF JInv
  <1>4. \A v \in Workers : worker'[v] = IF v = w THEN y ELSE worker[v]
    BY <1>1, <1>3
  <1>5. InQueue(Head(queue)) /\ \A j : InQueue(j)' => InQueue(j)
    BY <1>1, <1>3, QueueEnds
  <1> SUFFICES ASSUME NEW id \in Ids PROVE Fits(id)'
    BY DEF AllFit
  <1>6. Fits(id)
    BY DEF JInv, AllFit
  <1>7. StoreQuiet(id) /\ PlacesQuiet(id) /\ PassesQuiet(id)
    BY <1>1, <1>5 DEF StoreQuiet, PlacesQuiet, PassesQuiet, InHand, Claimed, Requeues
  <1>8. WorkersQuiet(id)
    <2> SUFFICES ASSUME NEW v \in Workers, Has(worker[v], id)', worker'[v] # worker[v]
                 PROVE  /\ InHand(id) /\ ~worker'[v].released
                        /\ WorkerSees(worker[v], id)'
      BY DEF WorkersQuiet
    <2>1. v = w /\ worker'[v] = y /\ id = Head(queue)
      BY <1>2, <1>4 DEF Has
    <2>2. InHand(id)
      BY <1>5, <2>1 DEF InHand
    <2>3. Takeable(id)'
      BY <1>1, <1>6, <2>2 DEF Fits, Ready, Takeable, Unfinished
    <2> QED BY <1>2, <2>1, <2>2, <2>3 DEF WorkerSees
  <1> QED BY <1>6, <1>7, <1>8, QuietFits DEF Quiet

LEMMA StartFits ==
    ASSUME JInv, Undisturbed, NEW w \in Workers, GetJob(w) \/ MarkRunning(w)
    PROVE  AllFit'
  <1>1. PICK j : j = worker[w].id
    OBVIOUS
  <1>2. worker[w].at # "idle"
    BY DEF GetJob, MarkRunning
  <1>3. /\ j \in Ids /\ WorkerSees(worker[w], j) /\ RowFits(row[j]) /\ BlobsFit(j)
        /\ faults \in Nat /\ row \in [Ids -> RowType] /\ worker \in [Workers -> WorkerType]
    BY <1>1, <1>2, WorkerKnows
  <1>4. UNCHANGED bounds \/ Fault => (faults' = 0 => faults = 0)
    BY <1>3, NoNewFault
  <1>5. CASE GetJob(w)
    <2>1. UNCHANGED <<row, input, result, submit, queue, feeding, recover>> /\ (UNCHANGED bounds \/ Fault)
      BY <1>5 DEF GetJob, persistent
    <2>2. CASE HasRow(j) /\ ~Terminal(j) /\ WorkerAt(w, "mark")
      <3>1. PICK y : worker' = [worker EXCEPT ![w] = y] /\ y.at = "mark" /\ y.id = j
        BY <1>1, <2>2, WorkerAtIs
      <3>2. Unfinished(j) /\ Takeable(j)
        BY <1>3, <1>5, <2>2, RowIs DEF GetJob, WorkerSees
      <3>3. Unfinished(j)' /\ Takeable(j)' /\ worker'[w].at = "mark"
        BY <1>3, <2>1, <3>1, <3>2 DEF Unfinished, Takeable
      <3>4. WorkerSees(worker[w], j)'
        BY <3>3 DEF WorkerSees
      <3> QED BY <1>1, <1>2, <1>4, <2>1, <3>1, <3>4, WorkerTurns
    <2>3. CASE Finished(w)
      BY <1>2, <1>4, <2>1, <2>3, WorkerRests
    <2> QED BY <1>1, <1>5, <2>2, <2>3 DEF GetJob
  <1>6. CASE MarkRunning(w)
    <2>1. UNCHANGED <<input, result, submit, queue, feeding, recover>> /\ (UNCHANGED bounds \/ Fault)
      BY <1>6 DEF MarkRunning
    <2>2. CASE Finished(w) /\ UNCHANGED row
      BY <1>2, <1>4, <2>1, <2>2, WorkerRests
    <2>3. CASE /\ MarkedRunning(j)
               /\ worker' = [worker EXCEPT ![w].at = "run", ![w].sawInput = j \in input]
      <3>1. PICK y : worker' = [worker EXCEPT ![w] = y] /\ y.at = "run" /\ y.id = j
        <4> DEFINE b == j \in input
                   y == [worker[w] EXCEPT !.at = "run", !.sawInput = b]
        <4>1. worker' = [worker EXCEPT ![w] = y] /\ y.at = "run" /\ y.id = j
          BY <1>1, <1>3, <2>3 DEF WorkerType
        <4> HIDE DEF y
        <4> QED BY <4>1
      <3>2. worker'[w].at = "run"
        BY <1>3, <3>1
      <3>3. CASE ~HasRow(j)
        <4>1. UNCHANGED row /\ ~HasRow(j)'
          BY <2>3, <3>3 DEF MarkedRunning, HasRow
        <4>2. WorkerSees(worker[w], j)'
          BY <4>1 DEF WorkerSees
        <4> QED BY <1>1, <1>2, <1>4, <2>1, <3>1, <4>1, <4>2, WorkerTurns
      <3>4. CASE HasRow(j)
        <4> DEFINE z == [status |-> "running", attempts |-> row[j].attempts + 1, leased |-> TRUE]
        <4>1. row' = [row EXCEPT ![j] = z]
          BY <2>3, <3>4 DEF MarkedRunning
        <4>2. z.status = "running" /\ z.attempts = row[j].attempts + 1
          OBVIOUS
        <4> HIDE DEF z
        <4>3. row'[j] = z /\ \A id \in Ids \ {j} : row'[id] = row[id]
          BY <1>3, <4>1
        <4>4. Takeable(j) /\ Unfinished(j)
          BY <1>3, <1>6, <3>4 DEF WorkerSees, MarkRunning
        <4>5. z.attempts <= MaxAttempts
          BY <1>3, <3>4, <4>2, <4>4, RowIs, BoundsAssumption DEF Takeable
        <4>6. RowInOrder(j)
          BY <1>3, <1>4, <2>1, <4>2, <4>3, <4>4, <4>5 DEF RowInOrder, RowFits, BlobsFit, NeedsInput
        <4>7. WorkerSees(worker[w], j)'
          BY <3>2, <4>2, <4>3 DEF WorkerSees, Unfinished
        <4>8. \A id \in Ids \ {j} : StoreSame(id)
          BY <1>4, <2>1, <4>3 DEF StoreSame
        <4> QED BY <1>1, <1>2, <2>1, <3>1, <4>6, <4>7, <4>8, WorkerActs
      <3> QED BY <3>3, <3>4
    <2> QED BY <1>1, <1>6, <2>2, <2>3 DEF MarkRunning
  <1> QED BY <1>5, <1>6

LEMMA EngineFits ==
    ASSUME JInv, Undisturbed, NEW w \in Workers, EngineReturns(w) \/ EnginePanics(w) \/ WriteResult(w)
    PROVE  AllFit'
  <1>1. PICK j : j = worker[w].id
    OBVIOUS
  <1>2. worker[w].at # "idle"
    BY DEF EngineReturns, EnginePanics, WriteResult
  <1>3. /\ j \in Ids /\ WorkerSees(worker[w], j) /\ RowFits(row[j]) /\ BlobsFit(j)
        /\ faults \in Nat /\ row \in [Ids -> RowType] /\ worker \in [Workers -> WorkerType]
    BY <1>1, <1>2, WorkerKnows
  <1>4. UNCHANGED <<row, submit, queue, feeding, recover>>
    BY DEF EngineReturns, EnginePanics, WriteResult, persistent, manager
  <1>5. HasRow(j)' => HasRow(j) /\ Unfinished(j)'
    BY <1>2, <1>3, <1>4 DEF WorkerSees, EngineReturns, EnginePanics, WriteResult, HasRow, Unfinished
  <1>6. CASE EngineReturns(w) \/ EnginePanics(w)
    <2>1. UNCHANGED <<input, result, faults>>
      BY <1>6 DEF EngineReturns, EnginePanics, persistent, bounds
    <2>2. PICK y : worker' = [worker EXCEPT ![w] = y] /\ y.at \in {"write", "fail"} /\ y.id = j
      <3>1. CASE EngineReturns(w)
        <4>1. CASE WorkerAt(w, "write")
          BY <1>1, <4>1, WorkerAtIs
        <4>2. CASE WorkerAt(w, "fail")
          BY <1>1, <4>2, WorkerAtIs
        <4> QED BY <3>1, <4>1, <4>2 DEF EngineReturns
      <3>2. CASE EnginePanics(w)
        <4> DEFINE y == [worker[w] EXCEPT !.at = "fail", !.released = TRUE]
        <4>1. worker' = [worker EXCEPT ![w] = y] /\ y.at = "fail" /\ y.id = j
          BY <1>1, <1>3, <3>2 DEF EnginePanics, WorkerType
        <4> HIDE DEF y
        <4> QED BY <4>1
      <3> QED BY <1>6, <3>1, <3>2
    <2>3. worker'[w].at \in {"write", "fail"}
      BY <1>3, <2>2
    <2>4. WorkerSees(worker[w], j)'
      BY <1>5, <2>3 DEF WorkerSees
    <2> QED BY <1>1, <1>2, <1>4, <2>1, <2>2, <2>4, WorkerTurns
  <1>7. CASE WriteResult(w)
    <2>1. UNCHANGED input
      BY <1>7 DEF WriteResult
    <2>2. CASE result' = result \union {j} /\ WorkerAt(w, "succeed") /\ UNCHANGED bounds
      <3>1. PICK y : worker' = [worker EXCEPT ![w] = y] /\ y.at = "succeed" /\ y.id = j
        BY <1>1, <2>2, WorkerAtIs
      <3>2. worker'[w].at = "succeed" /\ faults' = faults
        BY <1>3, <2>2, <3>1 DEF bounds
      <3>3. WorkerSees(worker[w], j)'
        BY <1>5, <2>2, <3>2 DEF WorkerSees
      <3>4. RowInOrder(j)
        BY <1>3, <1>4, <2>1, <2>2, <3>2 DEF RowInOrder, BlobsFit, NeedsInput, Unfinished
      <3>5. \A id \in Ids \ {j} : StoreSame(id)
        BY <1>4, <2>1, <2>2, <3>2 DEF StoreSame
      <3> QED BY <1>1, <1>2, <1>4, <3>1, <3>3, <3>4, <3>5, WorkerActs
    <2>3. CASE WorkerAt(w, "fail") /\ Fault /\ UNCHANGED result
      <3>1. PICK y : worker' = [worker EXCEPT ![w] = y] /\ y.at = "fail" /\ y.id = j
        BY <1>1, <2>3, WorkerAtIs
      <3>2. worker'[w].at = "fail"
        BY <1>3, <3>1
      <3>3. WorkerSees(worker[w], j)'
        BY <1>5, <3>2 DEF WorkerSees
      <3>4. faults' = 0 => faults = 0
        BY <1>3, <2>3, NoNewFault
      <3> QED BY <1>1, <1>2, <1>4, <2>1, <2>3, <3>1, <3>3, <3>4, WorkerTurns
    <2> QED BY <1>1, <1>7, <2>2, <2>3 DEF WriteResult
  <1> QED BY <1>6, <1>7

\* Succeed and Fail: the row says how the job ended, or there is nothing to say it.
LEMMA EndFits ==
    ASSUME JInv, Undisturbed, NEW w \in Workers, Succeed(w) \/ Fail(w)
    PROVE  AllFit'
  <1>1. PICK j : j = worker[w].id
    OBVIOUS
  <1>2. worker[w].at \in {"succeed", "fail"} /\ worker[w].at # "idle"
    BY DEF Succeed, Fail
  <1>3. /\ j \in Ids /\ WorkerSees(worker[w], j) /\ RowFits(row[j]) /\ BlobsFit(j)
        /\ faults \in Nat /\ row \in [Ids -> RowType] /\ worker \in [Workers -> WorkerType]
    BY <1>1, <1>2, WorkerKnows
  <1>4. UNCHANGED <<input, result, submit, queue, feeding, recover>>
    BY DEF Succeed, Fail, manager
  <1>5. CASE UNCHANGED row /\ Fault /\ WorkerAt(w, IF worker[w].at = "succeed" THEN "fail" ELSE "discard")
    <2>1. PICK y : /\ worker' = [worker EXCEPT ![w] = y] /\ y.at \in {"fail", "discard"} /\ y.id = j
      BY <1>1, <1>5, WorkerAtIs
    <2>2. worker'[w].at \in {"fail", "discard"} /\ faults' # 0
      BY <1>3, <1>5, <2>1, FaultCounts
    <2>3. HasRow(j)' => Unfinished(j)'
      BY <1>2, <1>3, <1>5 DEF WorkerSees, HasRow, Unfinished
    <2>4. WorkerSees(worker[w], j)'
      BY <2>2, <2>3 DEF WorkerSees
    <2> QED BY <1>1, <1>2, <1>4, <1>5, <2>1, <2>2, <2>4, WorkerTurns
  <1>6. ASSUME NEW end \in {"succeeded", "failed"}, end = "succeeded" => worker[w].at = "succeed",
               Update(j, end, FALSE), WorkerAt(w, IF HasRow(j) THEN "clean" ELSE "discard"), UNCHANGED bounds
        PROVE  AllFit'
    <2>1. PICK y : /\ worker' = [worker EXCEPT ![w] = y] /\ y.id = j
                   /\ y.at = IF HasRow(j) THEN "clean" ELSE "discard"
      BY <1>1, <1>6, WorkerAtIs
    <2>2. worker'[w].at = IF HasRow(j) THEN "clean" ELSE "discard"
      BY <1>3, <2>1
    <2>3. faults' = faults
      BY <1>6 DEF bounds
    <2>4. PICK z : /\ \A id \in Ids : row'[id] = IF id = j THEN z ELSE row[id]
                   /\ ~HasRow(j) => z = row[j]
                   /\ HasRow(j) => z # NoRow /\ z.status = end /\ z.leased = FALSE /\ z.attempts = row[j].attempts
      BY <1>3, <1>6, UpdateIs DEF Statuses
    <2>5. row'[j] = z /\ \A id \in Ids \ {j} : row'[id] = row[id]
      BY <1>3, <2>4
    <2>6. HasRow(j)' => HasRow(j) /\ Terminal(j)'
      BY <2>4, <2>5 DEF HasRow, Terminal
    <2>7. WorkerSees(worker[w], j)'
      BY <2>2, <2>6 DEF WorkerSees
    <2>8. RowInOrder(j)
      <3>1. CASE HasRow(j)
        BY <1>3, <1>4, <1>6, <2>4, <2>5, <3>1 DEF RowInOrder, RowFits, Unfinished, WorkerSees
      <3>2. CASE ~HasRow(j)
        <4>1. z = NoRow /\ z.status = "none"
          BY <2>4, <3>2 DEF HasRow, NoRow
        <4> QED BY <1>3, <2>4, <2>5, <3>2, <4>1 DEF RowInOrder, Unfinished
      <3> QED BY <3>1, <3>2
    <2>9. \A id \in Ids \ {j} : StoreSame(id)
      BY <1>4, <2>3, <2>5 DEF StoreSame
    <2> QED BY <1>1, <1>2, <1>4, <2>1, <2>7, <2>8, <2>9, WorkerActs
  <1>7. CASE Succeed(w)
    <2>1. worker[w].at = "succeed"
      BY <1>7 DEF Succeed
    <2> QED BY <1>1, <1>5, <1>6, <1>7, <2>1 DEF Succeed
  <1>8. CASE Fail(w)
    <2>1. worker[w].at = "fail"
      BY <1>8 DEF Fail
    <2> QED BY <1>1, <1>5, <1>6, <1>8, <2>1 DEF Fail
  <1> QED BY <1>7, <1>8

LEMMA RunEndFits ==
    ASSUME JInv, Undisturbed, NEW w \in Workers, RunEnds(w)
    PROVE  AllFit'
  <1>1. PICK j : j = worker[w].id
    OBVIOUS
  <1>2. worker[w].at \in {"clean", "discard"} /\ worker[w].at # "idle"
    BY DEF RunEnds
  <1>3. /\ j \in Ids /\ WorkerSees(worker[w], j) /\ RowFits(row[j]) /\ BlobsFit(j)
        /\ faults \in Nat /\ row \in [Ids -> RowType]
    BY <1>1, <1>2, WorkerKnows
  <1>4. PICK y : worker' = [worker EXCEPT ![w] = y] /\ y.at = "idle"
    BY FinishedIs DEF RunEnds
  <1>5. UNCHANGED <<row, submit, queue, feeding, recover, faults>>
    BY DEF RunEnds, bounds
  <1>6. \A id \in Ids \ {j} : StoreSame(id)
    BY <1>1, <1>5 DEF RunEnds, RemoveInput, RemoveAll, StoreSame
  <1>7. Unfinished(j) => HasRow(j) /\ ~Terminal(j)
    BY DEF Unfinished, HasRow, NoRow, Terminal
  <1>8. Unfinished(j) => worker[w].at = "discard" /\ faults # 0
    BY <1>2, <1>3, <1>7 DEF WorkerSees
  <1>9. row[j].status = "succeeded" => j \in result'
    <2> SUFFICES ASSUME row[j].status = "succeeded" PROVE j \in result'
      OBVIOUS
    <2>1. HasRow(j) /\ ~Unfinished(j)
      BY DEF HasRow, NoRow, Unfinished
    <2>2. worker[w].at = "clean"
      BY <1>2, <1>3, <2>1 DEF WorkerSees
    <2> QED BY <1>3, <2>2 DEF RunEnds, RemoveInput, BlobsFit
  <1>10. RowInOrder(j)
    BY <1>3, <1>5, <1>8, <1>9 DEF RowInOrder, Unfinished
  <1>11. y.at = "idle" \/ (y.id = j /\ WorkerSees(worker[w], j)')
    BY <1>4
  <1> QED BY <1>1, <1>2, <1>4, <1>5, <1>6, <1>10, <1>11, WorkerActs

-----------------------------------------------------------------------------
(* The passes of recover *)

LEMMA PassAtIs ==
    ASSUME JInv, NEW r \in Passes, NEW step, RecoverAt(r, step)
    PROVE  \E y : /\ recover' = [recover EXCEPT ![r] = y] /\ y.at = step /\ y.id = recover[r].id
                  /\ y.todo = recover[r].todo /\ y.claimed = recover[r].claimed
                  /\ y.attempts = recover[r].attempts
  <1> DEFINE y == [recover[r] EXCEPT !.at = step]
  <1>1. /\ recover' = [recover EXCEPT ![r] = y] /\ y.at = step /\ y.id = recover[r].id
        /\ y.todo = recover[r].todo /\ y.claimed = recover[r].claimed
        /\ y.attempts = recover[r].attempts
    BY JTyped DEF JInv, RecoverAt, RecoverType
  <1> HIDE DEF y
  <1> QED BY <1>1

\* What is known of a pass and of its job.
LEMMA PassKnows ==
    ASSUME JInv, NEW r \in Passes, NEW j, j = recover[r].id
    PROVE  /\ recover[r] \in RecoverType /\ recover \in [Passes -> RecoverType]
           /\ faults \in Nat /\ row \in [Ids -> RowType] /\ \A id \in Ids : Fits(id)
           /\ recover[r].at \in AtJob =>
                  /\ j \in Ids /\ Answered(j)
                  /\ PassSees(recover[r], j) /\ RowFits(row[j]) /\ BlobsFit(j)
  <1>1. /\ recover[r] \in RecoverType /\ recover \in [Passes -> RecoverType]
        /\ faults \in Nat /\ row \in [Ids -> RowType] /\ \A id \in Ids : Fits(id)
    BY JTyped DEF JInv, AllFit, RecoverFits
  <1>2. ASSUME recover[r].at \in AtJob
        PROVE  /\ j \in Ids /\ Answered(j)
               /\ PassSees(recover[r], j) /\ RowFits(row[j]) /\ BlobsFit(j)
    <2>1. j \in Ids
      BY <1>2, JTyped DEF JInv, RecoverFits
    <2>2. LooksAt(recover[r], j)
      BY <1>2 DEF LooksAt
    <2>3. Answered(j)
      BY <2>1, <2>2, InNobodysHands DEF JInv
    <2> QED BY <1>1, <2>1, <2>2, <2>3 DEF Fits, PassesSee
  <1> QED BY <1>1, <1>2

\* A step that leaves rows and blobs alone, and claims nothing.
LEMMA PassTurns ==
    ASSUME JInv, NEW r \in Passes, NEW y, recover' = [recover EXCEPT ![r] = y],
           y.claimed \subseteq recover[r].claimed, y.at # "requeue",
           \A id \in Ids : y.at \in AtJob /\ y.id = id => PassSees(recover[r], id)',
           UNCHANGED <<row, input, result, submit, queue, feeding, worker>>,
           faults' = 0 => faults = 0
    PROVE  AllFit'
  <1> SUFFICES ASSUME NEW id \in Ids PROVE Fits(id)'
    BY DEF AllFit
  <1>1. Fits(id) /\ recover \in [Passes -> RecoverType]
    BY JTyped DEF JInv, AllFit
  <1>2. \A p \in Passes : recover'[p] = IF p = r THEN y ELSE recover[p]
    BY <1>1
  <1>3. StoreQuiet(id) /\ WorkersQuiet(id)
    BY DEF StoreQuiet, WorkersQuiet
  <1>4. Claimed(id)' => Claimed(id)
    BY <1>2 DEF Claimed, Requeues
  <1>5. InHand(id)' <=> InHand(id)
    BY DEF InHand, InQueue
  <1>6. PlacesQuiet(id)
    BY <1>4, <1>5 DEF PlacesQuiet
  <1>7. PassesQuiet(id)
    <2> SUFFICES ASSUME NEW p \in Passes, LooksAt(recover[p], id)', recover'[p] # recover[p]
                 PROVE  PassSees(recover[p], id)'
      BY DEF PassesQuiet
    <2>1. p = r /\ recover'[p] = y
      BY <1>2
    <2> QED BY <2>1 DEF LooksAt
  <1> QED BY <1>1, <1>3, <1>6, <1>7, QuietFits DEF Quiet

\* A pass claims its job, changes its row or removes its blobs.
LEMMA PassActs ==
    ASSUME JInv, Undisturbed, NEW r \in Passes, recover[r].at \in AtJob \ {"get"}, NEW j, j = recover[r].id,
           NEW y, recover' = [recover EXCEPT ![r] = y],
           y.at \notin AtJob \/ (y.id = j /\ PassSees(recover[r], j)'),
           y.claimed \subseteq recover[r].claimed \union {j},
           \A x : PassSees(x, j) => PassSees(x, j)',
           \/ Takeable(j)'
           \/ (Takeable(j) => Takeable(j)') /\ y.claimed = recover[r].claimed /\ y.at # "requeue",
           UNCHANGED <<submit, queue, feeding, worker>>,
           \A id \in Ids \ {j} : StoreSame(id),
           RowInOrder(j)
    PROVE  AllFit'
  <1>1. /\ j \in Ids /\ Answered(j) /\ recover \in [Passes -> RecoverType]
        /\ \A id \in Ids : Fits(id)
    BY PassKnows
  <1>2. \A p \in Passes : recover'[p] = IF p = r THEN y ELSE recover[p]
    BY <1>1
  <1>3. \A w \in Workers : ~Has(worker[w], j)
    <2> SUFFICES ASSUME NEW w \in Workers, Has(worker[w], j) PROVE FALSE
      OBVIOUS
    <2>1. recover[r].at \notin {"idle", "scan", "next", "get"} /\ worker[w].at # "idle" /\ worker[w].id = j
      BY DEF Has, AtJob
    <2> QED BY <2>1 DEF Undisturbed, Passes
  <1>4. \A id : InHand(id)' <=> InHand(id)
    BY DEF InHand, InQueue
  <1>5. ASSUME NEW id \in Ids, id # j PROVE Fits(id)'
    <2>1. StoreSame(id)
      BY <1>5
    <2>2. Claimed(id)' => Claimed(id)
      <3> SUFFICES ASSUME NEW p \in Passes, id \in recover'[p].claimed \/ Requeues(recover'[p], id)
                   PROVE  id \in recover[p].claimed \/ Requeues(recover[p], id)
        BY DEF Claimed
      <3>1. ~Requeues(y, id)
        BY <1>5 DEF Requeues, AtJob
      <3> QED BY <1>2, <1>5, <3>1
    <2>3. StoreQuiet(id) /\ PlacesQuiet(id)
      BY <1>4, <2>1, <2>2 DEF StoreQuiet, StoreSame, PlacesQuiet
    <2>4. WorkersQuiet(id) /\ PassesQuiet(id)
      BY <1>2, <1>5 DEF WorkersQuiet, PassesQuiet, LooksAt
    <2> QED BY <1>1, <2>3, <2>4, QuietFits DEF Quiet
  <1>6. Fits(j)'
    <2>1. Fits(j)
      BY <1>1
    <2>2. RowFits(row'[j]) /\ BlobsFit(j)'
      BY <1>1 DEF RowInOrder, BlobsFit, NeedsInput, Answered
    <2>3. Ready(j)'
      <3> SUFFICES ASSUME (InHand(j) \/ Claimed(j))', ~(Takeable(j)') PROVE FALSE
        BY <1>1 DEF Ready, Answered
      <3>1. y.claimed = recover[r].claimed /\ y.at # "requeue" /\ ~Takeable(j)
        OBVIOUS
      <3>2. Claimed(j)' => Claimed(j)
        BY <1>2, <3>1 DEF Claimed, Requeues
      <3> QED BY <1>4, <2>1, <3>1, <3>2 DEF Fits, Ready
    <2>4. WorkersSee(j)' /\ Alone(j)'
      BY <1>3 DEF WorkersSee, Alone, Has
    <2>5. PassesSee(j)'
      <3> SUFFICES ASSUME NEW p \in Passes, LooksAt(recover[p], j)' PROVE PassSees(recover[p], j)'
        BY DEF PassesSee
      <3>1. CASE p = r
        BY <1>2, <3>1 DEF LooksAt
      <3>2. CASE p # r
        <4>1. recover'[p] = recover[p] /\ PassSees(recover[p], j)
          BY <1>2, <2>1, <3>2 DEF LooksAt, Fits, PassesSee
        <4>2. PICK x : x = recover[p]
          OBVIOUS
        <4>3. PassSees(x, j)'
          BY <4>1, <4>2
        <4> QED BY <4>1, <4>2, <4>3 DEF PassSees
      <3> QED BY <3>1, <3>2
    <2> QED BY <2>2, <2>3, <2>4, <2>5 DEF Fits
  <1> QED BY <1>5, <1>6 DEF AllFit

\* Between two jobs, and while the pass reads and checks one.
LEMMA PassLookFits ==
    ASSUME JInv, NEW r \in Passes,
           RecoverScan(r) \/ RecoverNext(r) \/ RecoverGet(r) \/ RecoverCheck(r)
    PROVE  AllFit'
  <1>1. PICK j : j = recover[r].id
    OBVIOUS
  <1>2. /\ recover[r] \in RecoverType /\ recover \in [Passes -> RecoverType]
        /\ faults \in Nat /\ row \in [Ids -> RowType]
        /\ recover[r].at \in AtJob => j \in Ids /\ PassSees(recover[r], j)
    BY <1>1, PassKnows
  <1>3. UNCHANGED <<row, input, result, submit, queue, feeding, worker>> /\ (UNCHANGED bounds \/ Fault)
    BY DEF RecoverScan, RecoverNext, RecoverGet, RecoverCheck, persistent, manager
  <1>4. faults' = 0 => faults = 0
    BY <1>2, <1>3, NoNewFault
  <1>5. ASSUME NEW y, recover' = [recover EXCEPT ![r] = y], y.claimed = recover[r].claimed, y.at = "next"
        PROVE  AllFit'
    <2>1. y.at # "requeue" /\ y.at \notin AtJob
      BY <1>5 DEF AtJob
    <2> QED BY <1>3, <1>4, <1>5, <2>1, PassTurns
  <1>6. ASSUME RecoverAt(r, "next") PROVE AllFit'
    <2>1. PICK y : recover' = [recover EXCEPT ![r] = y] /\ y.at = "next" /\ y.claimed = recover[r].claimed
      BY <1>6, PassAtIs
    <2> QED BY <1>5, <2>1
  <1>7. CASE RecoverScan(r)
    <2>1. ASSUME NEW ids, recover' = [recover EXCEPT ![r].at = "next", ![r].todo = ids] PROVE AllFit'
      <3> DEFINE y == [recover[r] EXCEPT !.at = "next", !.todo = ids]
      <3>1. recover' = [recover EXCEPT ![r] = y] /\ y.at = "next" /\ y.claimed = recover[r].claimed
        BY <1>2, <2>1 DEF RecoverType
      <3> HIDE DEF y
      <3> QED BY <1>5, <3>1
    <2> QED BY <1>6, <1>7, <2>1 DEF RecoverScan
  <1>8. CASE RecoverNext(r)
    <2>1. PICK id \in recover[r].todo :
              recover' = [recover EXCEPT ![r].at = "get", ![r].id = id, ![r].todo = @ \ {id}]
      BY <1>8 DEF RecoverNext
    <2> DEFINE y == [recover[r] EXCEPT !.at = "get", !.id = id, !.todo = @ \ {id}]
    <2>2. recover' = [recover EXCEPT ![r] = y] /\ y.at = "get" /\ y.claimed = recover[r].claimed
      BY <1>2, <2>1 DEF RecoverType
    <2> HIDE DEF y
    <2>3. recover'[r].at = "get" /\ y.at # "requeue"
      BY <1>2, <2>2
    <2>4. \A i \in Ids : PassSees(recover[r], i)'
      BY <2>3 DEF PassSees
    <2> QED BY <1>3, <1>4, <2>2, <2>3, <2>4, PassTurns
  <1>9. CASE RecoverGet(r)
    <2>1. CASE /\ HasRow(j) /\ ~Terminal(j)
               /\ recover' = [recover EXCEPT ![r].at = "check", ![r].attempts = row[j].attempts]
      <3> DEFINE n == row[j].attempts
                 y == [recover[r] EXCEPT !.at = "check", !.attempts = n]
      <3>1. /\ recover' = [recover EXCEPT ![r] = y] /\ y.at = "check" /\ y.claimed = recover[r].claimed
            /\ y.attempts = row[j].attempts /\ y.id = j
        BY <1>1, <1>2, <2>1 DEF RecoverType
      <3> HIDE DEF y
      <3>2. recover'[r].at = "check" /\ recover'[r].attempts = row'[j].attempts /\ y.at # "requeue"
        BY <1>2, <1>3, <3>1
      <3>3. j \in Ids
        BY <1>2, <1>9 DEF RecoverGet, AtJob
      <3>4. Unfinished(j)' /\ row'[j].status # "succeeded"
        BY <1>3, <2>1, <3>3, RowIs DEF Unfinished
      <3>5. PassSees(recover[r], j)'
        BY <3>2, <3>4 DEF PassSees
      <3> QED BY <1>3, <1>4, <3>1, <3>2, <3>5, PassTurns
    <2> QED BY <1>1, <1>6, <1>9, <2>1 DEF RecoverGet
  <1>10. CASE RecoverCheck(r)
    <2>1. recover[r].at = "check" /\ recover[r].at \in AtJob
      BY <1>10 DEF RecoverCheck, AtJob
    <2>2. PICK y : /\ recover' = [recover EXCEPT ![r] = y] /\ y.claimed = recover[r].claimed /\ y.id = j
                   /\ y.at = IF MayRerun(r) THEN "claim" ELSE "fail"
      BY <1>1, <1>10, PassAtIs DEF RecoverCheck
    <2>3. recover'[r].at = (IF MayRerun(r) THEN "claim" ELSE "fail") /\ y.at # "requeue"
      BY <1>2, <2>2
    <2>4. HasRow(j) => /\ row[j].status # "succeeded"
                       /\ MayRerun(r) => ~Hopeless(j) /\ Unfinished(j)
                       /\ ~MayRerun(r) => Hopeless(j)
      <3> SUFFICES ASSUME HasRow(j) PROVE /\ row[j].status # "succeeded"
                                          /\ MayRerun(r) => ~Hopeless(j) /\ Unfinished(j)
                                          /\ ~MayRerun(r) => Hopeless(j)
        OBVIOUS
      <3>1. row[j].attempts \in Nat /\ MaxAttempts \in Nat
        BY <1>2, <2>1, RowIs, BoundsAssumption
      <3>2. /\ recover[r].attempts = row[j].attempts /\ (Unfinished(j) \/ Hopeless(j))
            /\ row[j].status # "succeeded"
        BY <1>2, <2>1 DEF PassSees
      <3> QED BY <1>1, <3>1, <3>2 DEF MayRerun, Hopeless
    <2>5. HasRow(j)' => /\ row'[j].status # "succeeded"
                        /\ MayRerun(r) => ~(Hopeless(j)') /\ Unfinished(j)'
                        /\ ~MayRerun(r) => Hopeless(j)'
      BY <1>3, <2>4 DEF HasRow, Hopeless, Unfinished
    <2>6. PassSees(recover[r], j)'
      BY <2>3, <2>5 DEF PassSees
    <2> QED BY <1>3, <1>4, <2>2, <2>3, <2>6, PassTurns
  <1> QED BY <1>7, <1>8, <1>9, <1>10

\* failJob of a pass: the row, and then the blobs.
LEMMA PassFailFits ==
    ASSUME JInv, Undisturbed, NEW r \in Passes, RecoverFail(r)
    PROVE  AllFit'
  <1>1. PICK j : j = recover[r].id
    OBVIOUS
  <1>2. recover[r].at = "fail" /\ recover[r].at \in AtJob \ {"get"}
    BY DEF RecoverFail, AtJob
  <1>3. /\ recover[r] \in RecoverType /\ recover \in [Passes -> RecoverType]
        /\ faults \in Nat /\ row \in [Ids -> RowType] /\ j \in Ids
        /\ PassSees(recover[r], j) /\ RowFits(row[j]) /\ BlobsFit(j)
    BY <1>1, <1>2, PassKnows
  <1>4. UNCHANGED <<input, result, submit, queue, feeding, worker>>
    BY DEF RecoverFail, manager
  <1>5. HasRow(j) => row[j].status # "succeeded" /\ Hopeless(j)
    BY <1>2, <1>3 DEF PassSees
  <1>6. CASE RecoverAt(r, "discard") /\ Fault /\ UNCHANGED row
    <2>1. PICK y : recover' = [recover EXCEPT ![r] = y] /\ y.at = "discard" /\ y.claimed = recover[r].claimed /\ y.id = j
      BY <1>1, <1>6, PassAtIs
    <2>2. recover'[r].at = "discard" /\ y.at # "requeue" /\ faults' # 0
      BY <1>3, <1>6, <2>1, FaultCounts
    <2>3. PassSees(recover[r], j)'
      BY <1>4, <1>5, <1>6, <2>2 DEF PassSees, HasRow, Hopeless
    <2> QED BY <1>4, <1>6, <2>1, <2>2, <2>3, PassTurns
  <1>7. CASE /\ Update(j, "failed", FALSE) /\ UNCHANGED bounds
             /\ RecoverAt(r, IF HasRow(j) THEN "clean" ELSE "discard")
    <2>1. PICK y : /\ recover' = [recover EXCEPT ![r] = y] /\ y.claimed = recover[r].claimed /\ y.id = j
                   /\ y.at = IF HasRow(j) THEN "clean" ELSE "discard"
      BY <1>1, <1>7, PassAtIs
    <2>2. recover'[r].at = IF HasRow(j) THEN "clean" ELSE "discard"
      BY <1>3, <2>1
    <2>3. faults' = faults
      BY <1>7 DEF bounds
    <2>4. PICK z : /\ \A id \in Ids : row'[id] = IF id = j THEN z ELSE row[id]
                   /\ ~HasRow(j) => z = row[j]
                   /\ HasRow(j) => z # NoRow /\ z.status = "failed" /\ z.leased = FALSE /\ z.attempts = row[j].attempts
      <3>1. "failed" \in Statuses \ {"none"} /\ FALSE \in BOOLEAN /\ Update(j, "failed", FALSE)
        BY <1>7 DEF Statuses
      <3> QED BY <1>3, <3>1, UpdateIs
    <2>5. row'[j] = z /\ \A id \in Ids \ {j} : row'[id] = row[id]
      BY <1>3, <2>4
    <2>6. /\ HasRow(j)' => HasRow(j) /\ row'[j].status = "failed" /\ row'[j].attempts = row[j].attempts
          /\ ~HasRow(j) => row'[j] = NoRow
      BY <2>4, <2>5 DEF HasRow
    <2>7. ~(Unfinished(j)') /\ row'[j].status # "succeeded"
      BY <2>6 DEF HasRow, Unfinished, NoRow
    <2>8. Takeable(j)' /\ (HasRow(j)' => Terminal(j)' /\ Hopeless(j)')
      BY <1>4, <1>5, <2>6, <2>7 DEF Takeable, Terminal, Hopeless
    <2>9. PassSees(recover[r], j)'
      BY <2>2, <2>6, <2>8 DEF PassSees
    <2>10. \A x : PassSees(x, j) => PassSees(x, j)'
      BY <1>5, <2>3, <2>6, <2>7, <2>8 DEF PassSees
    <2>11. RowInOrder(j)
      <3>1. RowFits(row'[j])
        BY <1>3, <2>4, <2>5 DEF RowFits, HasRow
      <3> QED BY <2>7, <3>1 DEF RowInOrder
    <2>12. \A id \in Ids \ {j} : StoreSame(id)
      BY <1>4, <2>3, <2>5 DEF StoreSame
    <2> QED BY <1>1, <1>2, <1>4, <2>1, <2>8, <2>9, <2>10, <2>11, <2>12, PassActs
  <1> QED BY <1>1, <1>6, <1>7 DEF RecoverFail

LEMMA PassFailedFits ==
    ASSUME JInv, Undisturbed, NEW r \in Passes, RecoverFailed(r)
    PROVE  AllFit'
  <1>1. PICK j : j = recover[r].id
    OBVIOUS
  <1>2. recover[r].at \in {"clean", "discard"} /\ recover[r].at \in AtJob \ {"get"}
    BY DEF RecoverFailed, AtJob
  <1>3. /\ recover[r] \in RecoverType /\ recover \in [Passes -> RecoverType]
        /\ faults \in Nat /\ row \in [Ids -> RowType] /\ j \in Ids
        /\ PassSees(recover[r], j) /\ RowFits(row[j]) /\ BlobsFit(j)
    BY <1>1, <1>2, PassKnows
  <1>4. UNCHANGED <<row, submit, queue, feeding, worker, faults>>
    BY DEF RecoverFailed, manager, bounds
  <1>5. PICK y : recover' = [recover EXCEPT ![r] = y] /\ y.at = "next" /\ y.claimed = recover[r].claimed
    BY PassAtIs DEF RecoverFailed
  <1>6. j \notin input' /\ \A id \in Ids \ {j} : StoreSame(id)
    BY <1>1, <1>4 DEF RecoverFailed, RemoveInput, RemoveAll, StoreSame
  <1>7. HasRow(j) => Terminal(j) \/ (row[j].status # "succeeded" /\ Hopeless(j) /\ faults # 0)
    BY <1>2, <1>3 DEF PassSees
  <1>8. Unfinished(j) => HasRow(j) /\ ~Terminal(j)
    BY DEF Unfinished, HasRow, NoRow, Terminal
  <1>9. Hopeless(j)' /\ (Takeable(j) => Takeable(j)') /\ (HasRow(j)' => HasRow(j))
    BY <1>4, <1>6 DEF Hopeless, Takeable, Unfinished, HasRow
  <1>10. \A x : PassSees(x, j) => PassSees(x, j)'
    <2> SUFFICES ASSUME NEW x, PassSees(x, j), HasRow(j) PROVE PassSees(x, j)'
      BY <1>9 DEF PassSees
    <2>1. x.at \notin {"claim", "requeue"}
      <3> SUFFICES ASSUME x.at \in {"claim", "requeue"} PROVE FALSE
        OBVIOUS
      <3>1. Unfinished(j) /\ ~Hopeless(j)
        BY DEF PassSees
      <3> QED BY <1>7, <1>8, <3>1
    <2> QED BY <1>4, <1>9, <2>1 DEF PassSees, Terminal
  <1>11. row[j].status = "succeeded" => j \in result'
    <2> SUFFICES ASSUME row[j].status = "succeeded" PROVE j \in result'
      OBVIOUS
    <2>1. HasRow(j)
      BY DEF HasRow, NoRow
    <2>2. recover[r].at = "clean"
      BY <1>2, <1>3, <2>1 DEF PassSees
    <2> QED BY <1>3, <2>2 DEF RecoverFailed, RemoveInput, BlobsFit
  <1>12. Unfinished(j) => faults # 0
    BY <1>7, <1>8
  <1>13. RowInOrder(j)
    BY <1>3, <1>4, <1>11, <1>12 DEF RowInOrder, Unfinished
  <1>14. y.at \notin AtJob /\ y.at # "requeue"
    BY <1>5 DEF AtJob
  <1> QED BY <1>1, <1>2, <1>4, <1>5, <1>6, <1>9, <1>10, <1>13, <1>14, PassActs

LEMMA PassClaimFits ==
    ASSUME JInv, Undisturbed, NEW r \in Passes, RecoverClaim(r)
    PROVE  AllFit'
  <1>1. PICK j : j = recover[r].id
    OBVIOUS
  <1>2. recover[r].at = "claim" /\ recover[r].at \in AtJob \ {"get"}
    BY DEF RecoverClaim, AtJob
  <1>3. /\ recover[r] \in RecoverType /\ recover \in [Passes -> RecoverType]
        /\ faults \in Nat /\ row \in [Ids -> RowType] /\ j \in Ids
        /\ PassSees(recover[r], j) /\ RowFits(row[j]) /\ BlobsFit(j)
    BY <1>1, <1>2, PassKnows
  <1>4. UNCHANGED <<row, input, result, submit, queue, feeding, worker, faults>>
    BY DEF RecoverClaim, persistent, bounds
  <1>5. PICK y : /\ recover' = [recover EXCEPT ![r] = y] /\ y.claimed = recover[r].claimed /\ y.id = j
                 /\ y.at \in {"next", "requeue"}
    <2>1. CASE RecoverAt(r, "next")
      BY <1>1, <2>1, PassAtIs
    <2>2. CASE RecoverAt(r, "requeue")
      BY <1>1, <2>2, PassAtIs
    <2> QED BY <2>1, <2>2 DEF RecoverClaim
  <1>6. recover'[r] = y
    BY <1>3, <1>5
  <1>7. HasRow(j)' => Unfinished(j)' /\ ~(Hopeless(j)')
    BY <1>2, <1>3, <1>4 DEF PassSees, HasRow, Unfinished, Hopeless
  <1>8. Takeable(j)'
    <2>1. HasRow(j) => row[j].attempts \in Nat /\ MaxAttempts \in Nat
      BY <1>3, RowIs, BoundsAssumption
    <2>2. Unfinished(j) => HasRow(j)
      BY DEF Unfinished, HasRow, NoRow
    <2>3. Takeable(j)
      BY <1>2, <1>3, <2>1, <2>2 DEF PassSees, Takeable, Hopeless
    <2> QED BY <1>4, <2>3 DEF Takeable, Unfinished
  <1>9. y.at \notin AtJob \/ (y.id = j /\ PassSees(recover[r], j)')
    BY <1>5, <1>6, <1>7 DEF PassSees, AtJob
  <1>10. \A x : PassSees(x, j) => PassSees(x, j)'
    BY <1>4 DEF PassSees, HasRow, Unfinished, Hopeless, Terminal
  <1>11. RowInOrder(j)
    BY <1>3, <1>4 DEF RowInOrder, BlobsFit, NeedsInput, Unfinished
  <1>12. \A id \in Ids \ {j} : StoreSame(id)
    BY <1>4 DEF StoreSame
  <1> QED BY <1>1, <1>2, <1>4, <1>5, <1>8, <1>9, <1>10, <1>11, <1>12, PassActs

LEMMA RequeueFits ==
    ASSUME JInv, Undisturbed, NEW r \in Passes, Requeue(r)
    PROVE  AllFit'
  <1>1. PICK j : j = recover[r].id
    OBVIOUS
  <1>2. recover[r].at = "requeue" /\ recover[r].at \in AtJob \ {"get"}
    BY DEF Requeue, AtJob
  <1>3. /\ recover[r] \in RecoverType /\ recover \in [Passes -> RecoverType]
        /\ faults \in Nat /\ row \in [Ids -> RowType] /\ j \in Ids
        /\ PassSees(recover[r], j) /\ RowFits(row[j]) /\ BlobsFit(j)
    BY <1>1, <1>2, PassKnows
  <1>4. UNCHANGED <<input, result, submit, queue, feeding, worker>>
    BY DEF Requeue
  <1>5. CASE RecoverAt(r, "next") /\ Fault /\ UNCHANGED row
    <2>1. PICK y : recover' = [recover EXCEPT ![r] = y] /\ y.at = "next" /\ y.claimed = recover[r].claimed
      BY <1>5, PassAtIs
    <2>2. y.at \notin AtJob /\ y.at # "requeue"
      BY <2>1 DEF AtJob
    <2>3. faults' = 0 => faults = 0
      BY <1>3, <1>5, NoNewFault
    <2> QED BY <1>4, <1>5, <2>1, <2>2, <2>3, PassTurns
  <1>6. CASE /\ Update(j, "notStarted", TRUE) /\ UNCHANGED bounds
             /\ recover' = [recover EXCEPT ![r].at = "next", ![r].claimed = @ \union {j}]
    <2> DEFINE y == [recover[r] EXCEPT !.at = "next", !.claimed = @ \union {j}]
    <2>1. recover' = [recover EXCEPT ![r] = y] /\ y.at = "next" /\ y.claimed = recover[r].claimed \union {j}
      BY <1>3, <1>6 DEF RecoverType
    <2> HIDE DEF y
    <2>2. y.at \notin AtJob /\ faults' = faults
      BY <1>6, <2>1 DEF AtJob, bounds
    <2>3. PICK z : /\ \A id \in Ids : row'[id] = IF id = j THEN z ELSE row[id]
                   /\ ~HasRow(j) => z = row[j]
                   /\ HasRow(j) => z # NoRow /\ z.status = "notStarted" /\ z.leased = TRUE /\ z.attempts = row[j].attempts
      <3>1. "notStarted" \in Statuses \ {"none"} /\ TRUE \in BOOLEAN /\ Update(j, "notStarted", TRUE)
        BY <1>6 DEF Statuses
      <3> QED BY <1>3, <3>1, UpdateIs
    <2>4. row'[j] = z /\ \A id \in Ids \ {j} : row'[id] = row[id]
      BY <1>3, <2>3
    <2>5. /\ HasRow(j)' => HasRow(j) /\ row'[j].status = "notStarted" /\ row'[j].attempts = row[j].attempts
          /\ ~HasRow(j) => row'[j] = NoRow /\ row[j] = NoRow
          /\ HasRow(j) => Unfinished(j) /\ ~Hopeless(j)
      BY <1>2, <1>3, <2>3, <2>4 DEF HasRow, PassSees
    <2>6. HasRow(j)' => Unfinished(j)' /\ ~(Hopeless(j)')
      BY <1>4, <2>5 DEF Unfinished, Hopeless
    <2>7. Takeable(j)'
      <3>1. HasRow(j) => row[j].attempts \in Nat /\ MaxAttempts \in Nat
        BY <1>3, RowIs, BoundsAssumption
      <3>2. Unfinished(j)' => HasRow(j)'
        BY DEF Unfinished, HasRow, NoRow
      <3>3. HasRow(j) => row[j].attempts < MaxAttempts
        BY <2>5, <3>1 DEF Hopeless
      <3> QED BY <2>5, <3>2, <3>3 DEF Takeable
    <2>8. \A x : PassSees(x, j) => PassSees(x, j)'
      <3> SUFFICES ASSUME NEW x, PassSees(x, j), HasRow(j)' PROVE PassSees(x, j)'
        BY DEF PassSees
      <3>1. ~Terminal(j)
        BY <2>5 DEF Terminal, Unfinished
      <3>2. x.at \notin {"fail", "discard", "clean"}
        BY <2>5, <3>1 DEF PassSees
      <3> QED BY <2>5, <2>6, <3>2 DEF PassSees
    <2>9. RowInOrder(j)
      <3>1. CASE HasRow(j)
        <4>1. RowFits(z)
          BY <1>3, <2>3, <3>1 DEF RowFits
        <4> QED BY <1>3, <1>4, <2>2, <2>3, <2>4, <2>5, <3>1, <4>1 DEF RowInOrder, BlobsFit, NeedsInput
      <3>2. CASE ~HasRow(j)
        <4>1. row'[j] = NoRow /\ row[j] = NoRow /\ NoRow.status = "none"
          BY <2>5, <3>2 DEF NoRow
        <4> QED BY <1>3, <4>1 DEF RowInOrder, Unfinished
      <3> QED BY <3>1, <3>2
    <2>10. \A id \in Ids \ {j} : StoreSame(id)
      BY <1>4, <2>2, <2>4 DEF StoreSame
    <2>11. y.claimed \subseteq recover[r].claimed \union {j}
      BY <2>1
    <2> QED BY <1>1, <1>2, <1>4, <2>1, <2>2, <2>7, <2>8, <2>9, <2>10, <2>11, PassActs
  <1> QED BY <1>1, <1>5, <1>6 DEF Requeue

\* What a pass has claimed, feed has from the end of the pass on.
LEMMA PassDoneFits ==
    ASSUME JInv, NEW r \in Passes, RecoverDone(r)
    PROVE  AllFit'
  <1>1. /\ recover' = [recover EXCEPT ![r] = Resting] /\ feeding' = feeding \union recover[r].claimed
        /\ UNCHANGED <<row, input, result, submit, queue, worker, faults>>
    BY DEF RecoverDone, persistent, bounds
  <1>2. recover \in [Passes -> RecoverType] /\ \A id \in Ids : Fits(id)
    BY JTyped DEF JInv, AllFit
  <1>3. \A p \in Passes : recover'[p] = IF p = r THEN Resting ELSE recover[p]
    BY <1>1, <1>2
  <1>4. Resting.at = "idle" /\ Resting.claimed = {}
    BY DEF Resting
  <1> SUFFICES ASSUME NEW id \in Ids PROVE Fits(id)'
    BY DEF AllFit
  <1>5. StoreQuiet(id) /\ WorkersQuiet(id)
    BY <1>1 DEF StoreQuiet, WorkersQuiet
  <1>6. PassesQuiet(id)
    BY <1>3, <1>4 DEF PassesQuiet, LooksAt, AtJob
  <1>7. PlacesQuiet(id)
    <2>1. InHand(id)' => InHand(id) \/ Claimed(id)
      BY <1>1 DEF InHand, InQueue, Claimed
    <2>2. Claimed(id)' => Claimed(id)
      BY <1>3, <1>4 DEF Claimed, Requeues
    <2> QED BY <1>1, <2>1, <2>2 DEF PlacesQuiet
  <1> QED BY <1>2, <1>5, <1>6, <1>7, QuietFits DEF Quiet

-----------------------------------------------------------------------------
(* Submits *)

LEMMA SubmitActs ==
    ASSUME JInv, NEW j \in Ids, ~Answered(j), UNCHANGED <<worker, recover>>,
           \A id \in Ids \ {j} : StoreSame(id) /\ submit'[id] = submit[id] /\ (InHand(id)' => InHand(id)),
           RowFits(row'[j]), BlobsFit(j)',
           InHand(j)' \/ submit'[j] = "created" => Takeable(j)'
    PROVE  AllFit'
  <1>1. /\ ~Claimed(j) /\ \A w \in Workers : ~Has(worker[w], j)
        /\ \A r \in Passes : ~LooksAt(recover[r], j)
    BY InNobodysHands DEF JInv
  <1>2. \A id : Claimed(id)' <=> Claimed(id)
    BY DEF Claimed, Requeues
  <1>3. ASSUME NEW id \in Ids, id # j PROVE Fits(id)'
    <2>1. StoreSame(id) /\ submit'[id] = submit[id] /\ (InHand(id)' => InHand(id))
      BY <1>3
    <2>2. StoreQuiet(id) /\ PlacesQuiet(id)
      BY <1>2, <2>1 DEF StoreQuiet, StoreSame, PlacesQuiet
    <2>3. WorkersQuiet(id) /\ PassesQuiet(id)
      BY DEF WorkersQuiet, PassesQuiet
    <2>4. Fits(id)
      BY DEF JInv, AllFit
    <2> QED BY <2>2, <2>3, <2>4, QuietFits DEF Quiet
  <1>4. Fits(j)'
    <2>1. Ready(j)'
      BY <1>1, <1>2 DEF Ready
    <2>2. WorkersSee(j)' /\ PassesSee(j)' /\ Alone(j)'
      BY <1>1 DEF WorkersSee, PassesSee, Alone, Has, LooksAt
    <2> QED BY <2>1, <2>2 DEF Fits
  <1> QED BY <1>3, <1>4 DEF AllFit

LEMMA SubmitFits ==
    ASSUME JInv, NEW j \in Ids, Admit(j) \/ SubmitStep(j)
    PROVE  AllFit'
  <1>1. /\ row \in [Ids -> RowType] /\ Submitted /\ faults \in Nat /\ queue \in Seq(Ids)
        /\ HasRow(j) => submit[j] \in {"created", "acked", "refused"}
        /\ RowFits(row[j]) /\ Ready(j) /\ BlobsFit(j)
    BY JTyped DEF JInv, Submitted, AllFit, Fits
  <1>2. ~Answered(j) /\ UNCHANGED <<worker, recover, feeding>> /\ (UNCHANGED bounds \/ Fault)
    BY DEF Admit, SubmitStep, StoreInput, StoreInputFails, CreateRow, CreateRowFails, Refuse, Enqueue,
           Answered, manager
  <1>3. faults' = 0 => faults = 0
    BY <1>1, <1>2, NoNewFault
  <1>4. NoRow.status = "none" /\ NoRow.attempts = 0 /\ ~NoRow.leased
    BY DEF NoRow
  <1>5. ASSUME NEW step, SubmitAt(j, step)
        PROVE  submit'[j] = step /\ \A id \in Ids \ {j} : submit'[id] = submit[id]
    BY <1>1, <1>5 DEF SubmitAt, Submitted
  <1>6. CASE Enqueue(j)
    <2>1. submit[j] = "created" /\ UNCHANGED <<row, input, result>>
      BY <1>6 DEF Enqueue, persistent
    <2>2. SubmitAt(j, "acked") \/ SubmitAt(j, "refused")
      BY <1>6 DEF Enqueue
    <2>3. submit'[j] \in {"acked", "refused"} /\ \A id \in Ids \ {j} : submit'[id] = submit[id]
      BY <1>5, <2>2
    <2>4. \A id \in Ids \ {j} : InHand(id)' => InHand(id)
      <3>1. queue' = queue \/ queue' = Append(queue, j)
        BY <1>6 DEF Enqueue
      <3>2. CASE queue' = queue
        BY <1>2, <3>2 DEF InHand, InQueue
      <3>3. CASE queue' = Append(queue, j)
        <4>1. \A id \in Ids \ {j} : InQueue(id)' => InQueue(id)
          BY <1>1, <3>3, QueueEnds
        <4> QED BY <1>2, <4>1 DEF InHand
      <3> QED BY <3>1, <3>2, <3>3
    <2>5. Takeable(j)' /\ BlobsFit(j)' /\ RowFits(row'[j])
      BY <1>1, <1>3, <2>1, <2>3 DEF Ready, Takeable, Unfinished, BlobsFit, NeedsInput
    <2>6. \A id \in Ids \ {j} : StoreSame(id)
      BY <1>3, <2>1 DEF StoreSame
    <2> QED BY <1>2, <2>3, <2>4, <2>5, <2>6, SubmitActs
  <1>7. ASSUME UNCHANGED queue, \A id \in Ids \ {j} : StoreSame(id), RowFits(row'[j]), BlobsFit(j)',
               NEW step, SubmitAt(j, step), step = "created" => Takeable(j)'
        PROVE  AllFit'
    <2>1. ~InHand(j) /\ \A id : InHand(id)' <=> InHand(id)
      BY <1>2, <1>7, InNobodysHands DEF JInv, InHand, InQueue
    <2>2. submit'[j] = step /\ \A id \in Ids \ {j} : submit'[id] = submit[id]
      BY <1>5, <1>7
    <2> QED BY <1>2, <1>7, <2>1, <2>2, SubmitActs
  <1>8. CASE Admit(j) \/ StoreInput(j)
    <2>1. submit[j] \in {"new", "admitted"} /\ UNCHANGED <<row, queue, result, bounds>>
      BY <1>8 DEF Admit, StoreInput, persistent, manager
    <2>2. row[j] = NoRow
      BY <1>1, <2>1 DEF HasRow
    <2>3. PICK step \in {"admitted", "stored"} :
              /\ SubmitAt(j, step)
              /\ input' = IF step = "stored" THEN input \union {j} ELSE input
      BY <1>8 DEF Admit, StoreInput, persistent
    <2>4. BlobsFit(j)'
      <3>1. submit'[j] = step
        BY <1>5, <2>3
      <3> QED BY <1>4, <2>1, <2>2, <2>3, <3>1 DEF BlobsFit, NeedsInput, Unfinished
    <2>5. \A id \in Ids \ {j} : StoreSame(id)
      BY <1>3, <2>1, <2>3 DEF StoreSame
    <2>6. step # "created"
      BY <2>3
    <2> QED BY <1>1, <1>7, <2>1, <2>3, <2>4, <2>5, <2>6
  <1>9. CASE StoreInputFails(j) \/ CreateRowFails(j)
    <2>1. submit[j] \in {"admitted", "stored"} /\ RemoveAll(j) /\ SubmitAt(j, "refused") /\ UNCHANGED <<row, queue>>
      BY <1>9 DEF StoreInputFails, CreateRowFails, Refuse
    <2>2. row[j] = NoRow /\ submit'[j] = "refused"
      BY <1>1, <1>5, <2>1 DEF HasRow
    <2>3. BlobsFit(j)'
      BY <1>4, <2>1, <2>2 DEF BlobsFit, NeedsInput, Unfinished
    <2>4. \A id \in Ids \ {j} : StoreSame(id)
      BY <1>3, <2>1 DEF StoreSame, RemoveAll
    <2> QED BY <1>1, <1>7, <2>1, <2>3, <2>4
  <1>10. CASE CreateRow(j)
    <2> DEFINE new == [status |-> "notStarted", attempts |-> 0, leased |-> FALSE]
    <2>1. /\ submit[j] = "stored" /\ SubmitAt(j, "created") /\ row' = [row EXCEPT ![j] = new]
          /\ UNCHANGED <<queue, input, result, bounds>>
      BY <1>10 DEF CreateRow, manager
    <2>2. new.status = "notStarted" /\ new.attempts = 0 /\ ~new.leased /\ new # NoRow
      BY DEF NoRow
    <2> HIDE DEF new
    <2>3. row'[j] = new /\ \A id \in Ids \ {j} : row'[id] = row[id]
      BY <1>1, <2>1
    <2>4. RowFits(row'[j]) /\ Takeable(j)'
      BY <2>2, <2>3, BoundsAssumption DEF RowFits, Takeable
    <2>5. BlobsFit(j)'
      BY <1>1, <1>3, <2>1, <2>2, <2>3 DEF BlobsFit, NeedsInput
    <2>6. \A id \in Ids \ {j} : StoreSame(id)
      BY <1>3, <2>1, <2>3 DEF StoreSame
    <2> QED BY <1>7, <2>1, <2>4, <2>5, <2>6
  <1> QED BY <1>6, <1>8, <1>9, <1>10 DEF SubmitStep

LEMMA FeedFits == ASSUME JInv, NEW j \in Ids, Feed(j) PROVE AllFit'
  <1>1. /\ UNCHANGED <<row, input, result, submit, worker, recover, faults>>
        /\ j \in feeding /\ queue' = Append(queue, j) /\ feeding' = feeding \ {j}
    BY DEF Feed, persistent, bounds
  <1>2. queue \in Seq(Ids) /\ \A id \in Ids : Fits(id)
    BY JTyped DEF JInv, AllFit
  <1> SUFFICES ASSUME NEW id \in Ids PROVE Fits(id)'
    BY DEF AllFit
  <1>3. InHand(id)' => InHand(id)
    <2>1. InQueue(id)' => InQueue(id) \/ id = j
      BY <1>1, <1>2, QueueEnds
    <2> QED BY <1>1, <2>1 DEF InHand
  <1>4. StoreQuiet(id) /\ PlacesQuiet(id) /\ WorkersQuiet(id) /\ PassesQuiet(id)
    BY <1>1, <1>3 DEF StoreQuiet, PlacesQuiet, WorkersQuiet, PassesQuiet, Claimed, Requeues
  <1> QED BY <1>2, <1>4, QuietFits DEF Quiet

-----------------------------------------------------------------------------
(* Deletes, the sweeper, time, crashes and restarts *)

LEMMA StoreFits ==
    ASSUME JInv, UNCHANGED <<submit, queue, feeding, worker, recover>>, \A id \in Ids : StoreQuiet(id)
    PROVE  AllFit'
  <1> SUFFICES ASSUME NEW id \in Ids PROVE Fits(id)'
    BY DEF AllFit
  <1>1. Fits(id) /\ StoreQuiet(id)
    BY DEF JInv, AllFit
  <1>2. PlacesQuiet(id) /\ WorkersQuiet(id) /\ PassesQuiet(id)
    BY DEF PlacesQuiet, WorkersQuiet, PassesQuiet, InHand, InQueue, Claimed, Requeues
  <1> QED BY <1>1, <1>2, QuietFits DEF Quiet

\* A row goes; the blobs of a job without a row go.
LEMMA RowGoes ==
    ASSUME JInv, NEW i \in Ids, row' = [row EXCEPT ![i] = NoRow], UNCHANGED <<input, result, faults>>,
           NEW id \in Ids
    PROVE  StoreQuiet(id)
  <1>1. row'[id] = row[id] \/ row'[id] = NoRow
    BY JTyped DEF JInv
  <1> QED BY <1>1 DEF StoreQuiet

LEMMA BlobsGo ==
    ASSUME JInv, NEW i \in Ids, ~HasRow(i), submit[i] # "stored", RemoveAll(i),
           UNCHANGED <<row, submit, faults>>, NEW id \in Ids
    PROVE  StoreQuiet(id)
  <1>1. HasRow(i)' <=> HasRow(i)
    BY DEF HasRow
  <1> QED BY <1>1 DEF StoreQuiet, RemoveAll

LEMMA NothingGoes ==
    ASSUME UNCHANGED <<row, input, result>>, faults' = 0 => faults = 0, NEW id \in Ids
    PROVE  StoreQuiet(id)
  BY DEF StoreQuiet

LEMMA ClientFits ==
    ASSUME JInv, NEW j \in Ids, DeleteRow(j) \/ DeleteBlobs(j) \/ TimePasses(j)
    PROVE  AllFit'
  <1>1. UNCHANGED <<submit, queue, feeding, worker, recover, faults>>
    BY DEF DeleteRow, DeleteBlobs, TimePasses, Age, Expire, LeaseLapses, manager, agents, bounds
  <1>2. CASE DeleteRow(j)
    <2>1. row' = [row EXCEPT ![j] = NoRow] /\ UNCHANGED <<input, result>>
      BY <1>2 DEF DeleteRow
    <2> QED BY <1>1, <2>1, RowGoes, StoreFits
  <1>3. CASE DeleteBlobs(j)
    <2>1. j \in purging /\ RemoveAll(j) /\ UNCHANGED row
      BY <1>3 DEF DeleteBlobs
    <2>2. ~HasRow(j) /\ submit[j] # "stored"
      BY <2>1 DEF JInv, Gone, ClientsGone, Answered
    <2> QED BY <1>1, <2>1, <2>2, BlobsGo, StoreFits
  <1>4. CASE Age(j) \/ Expire(j)
    <2>1. UNCHANGED <<row, input, result>>
      BY <1>4 DEF Age, Expire
    <2> QED BY <1>1, <2>1, NothingGoes, StoreFits
  <1>5. CASE LeaseLapses(j)
    <2> DEFINE y == [row[j] EXCEPT !.leased = FALSE]
    <2>1. row[j].leased /\ row' = [row EXCEPT ![j] = y] /\ UNCHANGED <<input, result>>
      BY <1>5, JTyped DEF JInv, LeaseLapses, RowType
    <2>2. y.status = row[j].status /\ y.attempts = row[j].attempts /\ ~y.leased
      BY JTyped DEF JInv, RowType
    <2> HIDE DEF y
    <2>3. RowFits(row[j]) /\ row \in [Ids -> RowType]
      BY JTyped DEF JInv, AllFit, Fits
    <2>4. HasRow(j) /\ y.status # "none"
      BY <2>1, <2>2, <2>3 DEF HasRow, NoRow, RowFits
    <2>5. y # NoRow
      BY <2>4 DEF NoRow
    <2>6. \A id \in Ids : StoreQuiet(id)
      <3> SUFFICES ASSUME NEW id \in Ids PROVE StoreQuiet(id)
        OBVIOUS
      <3>1. row'[id] = IF id = j THEN y ELSE row[id]
        BY <2>1, <2>3
      <3> QED BY <1>1, <2>1, <2>2, <2>4, <2>5, <3>1 DEF StoreQuiet, HasRow
    <2> QED BY <1>1, <2>6, StoreFits
  <1> QED BY <1>2, <1>3, <1>4, <1>5 DEF TimePasses

LEMMA ScanFits ==
    ASSUME JInv, NEW r \in Passes, RecoverAt(r, "scan"),
           UNCHANGED <<row, input, result, submit, queue, feeding, worker, faults>>
    PROVE  AllFit'
  <1>1. PICK y : recover' = [recover EXCEPT ![r] = y] /\ y.at = "scan" /\ y.claimed = recover[r].claimed
    BY PassAtIs
  <1>2. y.at \notin AtJob /\ y.at # "requeue"
    BY <1>1 DEF AtJob
  <1> QED BY <1>1, <1>2, PassTurns

LEMMA SweepFits ==
    ASSUME JInv, SweepBegins \/ SweepStep
    PROVE  AllFit'
  <1>1. /\ sweep \in SweepType /\ sweep.todo \subseteq Ids /\ faults \in Nat
        /\ sweep.at \in {"expireBlobs", "evictBlobs"} =>
               sweep.id \in Ids /\ ~HasRow(sweep.id) /\ submit[sweep.id] # "stored"
    BY JTyped DEF JInv, SweepType, Gone, SweepGone, Answered
  <1>2. UNCHANGED <<submit, queue, feeding, worker>>
    BY DEF SweepBegins, SweepStep, SweepDelete, SweepDeleteBlobs, OrphansBegin, SweepOrphan, ReclaimBegins,
           EvictBegins, SweepEnds, manager
  <1>3. CASE SweepBegins \/ OrphansBegin \/ EvictBegins \/ SweepEnds
    <2>1. UNCHANGED <<row, input, result, recover>> /\ (UNCHANGED bounds \/ Fault)
      BY <1>3 DEF SweepBegins, OrphansBegin, EvictBegins, SweepEnds, persistent
    <2>2. faults' = 0 => faults = 0
      BY <1>1, <2>1, NoNewFault
    <2> QED BY <1>2, <2>1, <2>2, NothingGoes, StoreFits
  <1>4. CASE SweepDelete
    <2>1. PICK i \in sweep.todo :
              \/ row' = [row EXCEPT ![i] = NoRow] /\ UNCHANGED bounds
              \/ Fault /\ UNCHANGED row
      BY <1>4 DEF SweepDelete
    <2>2. i \in Ids /\ UNCHANGED <<input, result, recover>>
      BY <1>1, <1>4 DEF SweepDelete
    <2>3. CASE row' = [row EXCEPT ![i] = NoRow] /\ UNCHANGED bounds
      <3>1. UNCHANGED faults
        BY <2>3 DEF bounds
      <3> QED BY <1>2, <2>2, <2>3, <3>1, RowGoes, StoreFits
    <2>4. CASE Fault /\ UNCHANGED row
      <3>1. faults' = 0 => faults = 0
        BY <1>1, <2>4, NoNewFault
      <3> QED BY <1>2, <2>2, <2>4, <3>1, NothingGoes, StoreFits
    <2> QED BY <2>1, <2>3, <2>4
  <1>5. CASE SweepDeleteBlobs
    <2>1. /\ sweep.at \in {"expireBlobs", "evictBlobs"} /\ RemoveAll(sweep.id)
          /\ UNCHANGED <<row, recover, faults>>
      BY <1>5 DEF SweepDeleteBlobs, Sweeping, bounds
    <2>2. PICK i : i = sweep.id
      OBVIOUS
    <2>3. i \in Ids /\ ~HasRow(i) /\ submit[i] # "stored" /\ RemoveAll(i)
      BY <1>1, <2>1, <2>2
    <2> QED BY <1>2, <2>1, <2>3, BlobsGo, StoreFits
  <1>6. CASE SweepOrphan
    <2>1. PICK i \in sweep.todo :
              \/ ~HasRow(i) /\ ~JustWritten(i) /\ RemoveAll(i) /\ UNCHANGED bounds
              \/ UNCHANGED <<input, result, bounds>>
              \/ Fault /\ UNCHANGED <<input, result>>
      BY <1>6 DEF SweepOrphan
    <2>2. i \in Ids /\ UNCHANGED <<row, recover>>
      BY <1>1, <1>6 DEF SweepOrphan
    <2>3. CASE ~HasRow(i) /\ ~JustWritten(i) /\ RemoveAll(i) /\ UNCHANGED bounds
      <3>1. submit[i] # "stored" /\ UNCHANGED faults
        BY <2>3 DEF JustWritten, bounds
      <3> QED BY <1>2, <2>2, <2>3, <3>1, BlobsGo, StoreFits
    <2>4. CASE UNCHANGED <<input, result>> /\ (UNCHANGED bounds \/ Fault)
      <3>1. faults' = 0 => faults = 0
        BY <1>1, <2>4, NoNewFault
      <3> QED BY <1>2, <2>2, <2>4, <3>1, NothingGoes, StoreFits
    <2> QED BY <2>1, <2>3, <2>4
  <1>7. CASE ReclaimBegins
    <2>1. UNCHANGED <<row, input, result, faults>> /\ (UNCHANGED recover \/ RecoverAt("sweep", "scan"))
      BY <1>7 DEF ReclaimBegins, persistent, bounds
    <2>2. CASE UNCHANGED recover
      BY <1>2, <2>1, <2>2, NothingGoes, StoreFits
    <2>3. CASE RecoverAt("sweep", "scan")
      BY <1>2, <2>1, <2>3, ScanFits DEF Passes
    <2> QED BY <2>1, <2>2, <2>3
  <1> QED BY <1>3, <1>4, <1>5, <1>6, <1>7 DEF SweepStep

LEMMA CrashFits == ASSUME JInv, Crash PROVE AllFit'
  <1>1. /\ UNCHANGED <<row, input, result, faults>> /\ queue' = <<>> /\ feeding' = {}
        /\ \A w \in Workers : worker'[w] = Idle
        /\ \A r \in Passes : recover'[r] = Resting
        /\ \A id \in Ids : submit'[id] \notin {"stored", "created"}
    BY DEF Crash, persistent, Passes
  <1>2. Idle.at = "idle" /\ Resting.at = "idle" /\ Resting.claimed = {}
    BY DEF Idle, Resting
  <1> SUFFICES ASSUME NEW id \in Ids PROVE Fits(id)'
    BY DEF AllFit
  <1>3. Fits(id)
    BY DEF JInv, AllFit
  <1>4. ~(InHand(id)') /\ ~(Claimed(id)')
    BY <1>1, <1>2 DEF InHand, InQueue, Claimed, Requeues
  <1>5. StoreQuiet(id) /\ PlacesQuiet(id)
    BY <1>1, <1>4 DEF StoreQuiet, PlacesQuiet
  <1>6. WorkersQuiet(id) /\ PassesQuiet(id)
    BY <1>1, <1>2 DEF WorkersQuiet, PassesQuiet, Has, LooksAt, AtJob
  <1> QED BY <1>3, <1>5, <1>6, QuietFits DEF Quiet

\* Whoever takes a step leaves every job as those that have it need it.
LEMMA NextFits == ASSUME JInv, Undisturbed, [Next]_vars PROVE AllFit'
  <1>1. ASSUME NEW id \in Ids, Admit(id) \/ SubmitStep(id) PROVE AllFit'
    BY <1>1, SubmitFits
  <1>2. ASSUME NEW id \in Ids, DeleteRow(id) \/ DeleteBlobs(id) \/ TimePasses(id) PROVE AllFit'
    BY <1>2, ClientFits
  <1>3. ASSUME NEW w \in Workers, WorkerStep(w) PROVE AllFit'
    BY <1>3, TakeFits, StartFits, EngineFits, EndFits, RunEndFits DEF WorkerStep
  <1>4. ASSUME NEW r \in Passes, RecoverStep(r) PROVE AllFit'
    BY <1>4, PassLookFits, PassFailFits, PassFailedFits, PassClaimFits, RequeueFits, PassDoneFits
       DEF RecoverStep
  <1>5. CASE SyncBegins \/ SyncEnds \/ UNCHANGED vars
    <2>1. UNCHANGED <<row, input, result, submit, queue, feeding, worker, recover, faults>>
      BY <1>5 DEF SyncBegins, SyncEnds, vars, persistent, manager, agents, bounds
    <2> QED BY <2>1, NothingGoes, StoreFits
  <1>6. CASE Boot
    <2>1. /\ UNCHANGED <<row, input, result, submit, queue, feeding, worker, faults>>
          /\ RecoverAt("boot", "scan") /\ "boot" \in Passes
      BY <1>6 DEF Boot, persistent, manager, bounds, Passes
    <2> QED BY <2>1, ScanFits
  <1>7. ASSUME NEW id \in Ids, Feed(id) PROVE AllFit'
    BY <1>7, FeedFits
  <1>8. (\E r \in {"boot", "sweep"} : RecoverStep(r)) => \E r \in Passes : RecoverStep(r)
    BY DEF Passes
  <1> QED BY <1>1, <1>2, <1>3, <1>4, <1>5, <1>6, <1>7, <1>8, SweepFits, CrashFits DEF Next

-----------------------------------------------------------------------------
(* What becomes of rows *)

\* The row of id becomes z: it appears, it is still open and goes on, it stays as it
\* is, or it goes, which while it is open takes a client or its TTL.
RowMoves(id, z) ==
    /\ \A j \in Ids : row'[j] = IF j = id THEN z ELSE row[j]
    /\ \/ ~HasRow(id) /\ z.status = "notStarted" /\ ~Answered(id)
       \/ Unfinished(id) /\ z.status \in Statuses \ {"none"}
       \/ z = row[id]
       \/ z = NoRow /\ (Unfinished(id) => id \in (purging \union expired)')
StoreMoves ==
    \/ UNCHANGED <<row, expired>>
    \/ UNCHANGED row /\ \E id \in Ids : expired' = expired \union {id}
    \/ UNCHANGED expired /\ \E id \in Ids, z \in RowType : RowMoves(id, z)

LEMMA ChangeIs ==
    ASSUME JInv, NEW id \in Ids, NEW z \in RowType, row' = [row EXCEPT ![id] = z]
    PROVE  \A j \in Ids : row'[j] = IF j = id THEN z ELSE row[j]
  BY JTyped DEF JInv

\* An UPDATE of an open row, or of one that says already what it is to say.
LEMMA UpdateMoves ==
    ASSUME JInv, NEW id \in Ids, NEW status \in Statuses \ {"none"}, NEW leased \in BOOLEAN,
           Update(id, status, leased), UNCHANGED expired,
           HasRow(id) => Unfinished(id) \/ (row[id].status = status /\ row[id].leased = leased)
    PROVE  StoreMoves
  <1>1. PICK z : /\ \A j \in Ids : row'[j] = IF j = id THEN z ELSE row[j]
                 /\ ~HasRow(id) => z = row[id]
                 /\ HasRow(id) => /\ z # NoRow /\ z.status = status /\ z.leased = leased
                                  /\ z.attempts = row[id].attempts
    BY UpdateIs
  <1>2. row' \in [Ids -> RowType] /\ row \in [Ids -> RowType]
    BY UpdateKept, JTyped DEF JInv, RowKept
  <1>3. z \in RowType /\ row[id] \in RowType
    BY <1>1, <1>2
  <1>4. CASE HasRow(id) /\ ~Unfinished(id)
    <2>1. z = row[id]
      BY <1>1, <1>3, <1>4 DEF RowType
    <2> QED BY <1>1, <1>3, <2>1 DEF RowMoves, StoreMoves
  <1>5. CASE ~HasRow(id) \/ Unfinished(id)
    <2>1. RowMoves(id, z)
      BY <1>1, <1>5 DEF RowMoves, HasRow, Unfinished, NoRow
    <2> QED BY <1>3, <2>1 DEF StoreMoves
  <1> QED BY <1>4, <1>5

LEMMA WorkerRows ==
    ASSUME JInv, NEW w \in Workers, WorkerStep(w)
    PROVE  StoreMoves
  <1> DEFINE x == worker[w]
             id == x.id
  <1>1. UNCHANGED expired
    BY DEF WorkerStep, TakeJob, GetJob, MarkRunning, EngineReturns, EnginePanics, WriteResult, Succeed,
           Fail, RunEnds, persistent
  <1>2. CASE TakeJob(w) \/ GetJob(w) \/ EngineReturns(w) \/ EnginePanics(w) \/ WriteResult(w) \/ RunEnds(w)
    <2>1. UNCHANGED row
      BY <1>2 DEF TakeJob, GetJob, EngineReturns, EnginePanics, WriteResult, RunEnds, persistent
    <2> QED BY <1>1, <2>1 DEF StoreMoves
  <1>3. ASSUME x.at \in {"mark", "succeed", "fail"} PROVE id \in Ids /\ (HasRow(id) => Unfinished(id))
    <2>1. PICK j : j = worker[w].id
      OBVIOUS
    <2>2. j \in Ids /\ WorkerSees(x, j)
      BY <1>3, <2>1, WorkerKnows
    <2> QED BY <1>3, <2>1, <2>2 DEF WorkerSees
  <1>4. CASE MarkRunning(w)
    <2>1. x.at = "mark" /\ (MarkedRunning(id) \/ UNCHANGED row)
      BY <1>4 DEF MarkRunning
    <2>2. CASE HasRow(id) /\ MarkedRunning(id)
      <3> DEFINE z == [status |-> "running", attempts |-> row[id].attempts + 1, leased |-> TRUE]
      <3>1. row' = [row EXCEPT ![id] = z]
        BY <2>2 DEF MarkedRunning
      <3>2. id \in Ids /\ Unfinished(id) /\ row[id].attempts \in Nat
        BY <1>3, <2>1, <2>2, RowIs
      <3>3. z \in RowType /\ z.status = "running"
        BY <3>2 DEF RowType, Statuses
      <3> HIDE DEF z
      <3>4. RowMoves(id, z)
        BY <3>1, <3>2, <3>3, ChangeIs DEF RowMoves, Statuses
      <3> QED BY <1>1, <3>2, <3>3, <3>4 DEF StoreMoves
    <2>3. CASE UNCHANGED row \/ ~HasRow(id)
      <3>1. UNCHANGED row
        BY <2>1, <2>3 DEF MarkedRunning
      <3> QED BY <1>1, <3>1 DEF StoreMoves
    <2> QED BY <2>1, <2>2, <2>3
  <1>5. CASE Succeed(w) \/ Fail(w)
    <2>1. /\ x.at \in {"succeed", "fail"}
          /\ Update(id, "succeeded", FALSE) \/ Update(id, "failed", FALSE) \/ UNCHANGED row
      BY <1>5 DEF Succeed, Fail
    <2>2. id \in Ids /\ (HasRow(id) => Unfinished(id))
      BY <1>3, <2>1
    <2>3. {"succeeded", "failed"} \subseteq Statuses \ {"none"} /\ FALSE \in BOOLEAN
      BY DEF Statuses
    <2>4. CASE Update(id, "succeeded", FALSE)
      BY <1>1, <2>2, <2>3, <2>4, UpdateMoves
    <2>5. CASE Update(id, "failed", FALSE)
      BY <1>1, <2>2, <2>3, <2>5, UpdateMoves
    <2>6. CASE UNCHANGED row
      BY <1>1, <2>6 DEF StoreMoves
    <2> QED BY <2>1, <2>4, <2>5, <2>6
  <1> QED BY <1>2, <1>4, <1>5 DEF WorkerStep

\* Two passes may fail the same job; neither touches one that succeeded.
LEMMA PassRows ==
    ASSUME JInv, NEW r \in Passes, RecoverStep(r)
    PROVE  StoreMoves
  <1> DEFINE x == recover[r]
             id == x.id
  <1>1. UNCHANGED expired
    BY DEF RecoverStep, RecoverScan, RecoverNext, RecoverGet, RecoverCheck, RecoverFail, RecoverFailed,
           RecoverClaim, Requeue, RecoverDone, persistent
  <1>2. CASE RecoverFail(r) \/ Requeue(r)
    <2>1. \/ x.at = "fail" /\ (Update(id, "failed", FALSE) \/ UNCHANGED row)
          \/ x.at = "requeue" /\ (Update(id, "notStarted", TRUE) \/ UNCHANGED row)
      BY <1>2 DEF RecoverFail, Requeue
    <2>2. id \in Ids /\ PassSees(x, id) /\ RowFits(row[id]) /\ row[id] \in RowType
      <3>1. PICK j : j = recover[r].id
        OBVIOUS
      <3>2. x.at \in AtJob
        BY <2>1 DEF AtJob
      <3> QED BY <3>1, <3>2, PassKnows
    <2>3. x.at = "requeue" /\ HasRow(id) => Unfinished(id)
      BY <2>2 DEF PassSees
    <2>4. x.at = "fail" /\ HasRow(id) => Unfinished(id) \/ (row[id].status = "failed" /\ row[id].leased = FALSE)
      BY <2>2, RowIs DEF PassSees, RowFits, Unfinished, Terminal, RowType
    <2>5. {"notStarted", "failed"} \subseteq Statuses \ {"none"} /\ {FALSE, TRUE} \subseteq BOOLEAN
      BY DEF Statuses
    <2>6. CASE x.at = "fail" /\ Update(id, "failed", FALSE)
      BY <1>1, <2>2, <2>4, <2>5, <2>6, UpdateMoves
    <2>7. CASE x.at = "requeue" /\ Update(id, "notStarted", TRUE)
      BY <1>1, <2>2, <2>3, <2>5, <2>7, UpdateMoves
    <2>8. CASE UNCHANGED row
      BY <1>1, <2>8 DEF StoreMoves
    <2> QED BY <2>1, <2>6, <2>7, <2>8
  <1>3. CASE ~(RecoverFail(r) \/ Requeue(r))
    <2>1. UNCHANGED row
      BY <1>3 DEF RecoverStep, RecoverScan, RecoverNext, RecoverGet, RecoverCheck, RecoverFailed,
                  RecoverClaim, RecoverDone, persistent
    <2> QED BY <1>1, <2>1 DEF StoreMoves
  <1> QED BY <1>2, <1>3

\* A submit's row is new and a client's DELETE, the TTL and an eviction are all that
\* remove one.
LEMMA FrontRows ==
    ASSUME JInv, NEW id \in Ids, Admit(id) \/ SubmitStep(id) \/ Feed(id) \/ DeleteRow(id) \/ DeleteBlobs(id)
    PROVE  StoreMoves
  <1>1. UNCHANGED expired
    BY DEF Admit, SubmitStep, StoreInput, StoreInputFails, CreateRow, CreateRowFails, Enqueue, Refuse, Feed,
           DeleteRow, DeleteBlobs, persistent
  <1>2. CASE CreateRow(id)
    <2> DEFINE z == [status |-> "notStarted", attempts |-> 0, leased |-> FALSE]
    <2>1. row' = [row EXCEPT ![id] = z] /\ submit[id] = "stored"
      BY <1>2 DEF CreateRow
    <2>2. z \in RowType /\ z.status = "notStarted"
      BY DEF RowType, Statuses
    <2>3. ~HasRow(id) /\ ~Answered(id)
      BY <2>1, JTyped DEF JInv, Answered
    <2> HIDE DEF z
    <2>4. RowMoves(id, z)
      BY <2>1, <2>2, <2>3, ChangeIs DEF RowMoves
    <2> QED BY <1>1, <2>2, <2>4 DEF StoreMoves
  <1>3. CASE DeleteRow(id)
    <2>1. row' = [row EXCEPT ![id] = NoRow] /\ id \in purging'
      BY <1>3 DEF DeleteRow
    <2>2. NoRow \in RowType
      BY RestingTyped
    <2>3. RowMoves(id, NoRow)
      BY <2>1, <2>2, ChangeIs DEF RowMoves
    <2> QED BY <1>1, <2>2, <2>3 DEF StoreMoves
  <1>4. CASE ~(CreateRow(id) \/ DeleteRow(id))
    <2>1. UNCHANGED row
      BY <1>4 DEF Admit, SubmitStep, StoreInput, StoreInputFails, CreateRowFails, Enqueue, Refuse, Feed,
                  DeleteBlobs, persistent
    <2> QED BY <1>1, <2>1 DEF StoreMoves
  <1> QED BY <1>2, <1>3, <1>4

LEMMA SweepRows ==
    ASSUME JInv, SweepBegins \/ SweepStep
    PROVE  StoreMoves
  <1>1. UNCHANGED expired
    BY DEF SweepBegins, SweepStep, SweepDelete, SweepDeleteBlobs, OrphansBegin, SweepOrphan, ReclaimBegins,
           EvictBegins, SweepEnds, persistent
  <1>2. CASE SweepDelete
    <2>1. PICK id \in sweep.todo : /\ sweep.at \in {"expire", "evict"}
                                   /\ row' = [row EXCEPT ![id] = NoRow] \/ UNCHANGED row
      BY <1>2 DEF SweepDelete, Sweeping
    <2>2. id \in Ids
      BY JTyped DEF JInv, SweepType
    <2>3. Unfinished(id) => id \in expired
      <3>1. CASE sweep.at = "evict"
        BY <3>1 DEF JInv, Gone, SweepGone, Ended, Terminal, HasRow, Unfinished, NoRow
      <3>2. CASE sweep.at = "expire"
        BY <3>2 DEF JInv, Gone, SweepGone
      <3> QED BY <2>1, <3>1, <3>2
    <2>4. CASE row' = [row EXCEPT ![id] = NoRow]
      <3>1. NoRow \in RowType
        BY RestingTyped
      <3>2. RowMoves(id, NoRow)
        BY <1>1, <2>2, <2>3, <2>4, <3>1, ChangeIs DEF RowMoves
      <3> QED BY <1>1, <2>2, <3>1, <3>2 DEF StoreMoves
    <2>5. CASE UNCHANGED row
      BY <1>1, <2>5 DEF StoreMoves
    <2> QED BY <2>1, <2>4, <2>5
  <1>3. CASE ~SweepDelete
    <2>1. UNCHANGED row
      BY <1>3 DEF SweepBegins, SweepStep, SweepDeleteBlobs, OrphansBegin, SweepOrphan, ReclaimBegins,
                  EvictBegins, SweepEnds, persistent
    <2> QED BY <1>1, <2>1 DEF StoreMoves
  <1> QED BY <1>2, <1>3

LEMMA TimeRows ==
    ASSUME JInv, NEW id \in Ids, TimePasses(id)
    PROVE  StoreMoves
  <1>1. CASE Age(id)
    BY <1>1 DEF Age, StoreMoves
  <1>2. CASE Expire(id)
    BY <1>2 DEF Expire, StoreMoves
  <1>3. CASE LeaseLapses(id)
    <2> DEFINE z == [row[id] EXCEPT !.leased = FALSE]
    <2>1. row' = [row EXCEPT ![id] = z] /\ row[id].leased /\ UNCHANGED expired
      BY <1>3, JTyped DEF JInv, LeaseLapses, RowType
    <2>2. z \in RowType /\ z.status = row[id].status
      BY JTyped DEF JInv, RowType
    <2>3. Unfinished(id)
      BY <2>1 DEF JInv, AllFit, Fits, RowFits, Unfinished
    <2> HIDE DEF z
    <2>4. RowMoves(id, z)
      BY <2>1, <2>2, <2>3, ChangeIs DEF RowMoves, Unfinished, Statuses
    <2> QED BY <2>1, <2>2, <2>4 DEF StoreMoves
  <1> QED BY <1>1, <1>2, <1>3 DEF TimePasses

LEMMA RowsMove == ASSUME JInv, [Next]_vars PROVE StoreMoves
  <1>1. CASE \E r \in {"boot", "sweep"} : RecoverStep(r)
    BY <1>1, PassRows DEF Passes
  <1>2. CASE SyncBegins \/ SyncEnds \/ Crash \/ Boot \/ UNCHANGED vars
    BY <1>2 DEF SyncBegins, SyncEnds, Crash, Boot, vars, persistent, StoreMoves
  <1> QED BY <1>1, <1>2, FrontRows, WorkerRows, SweepRows, TimeRows DEF Next

-----------------------------------------------------------------------------
(* Rows that go stay gone *)

LEMMA AnsweredStays ==
    ASSUME JInv, [Next]_vars, NEW id \in Ids, Answered(id)
    PROVE  Answered(id)'
  <1>1. submit \in [Ids -> {"new", "admitted", "stored", "created", "acked", "refused"}]
    BY JTyped DEF JInv
  <1>2. ASSUME NEW j \in Ids, Admit(j) \/ SubmitStep(j) PROVE Answered(id)'
    <2>1. ~Answered(j) /\ \E step : SubmitAt(j, step)
      BY <1>2 DEF Admit, SubmitStep, StoreInput, StoreInputFails, CreateRow, CreateRowFails, Refuse, Enqueue,
                  Answered
    <2> QED BY <1>1, <2>1 DEF SubmitAt, Answered
  <1>3. CASE Crash
    BY <1>3 DEF Crash, Answered
  <1>4. ASSUME UNCHANGED submit PROVE Answered(id)'
    BY <1>4 DEF Answered
  <1>5. ASSUME NEW w \in Workers, WorkerStep(w) PROVE UNCHANGED submit
    BY <1>5 DEF WorkerStep, TakeJob, GetJob, MarkRunning, EngineReturns, EnginePanics, WriteResult, Succeed,
                Fail, RunEnds
  <1>6. ASSUME NEW r, RecoverStep(r) PROVE UNCHANGED submit
    BY <1>6 DEF RecoverStep, RecoverScan, RecoverNext, RecoverGet, RecoverCheck, RecoverFail, RecoverFailed,
                RecoverClaim, Requeue, RecoverDone
  <1>7. ASSUME NEW j \in Ids, Feed(j) \/ DeleteRow(j) \/ DeleteBlobs(j) \/ TimePasses(j) PROVE UNCHANGED submit
    BY <1>7 DEF Feed, DeleteRow, DeleteBlobs, TimePasses, Age, Expire, LeaseLapses, agents
  <1>8. CASE SyncBegins \/ SyncEnds \/ SweepBegins \/ SweepStep \/ Boot \/ UNCHANGED vars
    <2>1. UNCHANGED submit
      BY <1>8 DEF SyncBegins, SyncEnds, SweepBegins, SweepStep, SweepDelete, SweepDeleteBlobs, OrphansBegin,
                  SweepOrphan, ReclaimBegins, EvictBegins, SweepEnds, Boot, vars, agents
    <2> QED BY <1>4, <2>1
  <1> QED BY <1>2, <1>3, <1>4, <1>5, <1>6, <1>7, <1>8 DEF Next

\* The row of a job that was answered does not come back, and an end is an end.
GoneStays ==
    \A id \in Ids : Answered(id) => /\ Answered(id)'
                                    /\ ~HasRow(id) => ~(HasRow(id)')
                                    /\ Ended(id) => Ended(id)'
LEMMA RowsStayGone == ASSUME JInv, [Next]_vars PROVE GoneStays
  <1> SUFFICES ASSUME NEW id \in Ids, Answered(id)
               PROVE  (~HasRow(id) => ~(HasRow(id)')) /\ (Ended(id) => Ended(id)')
    BY AnsweredStays DEF GoneStays
  <1>1. StoreMoves
    BY RowsMove
  <1>2. CASE row'[id] = row[id] \/ row'[id] = NoRow
    BY <1>2 DEF HasRow, Ended, Terminal
  <1>3. CASE Unfinished(id)
    BY <1>3 DEF HasRow, Ended, Terminal, Unfinished, NoRow
  <1>4. CASE UNCHANGED row
    BY <1>2, <1>4
  <1>5. ASSUME NEW i \in Ids, NEW z \in RowType, RowMoves(i, z)
        PROVE  row'[id] = row[id] \/ row'[id] = NoRow \/ Unfinished(id)
    BY <1>5 DEF RowMoves
  <1> QED BY <1>1, <1>2, <1>3, <1>4, <1>5 DEF StoreMoves

LEMMA ClientsGoneStay ==
    ASSUME JInv, [Next]_vars, GoneStays,
           \A id \in purging' : id \in purging \/ (Answered(id) /\ ~(HasRow(id)')),
           \A id \in expired' : id \in expired \/ Answered(id),
           {purging, expired, purging', expired'} \subseteq SUBSET Ids
    PROVE  ClientsGone'
  BY DEF GoneStays, ClientsGone, JInv, Gone

\* The sweeper goes on with what it had to do, or with less of it.
LEMMA SweepGoneStays ==
    ASSUME JInv, GoneStays, expired \subseteq expired', sweep.todo \subseteq Ids,
           sweep'.todo \subseteq sweep.todo,
           \/ sweep'.at = sweep.at /\ sweep'.id = sweep.id
           \/ /\ \/ sweep.at \in {"expire", "expireBlobs"} /\ sweep'.at \in {"expire", "expireBlobs"}
                 \/ sweep.at \in {"evict", "evictBlobs"} /\ sweep'.at \in {"evict", "evictBlobs"}
              /\ sweep'.at \in {"expireBlobs", "evictBlobs"} =>
                     sweep'.id \in Ids /\ Answered(sweep.id)' /\ ~(HasRow(sweep.id)')
    PROVE  SweepGone'
  <1>1. SweepGone
    BY DEF JInv, Gone
  <1>2. sweep'.at \in {"expireBlobs", "evictBlobs"} => sweep'.id \in Ids /\ Answered(sweep.id)' /\ ~(HasRow(sweep.id)')
    <2>1. CASE sweep'.at = sweep.at /\ sweep'.id = sweep.id
      <3>1. ASSUME sweep.at \in {"expireBlobs", "evictBlobs"}
            PROVE  \A i \in Ids : i = sweep.id => Answered(i)' /\ ~(HasRow(i)')
        BY <1>1, <3>1 DEF SweepGone, GoneStays
      <3>2. PICK i : i = sweep.id
        OBVIOUS
      <3> QED BY <1>1, <2>1, <3>1, <3>2 DEF SweepGone, Answered, HasRow
    <2> QED BY <2>1
  <1>3. sweep'.at \in {"expire", "evict", "expireBlobs", "evictBlobs"} => \A id \in sweep'.todo : Answered(id)'
    BY <1>1 DEF SweepGone, GoneStays
  <1>4. sweep'.at \in {"evict", "evictBlobs"} => \A id \in sweep'.todo : Ended(id)'
    BY <1>1 DEF SweepGone, GoneStays
  <1>5. sweep'.at \in {"expire", "expireBlobs"} => sweep'.todo \subseteq expired'
    BY <1>1 DEF SweepGone
  <1> QED BY <1>2, <1>3, <1>4, <1>5 DEF SweepGone

\* Between its phases the sweeper has nothing to do.
LEMMA SweepGoneNot ==
    ASSUME sweep'.at \in {"idle", "orphans", "reclaim"} PROVE SweepGone'
  BY DEF SweepGone

LEMMA SweepAtIs ==
    ASSUME sweep \in SweepType, NEW step, NEW todo, SweepAt(step, todo)
    PROVE  sweep'.at = step /\ sweep'.todo = todo
  BY DEF SweepAt, SweepType

LEMMA SweepStepGone ==
    ASSUME JInv, GoneStays, SweepBegins \/ SweepStep, UNCHANGED expired
    PROVE  SweepGone'
  <1>1. sweep \in SweepType /\ sweep.todo \subseteq Ids
    BY JTyped DEF JInv, SweepType
  <1>2. CASE SweepBegins
    <2>1. PICK todo \in {Collectable, {}} : SweepAt("expire", todo)
      BY <1>2 DEF SweepBegins
    <2>2. sweep'.at = "expire" /\ sweep'.todo = todo
      BY <1>1, <2>1, SweepAtIs
    <2>3. \A id \in todo : id \in expired /\ id \in Ids /\ Answered(id)
      BY <2>1, JTyped DEF Collectable, JInv, Gone, ClientsGone
    <2>4. \A id \in todo : Answered(id)'
      BY <2>3 DEF GoneStays
    <2> QED BY <2>2, <2>3, <2>4 DEF SweepGone
  <1>3. CASE SweepDelete
    <2>1. PICK i \in sweep.todo :
              /\ sweep.at \in {"expire", "evict"}
              /\ \/ /\ row' = [row EXCEPT ![i] = NoRow]
                    /\ sweep' = [sweep EXCEPT !.todo = @ \ {i}, !.id = i,
                                 !.at = IF @ = "expire" THEN "expireBlobs" ELSE "evictBlobs"]
                 \/ SweepSkip(i)
      BY <1>3 DEF SweepDelete, Sweeping
    <2>2. i \in Ids /\ Answered(i)
      BY <1>1, <2>1 DEF JInv, Gone, SweepGone
    <2>3. CASE SweepSkip(i)
      <3>1. sweep'.at = sweep.at /\ sweep'.id = sweep.id /\ sweep'.todo \subseteq sweep.todo
        BY <1>1, <2>3 DEF SweepSkip, SweepType
      <3> QED BY <1>1, <3>1, SweepGoneStays
    <2>4. CASE /\ row' = [row EXCEPT ![i] = NoRow]
               /\ sweep' = [sweep EXCEPT !.todo = @ \ {i}, !.id = i,
                            !.at = IF @ = "expire" THEN "expireBlobs" ELSE "evictBlobs"]
      <3>1. /\ sweep'.id = i /\ sweep'.todo \subseteq sweep.todo
            /\ sweep'.at = IF sweep.at = "expire" THEN "expireBlobs" ELSE "evictBlobs"
        BY <1>1, <2>4 DEF SweepType
      <3>2. row'[i] = NoRow /\ submit'[i] \in {"acked", "refused"}
        BY <2>2, <2>4, JTyped DEF JInv, GoneStays, Answered
      <3>3. sweep'.id \in Ids /\ Answered(sweep.id)' /\ ~(HasRow(sweep.id)')
        BY <2>2, <3>1, <3>2 DEF Answered, HasRow
      <3> QED BY <1>1, <2>1, <3>1, <3>3, SweepGoneStays
    <2> QED BY <2>1, <2>3, <2>4
  <1>4. CASE SweepDeleteBlobs
    <2>1. /\ sweep.at \in {"expireBlobs", "evictBlobs"} /\ sweep'.todo = sweep.todo
          /\ sweep'.at = IF sweep.at = "expireBlobs" THEN "expire" ELSE "evict"
      BY <1>1, <1>4 DEF SweepDeleteBlobs, Sweeping, SweepType
    <2> QED BY <1>1, <2>1, SweepGoneStays
  <1>5. CASE OrphansBegin \/ ReclaimBegins \/ SweepEnds
    <2>1. (\E todo : SweepAt("orphans", todo) \/ SweepAt("reclaim", todo)) \/ sweep' = Asleep
      BY <1>5 DEF OrphansBegin, ReclaimBegins, SweepEnds
    <2>2. sweep'.at \in {"idle", "orphans", "reclaim"}
      BY <1>1, <2>1, SweepAtIs DEF Asleep
    <2> QED BY <2>2, SweepGoneNot
  <1>6. CASE SweepOrphan
    <2>1. PICK i \in sweep.todo : SweepSkip(i)
      BY <1>6 DEF SweepOrphan
    <2>2. sweep'.at = sweep.at /\ sweep'.id = sweep.id /\ sweep'.todo \subseteq sweep.todo
      BY <1>1, <2>1 DEF SweepSkip, SweepType
    <2> QED BY <1>1, <2>2, SweepGoneStays
  <1>7. CASE EvictBegins
    <2>1. PICK todo \in {{}, {id \in Ids : Terminal(id)}} : SweepAt("evict", todo)
      BY <1>7 DEF EvictBegins
    <2>2. sweep'.at = "evict" /\ sweep'.todo = todo
      BY <1>1, <2>1, SweepAtIs
    <2>3. \A id \in todo : id \in Ids /\ Answered(id) /\ Ended(id)
      <3> SUFFICES ASSUME NEW id \in todo PROVE id \in Ids /\ Answered(id) /\ Ended(id)
        OBVIOUS
      <3>1. id \in Ids /\ Terminal(id)
        BY <2>1
      <3>2. Mentioned(id)
        BY <3>1 DEF Mentioned, Terminal, Fresh
      <3> QED BY <3>1, <3>2 DEF JInv, Known, Ended
    <2>4. \A id \in todo : Answered(id)' /\ Ended(id)'
      BY <2>3 DEF GoneStays
    <2> QED BY <2>2, <2>4 DEF SweepGone
  <1> QED BY <1>2, <1>3, <1>4, <1>5, <1>6, <1>7 DEF SweepStep

LEMMA NextGone == ASSUME JInv, [Next]_vars PROVE Gone'
  <1>1. GoneStays /\ IInv'
    BY RowsStayGone, NextIInv DEF JInv
  <1>2. {purging, expired, purging', expired'} \subseteq SUBSET Ids /\ sweep.todo \subseteq Ids
    BY <1>1, JTyped DEF JInv, IInv, Typed, StoreTyped, SweepType
  <1>3. CASE \E id \in Ids : DeleteRow(id)
    <2>1. PICK i \in Ids : DeleteRow(i)
      BY <1>3
    <2>2. /\ row' = [row EXCEPT ![i] = NoRow] /\ purging' = purging \union {i} /\ Answered(i)
          /\ UNCHANGED <<expired, sweep>>
      BY <2>1 DEF DeleteRow, Answered
    <2>3. row'[i] = NoRow
      BY <2>2, JTyped DEF JInv
    <2>4. ClientsGone'
      BY <1>1, <1>2, <2>2, <2>3, ClientsGoneStay DEF HasRow
    <2>5. SweepGone'
      BY <1>1, <1>2, <2>2, SweepGoneStays
    <2> QED BY <2>4, <2>5 DEF Gone
  <1>4. CASE \E id \in Ids : Expire(id)
    <2>1. PICK i \in Ids : Expire(i)
      BY <1>4
    <2>2. expired' = expired \union {i} /\ Answered(i) /\ UNCHANGED <<purging, sweep>>
      BY <2>1 DEF Expire, agents, Answered
    <2> QED BY <1>1, <1>2, <2>2, ClientsGoneStay, SweepGoneStays DEF Gone
  <1>5. CASE SweepBegins \/ SweepStep
    <2>1. UNCHANGED <<purging, expired>>
      BY <1>5 DEF SweepBegins, SweepStep, SweepDelete, SweepDeleteBlobs, OrphansBegin, SweepOrphan,
                  ReclaimBegins, EvictBegins, SweepEnds, persistent
    <2> QED BY <1>1, <1>2, <1>5, <2>1, ClientsGoneStay, SweepStepGone DEF Gone
  <1>6. CASE Crash \/ Boot
    <2>1. purging' \subseteq purging /\ UNCHANGED expired /\ sweep'.at = "idle"
      BY <1>6 DEF Crash, Boot, persistent, Asleep
    <2> QED BY <1>1, <1>2, <2>1, ClientsGoneStay, SweepGoneNot DEF Gone
  <1>7. ASSUME purging' \subseteq purging, UNCHANGED <<expired, sweep>> PROVE Gone'
    BY <1>1, <1>2, <1>7, ClientsGoneStay, SweepGoneStays DEF Gone
  <1>8. ASSUME NEW w \in Workers, WorkerStep(w) PROVE UNCHANGED <<purging, expired, sweep>>
    BY <1>8 DEF WorkerStep, TakeJob, GetJob, MarkRunning, EngineReturns, EnginePanics, WriteResult, Succeed,
                Fail, RunEnds, persistent
  <1>9. ASSUME NEW r, RecoverStep(r) PROVE UNCHANGED <<purging, expired, sweep>>
    BY <1>9 DEF RecoverStep, RecoverScan, RecoverNext, RecoverGet, RecoverCheck, RecoverFail, RecoverFailed,
                 RecoverClaim, Requeue, RecoverDone, persistent
  <1>10. ASSUME NEW j \in Ids, Admit(j) \/ SubmitStep(j) \/ Feed(j) \/ DeleteBlobs(j) \/ Age(j) \/ LeaseLapses(j)
         PROVE  purging' \subseteq purging /\ UNCHANGED <<expired, sweep>>
    BY <1>10 DEF Admit, SubmitStep, StoreInput, StoreInputFails, CreateRow, CreateRowFails, Refuse, Enqueue,
                 Feed, DeleteBlobs, Age, LeaseLapses, agents, persistent
  <1>11. CASE SyncBegins \/ SyncEnds \/ UNCHANGED vars
    <2>1. UNCHANGED <<purging, expired, sweep>>
      BY <1>11 DEF SyncBegins, SyncEnds, vars, agents, persistent
    <2> QED BY <1>7, <2>1
  <1> QED BY <1>3, <1>4, <1>5, <1>6, <1>7, <1>8, <1>9, <1>10, <1>11 DEF Next, TimePasses

-----------------------------------------------------------------------------
(* The invariant holds, and what follows *)

LEMMA JInit == Init => JInv
  <1> SUFFICES ASSUME Init PROVE JInv
    OBVIOUS
  <1>1. IInv /\ Known /\ CInv
    BY InitInv, KnownInit, InitCInv
  <1>2. /\ \A id \in Ids : row[id] = NoRow /\ submit[id] = "new"
        /\ queue = <<>> /\ feeding = {} /\ purging = {} /\ expired = {}
        /\ \A w \in Workers : worker[w].at = "idle"
        /\ \A r \in Passes : recover[r].at = "idle" /\ recover[r].claimed = {}
        /\ sweep.at = "idle"
    BY RestingTyped DEF Init, Passes, Asleep
  <1>3. RowFits(NoRow) /\ NoRow.status = "none"
    BY BoundsAssumption DEF RowFits, NoRow
  <1>4. ASSUME NEW id \in Ids PROVE Fits(id)
    <2>1. ~InHand(id) /\ ~Claimed(id)
      BY <1>2 DEF InHand, InQueue, Claimed, Requeues
    <2>2. Ready(id) /\ BlobsFit(id)
      BY <1>2, <1>3, <2>1 DEF Ready, BlobsFit, NeedsInput, Unfinished
    <2>3. WorkersSee(id) /\ PassesSee(id) /\ Alone(id)
      BY <1>2 DEF WorkersSee, PassesSee, Alone, Has, LooksAt, AtJob
    <2> QED BY <1>2, <1>3, <2>2, <2>3 DEF Fits
  <1>5. Gone
    BY <1>2 DEF Gone, ClientsGone, SweepGone
  <1> QED BY <1>1, <1>4, <1>5 DEF JInv, AllFit

LEMMA JNext == JInv /\ Timely /\ [Next]_vars => JInv'
  <1> SUFFICES ASSUME JInv, Timely, [Next]_vars PROVE JInv'
    OBVIOUS
  <1>1. IInv' /\ Known'
    BY NextIInv, NextKnown DEF JInv, Timely
  <1>2. CInv'
    BY <1>1, NextCInv DEF JInv
  <1>3. AllFit'
    BY NextFits DEF Timely
  <1>4. Gone'
    BY NextGone
  <1> QED BY <1>1, <1>2, <1>3, <1>4 DEF JInv

LEMMA SpecJInv == Spec /\ []Timely => []JInv
  BY JInit, JNext, PTL DEF Spec

\* A poll of a job whose row says succeeded finds its envelope: no crash, delete,
\* expiry, eviction, orphan sweep, failing step or pass of recover removes the result
\* of a row that is still there, for as long as uploads are prompt and no pass has
\* read the row of a job that a worker has (Manager.finish, store.Delete,
\* sweepOrphanBlobs, recoverOne).
THEOREM ResultKept == Spec /\ []Timely => []ResultBehindRow
  <1>1. JInv => ResultBehindRow
    BY DEF JInv, AllFit, Fits, BlobsFit, ResultBehindRow
  <1> QED BY <1>1, SpecJInv, PTL

\* The durability contract of submit: as long as no step has failed, a job that was
\* answered with 202 and is not done has its input document, with the periodic pass
\* and everything else at work, under the same two assumptions (surface.submit,
\* Manager.run, recoverOne).
THEOREM InputStays == Spec /\ []Timely => []InputKept
  <1>1. JInv => InputKept
    BY DEF JInv, AllFit, Fits, BlobsFit, InputKept, NeedsInput
  <1> QED BY <1>1, SpecJInv, PTL

\* maxAttempts holds through any number of crashes and reclaims: what a pass has read
\* of the attempts of a job is still so when it hands the job out again, under the
\* same two assumptions (recoverOne, store.MarkRunning).
THEOREM AttemptsCapped == Spec /\ []Timely => []AttemptsBounded
  <1>1. JInv => AttemptsBounded
    BY DEF JInv, AllFit, Fits, RowFits, AttemptsBounded
  <1> QED BY <1>1, SpecJInv, PTL

-----------------------------------------------------------------------------
(* Answers *)

\* What a poll is told is in the row and the TTL: the result is there whenever the
\* row says succeeded.
Told(y, gone) ==
    IF y = NoRow \/ gone THEN "unknown"
    ELSE IF y.status \in {"notStarted", "running"} THEN "pending" ELSE y.status
LEMMA AnswerIs ==
    ASSUME JInv, NEW id \in Ids
    PROVE  /\ Answer(id) = Told(row[id], id \in expired) /\ (row[id] # NoRow => row[id].status # "none")
           /\ row[id].status \in Statuses
  <1>1. row[id].status = "succeeded" => id \in result
    BY DEF JInv, AllFit, Fits, BlobsFit
  <1>2. row[id].status \in Statuses
    BY JTyped DEF JInv, RowType
  <1>3. row[id].status = "none" => row[id] = NoRow
    BY DEF JInv, AllFit, Fits, RowFits
  <1> QED BY <1>1, <1>2, <1>3 DEF Answer, Told, HasRow, Unfinished, Statuses

\* What may become of the answer of one id.
AnswerMoves(id) ==
    \/ Answer(id) = "unknown" /\ Answer(id)' = "pending"
    \/ Answer(id) = "pending" /\ Answer(id)' \in {"succeeded", "failed"}
    \/ Answer(id)' = "unknown" /\ (Answer(id) = "pending" => id \in (purging \union expired)')

LEMMA OneAnswer ==
    ASSUME JInv, JInv', StoreMoves
    PROVE  \/ \A j \in Ids : Answer(j)' = Answer(j)
           \/ \E id \in Ids : /\ AnswerMoves(id)
                              /\ \A j \in Ids \ {id} : Answer(j)' = Answer(j)
  <1>1. \A j \in Ids : /\ Answer(j) = Told(row[j], j \in expired)
                       /\ row[j] # NoRow => row[j].status # "none"
                       /\ row[j].status \in Statuses
    BY AnswerIs
  <1>2. \A j \in Ids : Answer(j)' = Told(row'[j], j \in expired')
    <2> SUFFICES ASSUME NEW j \in Ids PROVE Answer(j)' = Told(row'[j], j \in expired')
      OBVIOUS
    <2>1. row'[j].status = "succeeded" => j \in result'
      BY DEF JInv, AllFit, Fits, BlobsFit
    <2>2. row' \in [Ids -> RowType]
      BY DEF JInv, IInv, Typed, StoreTyped
    <2>3. row'[j].status \in Statuses /\ (row'[j].status = "none" => row'[j] = NoRow)
      BY <2>2 DEF JInv, AllFit, Fits, RowFits, RowType
    <2> QED BY <2>1, <2>3 DEF Answer, Told, HasRow, Unfinished, Statuses
  <1>3. CASE UNCHANGED <<row, expired>>
    BY <1>1, <1>2, <1>3
  <1>4. ASSUME UNCHANGED row, NEW id \in Ids, expired' = expired \union {id}
        PROVE  AnswerMoves(id) /\ \A j \in Ids \ {id} : Answer(j)' = Answer(j)
    <2>1. Answer(id)' = "unknown" /\ id \in expired'
      BY <1>2, <1>4 DEF Told
    <2>2. \A j \in Ids \ {id} : j \in expired' <=> j \in expired
      BY <1>4
    <2>3. ASSUME NEW j \in Ids \ {id} PROVE Answer(j)' = Answer(j)
      BY <1>1, <1>2, <1>4, <2>2 DEF Told
    <2> QED BY <2>1, <2>3 DEF AnswerMoves
  <1>5. ASSUME UNCHANGED expired, NEW id \in Ids, NEW z \in RowType, RowMoves(id, z)
        PROVE  /\ AnswerMoves(id) \/ Answer(id)' = Answer(id)
               /\ \A j \in Ids \ {id} : Answer(j)' = Answer(j)
    <2>1. row'[id] = z /\ \A j \in Ids \ {id} : row'[j] = row[j]
      BY <1>5 DEF RowMoves
    <2>2. \A j \in Ids \ {id} : Answer(j)' = Answer(j)
      BY <1>1, <1>2, <1>5, <2>1
    <2>3. /\ Answer(id) = Told(row[id], id \in expired) /\ Answer(id)' = Told(z, id \in expired)
          /\ row[id].status \in Statuses /\ (row[id] # NoRow => row[id].status # "none")
      BY <1>1, <1>2, <1>5, <2>1
    <2>4. CASE ~HasRow(id) /\ z.status = "notStarted"
      BY <2>2, <2>3, <2>4 DEF AnswerMoves, Told, HasRow, NoRow
    <2>5. CASE Unfinished(id) /\ z.status \in Statuses \ {"none"}
      BY <2>2, <2>3, <2>5 DEF AnswerMoves, Told, Unfinished, NoRow, Statuses
    <2>6. CASE z = row[id]
      BY <2>2, <2>3, <2>6
    <2>7. CASE z = NoRow /\ (Unfinished(id) => id \in (purging \union expired)')
      BY <2>2, <2>3, <2>7 DEF AnswerMoves, Told, Unfinished, Statuses
    <2> QED BY <1>5, <2>2, <2>4, <2>5, <2>6, <2>7 DEF RowMoves
  <1> QED BY <1>3, <1>4, <1>5 DEF StoreMoves

LEMMA ContractInit == JInv /\ Init => Contract!Init
  <1> SUFFICES ASSUME JInv, Init PROVE Contract!Init
    OBVIOUS
  <1>1. \A j \in Ids : Answer(j) = "unknown"
    BY DEF Init, Answer, HasRow
  <1>2. purging \union expired = {}
    BY DEF Init
  <1> QED BY <1>1, <1>2 DEF Contract!Init

LEMMA ContractNext == JInv /\ JInv' /\ [Next]_vars => Contract!Next
  <1> SUFFICES ASSUME JInv, JInv', [Next]_vars PROVE Contract!Next
    OBVIOUS
  <1>1. (purging \union expired)' \in SUBSET Ids
    BY DEF JInv, IInv, Typed, StoreTyped
  <1>2. CASE \A j \in Ids : Answer(j)' = Answer(j)
    <2>1. [j \in Ids |-> Answer(j)'] = [j \in Ids |-> Answer(j)]
      BY <1>2
    <2> QED BY <1>1, <2>1 DEF Contract!Next
  <1>3. ASSUME NEW id \in Ids, AnswerMoves(id), \A j \in Ids \ {id} : Answer(j)' = Answer(j)
        PROVE  Contract!Next
    <2>1. \A a : Answer(id)' = a => [j \in Ids |-> Answer(j)'] = [[j \in Ids |-> Answer(j)] EXCEPT ![id] = a]
      BY <1>3
    <2>2. [j \in Ids |-> Answer(j)][id] = Answer(id)
      OBVIOUS
    <2>3. CASE Answer(id) = "unknown" /\ Answer(id)' = "pending"
      <3>1. Contract!Accept(id)
        BY <2>1, <2>2, <2>3 DEF Contract!Accept
      <3> QED BY <1>1, <3>1 DEF Contract!Next
    <2>4. CASE Answer(id) = "pending" /\ Answer(id)' \in {"succeeded", "failed"}
      <3>1. PICK end \in {"succeeded", "failed"} : Answer(id)' = end
        BY <2>4
      <3>2. Contract!Finish(id, end)
        BY <2>1, <2>2, <2>4, <3>1 DEF Contract!Finish
      <3> QED BY <1>1, <3>1, <3>2 DEF Contract!Next
    <2>5. CASE Answer(id)' = "unknown" /\ (Answer(id) = "pending" => id \in (purging \union expired)')
      <3>1. Contract!Forget(id)
        BY <2>1, <2>2, <2>5 DEF Contract!Forget
      <3> QED BY <1>1, <3>1 DEF Contract!Next
    <2> QED BY <1>3, <2>3, <2>4, <2>5 DEF AnswerMoves
  <1> QED BY <1>2, <1>3, OneAnswer, RowsMove

\* Seen by its polls, a job keeps the contract of Operation: an end is final, and a
\* job answered with 202 is not forgotten while it is open, unless its client deleted
\* it or its TTL passed, with both passes of recover at work beside live jobs and
\* under the same two assumptions (surface.poll over store.Get, and all that writes
\* the rows).
THEOREM ContractHeld == Spec /\ []Timely => ContractKept
  <1>1. JInv /\ JInv' /\ [Next]_vars => [Contract!Next]_(Contract!vars)
    BY ContractNext
  <1>2. Spec /\ []JInv => ContractKept
    BY <1>1, ContractInit, PTL DEF Spec, ContractKept, Contract!Spec
  <1> QED BY <1>2, SpecJInv, PTL

\* A job that succeeded is not overwritten, for as long as no worker has a job whose
\* row recoverOne has read again: nothing but that race, in which the job ends after
\* the row was read, lets anybody write to a row that says succeeded (recoverOne,
\* finish, failJob).
THEOREM EndsStay == Spec /\ []Timely => FinishedNotOverwritten
  <1>1. JInv /\ [Next]_vars =>
            [\A id \in Ids : row[id].status = "succeeded" => row'[id] \in {row[id], NoRow}]_vars
    <2> SUFFICES ASSUME JInv, [Next]_vars, NEW j \in Ids, row[j].status = "succeeded"
                 PROVE  row'[j] \in {row[j], NoRow}
      OBVIOUS
    <2>1. StoreMoves
      BY RowsMove
    <2>2. CASE UNCHANGED row
      BY <2>2
    <2>3. ASSUME NEW id \in Ids, NEW z \in RowType, RowMoves(id, z) PROVE row'[j] \in {row[j], NoRow}
      BY <2>3 DEF RowMoves, HasRow, Unfinished, NoRow
    <2> QED BY <2>1, <2>2, <2>3 DEF StoreMoves
  <1> QED BY <1>1, SpecJInv, PTL DEF Spec, FinishedNotOverwritten
=============================================================================
