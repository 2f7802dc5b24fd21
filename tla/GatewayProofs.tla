---------------------------- MODULE GatewayProofs ----------------------------
(***************************************************************************)
(* Proofs about a gateway process on its volume, for any images, ids,      *)
(* surfaces, recovered jobs, submits, requests and queue sizes, and any    *)
(* number of kills, power losses and failing calls.  Migrate: the stamped  *)
(* version is the schema the database has; a copy under a backup's name is *)
(* complete; a committed migration can be undone.  BlobStore: the artifact *)
(* a row names is there and complete.  Process and Upstream: what a call   *)
(* returns is what happened, and a shutdown keeps its order.  MCGateway    *)
(* composes them.                                                          *)
(***************************************************************************)
EXTENDS MCGateway, SequenceTheorems, TLAPS

-----------------------------------------------------------------------------
(* The schema and its version *)

MigrateSpec == MigrateInit /\ [][MigrateNext]_migrateVars

\* Where a start holds the write lock.
Locking == {"recheck", "complete", "apply"}

\* A start has these; nothing is said of its file and listing, on which the
\* schema does not depend.
Fields == {"at", "image", "seen", "from", "next", "legacy", "file", "listed"}
ProcType(r) ==
    /\ DOMAIN r = Fields
    /\ r.image \in Nat \ {0} /\ r.seen \in Nat /\ r.next \in Nat /\ r.legacy \in BOOLEAN

\* What a start read is still so if the database has no version yet, and the
\* migrations it has to apply follow what it read.
ReadOk(r, d) ==
    /\ r.from = IF r.legacy THEN 1 ELSE r.seen
    /\ r.legacy => r.seen = 0
    /\ r.from <= r.image
    /\ r.at # "apply" => r.next = r.from + 1
    /\ d.stamp = 0 => r.seen = 0 /\ (r.legacy <=> d.jobs # "none")

ProcOk(r, d) == ProcType(r) /\ (r.at \notin {"down", "open", "refused"} => ReadOk(r, d))

DbType(d) ==
    /\ DOMAIN d = {"stamp", "jobs", "applied"}
    /\ d.stamp \in Nat

\* The database, with what one without a version may hold.
DbOk(d) ==
    /\ DbType(d)
    /\ d.stamp > 0 => d.applied = Upto(d.stamp) /\ d.jobs = "whole"
    /\ d.stamp = 0 => d.applied = IF d.jobs = "none" THEN <<>> ELSE <<1>>

\* The transaction of a start in r, in a database d.
TxOk(r, t, d) ==
    /\ DbType(t)
    /\ r.at = "recheck" => t = d
    /\ r.at = "complete" => t = d /\ d.stamp = 0 /\ r.legacy
    /\ r.at = "apply" => /\ 0 < r.next /\ r.next <= r.image + 1
                         /\ t.applied = Upto(r.next - 1)
                         /\ r.next > 1 => t.jobs = "whole"

\* One start holds the lock, in its transaction; a volume whose power may fail has one.
LockOk ==
    /\ \A p \in Procs : proc[p].at \in Locking <=> tx.by = p
    /\ \A p \in Procs : tx.by = p => DOMAIN tx = {"by", "db"} /\ TxOk(proc[p], tx.db, db)
    /\ tx.by \notin Procs => tx = NoTx
    /\ alone => At("second", "down")

SchemaInv ==
    /\ DOMAIN proc = Procs
    /\ \A p \in Procs : ProcOk(proc[p], db)
    /\ DbOk(db)
    /\ LockOk

LEMMA UptoZero == Upto(0) = <<>>
  BY DEF Upto

LEMMA UptoOne == Upto(1) = <<1>>
  BY DEF Upto

LEMMA UptoNext ==
    ASSUME NEW n \in Nat \ {0}
    PROVE  Append(Upto(n - 1), n) = Upto(n)
  BY DEF Upto

\* Only the start p moves.
Moves(p) == DOMAIN proc' = Procs /\ \A q \in Procs \ {p} : proc'[q] = proc[q]

\* A second start is beside the first only where the power does not fail.
LEMMA OneWithoutPower ==
    ASSUME SchemaInv, alone, NEW p \in Procs, proc[p].at # "down"
    PROVE  p = "main"
  BY DEF SchemaInv, LockOk, At, Procs

\* One start moves outside the lock; the database stays.
LEMMA MovesOutside ==
    ASSUME SchemaInv, NEW p \in Procs, Moves(p), ProcOk(proc'[p], db),
           proc[p].at \notin Locking, proc'[p].at \notin Locking,
           alone => p = "main",
           UNCHANGED <<db, tx, alone>>
    PROVE  SchemaInv'
  <1>1. \A q \in Procs : ProcOk(proc'[q], db)
    BY DEF SchemaInv, Moves
  <1>2. LockOk'
    <2>1. \A q \in Procs : (proc'[q].at \in Locking <=> proc[q].at \in Locking)
      BY DEF Moves
    <2>2. tx.by # p
      BY DEF SchemaInv, LockOk
    <2>3. alone => proc'["second"].at = "down"
      BY DEF SchemaInv, LockOk, At, Procs, Moves
    <2> QED
      BY <2>1, <2>2, <2>3 DEF SchemaInv, LockOk, At, Moves
  <1> QED
    BY <1>1, <1>2 DEF SchemaInv, Moves

\* One start is over, and with it its transaction.
LEMMA Ends ==
    ASSUME SchemaInv, NEW p \in Procs, NEW place \in {"refused", "open"},
           Exit(p, place),
           tx' = IF tx.by = p THEN NoTx ELSE tx,
           alone => p = "main",
           UNCHANGED <<db, alone>>
    PROVE  SchemaInv'
  <1> DEFINE r == [Down(proc[p].image) EXCEPT !.at = place]
  <1>1. /\ DOMAIN proc' = Procs /\ proc'[p] = r
        /\ \A q \in Procs \ {p} : proc'[q] = proc[q]
    BY DEF SchemaInv, Exit
  <1>2. r.at = place /\ ProcOk(r, db)
    <2>1. proc[p].image \in Nat \ {0}
      BY DEF SchemaInv, ProcOk, ProcType
    <2> QED
      BY <2>1 DEF ProcOk, ProcType, Fields, Down
  <1>3. \A q \in Procs : ProcOk(proc'[q], db)
    BY <1>1, <1>2 DEF SchemaInv
  <1>4. LockOk'
    <2> HIDE DEF r
    <2>1. alone => proc'["second"].at = "down"
      BY <1>1 DEF SchemaInv, LockOk, At, Procs
    <2>2. CASE tx.by = p
      <3>1. tx' = NoTx /\ tx'.by \notin Procs
        BY <2>2 DEF NoTx, Procs
      <3>2. \A q \in Procs : proc'[q].at \notin Locking
        BY <1>1, <1>2, <2>2 DEF SchemaInv, LockOk, Locking
      <3> QED
        BY <2>1, <3>1, <3>2 DEF LockOk, At
    <2>3. CASE tx.by # p
      <3>1. \A q \in Procs : (proc'[q].at \in Locking <=> proc[q].at \in Locking)
        BY <1>1, <1>2, <2>3 DEF SchemaInv, LockOk, Locking
      <3> QED
        BY <1>1, <2>1, <2>3, <3>1 DEF SchemaInv, LockOk, At
    <2> QED
      BY <2>2, <2>3
  <1> QED
    BY <1>1, <1>3, <1>4 DEF SchemaInv

\* Between reading the version and taking the lock.
Preparing == {"clear", "clearing", "copy", "copying", "sync", "check", "install", "syncdir", "prune",
              "pruning", "begin"}

SameRead(r, s) ==
    /\ DOMAIN r = Fields
    /\ r.image = s.image /\ r.seen = s.seen /\ r.from = s.from /\ r.next = s.next /\ r.legacy = s.legacy

LEMMA Prepares ==
    ASSUME SchemaInv, NEW p \in Procs, Moves(p), SameRead(proc'[p], proc[p]),
           proc[p].at \in Preparing, proc'[p].at \in Preparing,
           UNCHANGED <<db, tx, alone>>
    PROVE  SchemaInv'
  <1>1. ProcOk(proc'[p], db)
    BY DEF SchemaInv, ProcOk, ProcType, ReadOk, SameRead, Preparing
  <1>2. proc[p].at \notin Locking /\ proc'[p].at \notin Locking /\ proc[p].at # "down"
    BY DEF Preparing, Locking
  <1> QED
    BY <1>1, <1>2, OneWithoutPower, MovesOutside

\* The copy and the removals leave what was read as it is.
LEMMA BackupKeeps ==
    ASSUME SchemaInv, NEW p \in Procs,
           \/ List(p) \/ RemoveListed(p) \/ Removed(p) \/ CopyBegins(p) \/ CopyEnds(p)
           \/ SyncCopy(p) \/ CheckCopy(p) \/ Install(p) \/ SyncDataDir(p)
    PROVE  SchemaInv'
  <1>a. DOMAIN proc = Procs /\ DOMAIN proc[p] = Fields
    BY DEF SchemaInv, ProcOk, ProcType
  <1>1. /\ Moves(p) /\ SameRead(proc'[p], proc[p])
        /\ proc[p].at \in Preparing /\ proc'[p].at \in Preparing
        /\ UNCHANGED <<db, tx, alone>>
    <2>1. CASE List(p)
      BY <1>a, <2>1 DEF List, Moves, SameRead, Fields, Preparing, At
    <2>2. CASE RemoveListed(p)
      BY <1>a, <2>2 DEF RemoveListed, Moves, SameRead, Fields, Preparing
    <2>3. CASE Removed(p)
      BY <1>a, <2>3 DEF Removed, Go, Moves, SameRead, Fields, Preparing
    <2>4. CASE CopyBegins(p)
      BY <1>a, <2>4 DEF CopyBegins, Moves, SameRead, Fields, Preparing, At
    <2>5. CASE CopyEnds(p)
      BY <1>a, <2>5 DEF CopyEnds, Moves, SameRead, Fields, Preparing, At
    <2>6. CASE SyncCopy(p) \/ CheckCopy(p)
      BY <1>a, <2>6 DEF SyncCopy, CheckCopy, Go, Moves, SameRead, Fields, Preparing, At
    <2>7. CASE Install(p) \/ SyncDataDir(p)
      BY <1>a, <2>7 DEF Install, SyncDataDir, Go, Moves, SameRead, Fields, Preparing, At
    <2> QED
      BY <2>1, <2>2, <2>3, <2>4, <2>5, <2>6, <2>7
  <1> QED
    BY <1>1, Prepares

LEMMA ReadVersionKeeps ==
    ASSUME SchemaInv, NEW p \in Procs, ReadVersion(p)
    PROVE  SchemaInv'
  <1> DEFINE r == proc'[p]
             legacy == db.stamp = 0 /\ db.jobs # "none"
             from == IF legacy THEN 1 ELSE db.stamp
             place == IF db.stamp = proc[p].image THEN "open"
                      ELSE IF db.stamp > proc[p].image THEN "refused"
                      ELSE IF from > 0 /\ from < proc[p].image THEN "clear"
                      ELSE "begin"
  <1>1. /\ Moves(p) /\ DOMAIN r = Fields
        /\ r.at = place
        /\ r.image = proc[p].image /\ r.seen = db.stamp
        /\ r.from = from /\ r.next = from + 1 /\ r.legacy = legacy /\ legacy \in BOOLEAN
        /\ proc[p].at = "down" /\ (alone => p = "main")
        /\ UNCHANGED <<db, tx, alone>>
    <2>1. DOMAIN proc = Procs
      BY DEF SchemaInv
    <2>2. proc' = [proc EXCEPT ![p] = [Down(proc[p].image) EXCEPT
                      !.at = place, !.seen = db.stamp, !.from = from, !.next = from + 1, !.legacy = legacy]]
      BY Zenon DEF ReadVersion
    <2>3. legacy \in BOOLEAN
      OBVIOUS
    <2>4. proc[p].at = "down" /\ (alone => p = "main") /\ UNCHANGED <<db, tx, alone>>
      BY DEF ReadVersion, At, Procs
    <2> HIDE DEF legacy, from, place
    <2> QED
      BY <2>1, <2>2, <2>3, <2>4 DEF Moves, Down, Fields
  <1>2. ProcOk(r, db)
    <2>1. proc[p].image \in Nat \ {0} /\ db.stamp \in Nat
      BY DEF SchemaInv, ProcOk, ProcType, DbOk, DbType
    <2>2. r.legacy \in BOOLEAN /\ (r.legacy <=> legacy)
      BY <1>1, Zenon
    <2>3. /\ DOMAIN r = Fields /\ r.at = place /\ r.image = proc[p].image /\ r.seen = db.stamp
          /\ r.from = from /\ r.next = from + 1
      BY <1>1, Zenon
    <2> HIDE DEF r
    <2> QED
      BY <2>1, <2>2, <2>3 DEF ProcOk, ProcType, ReadOk
  <1> QED
    BY <1>1, <1>2, MovesOutside DEF Locking, Preparing

\* A start that holds the lock, or takes it, and holds it afterwards.
LEMMA MovesInside ==
    ASSUME SchemaInv, NEW p \in Procs, Moves(p), ProcOk(proc'[p], db),
           tx.by \in {p, "none"},
           proc[p].at \in Locking \union {"begin"}, proc'[p].at \in Locking,
           tx'.by = p, DOMAIN tx' = {"by", "db"}, TxOk(proc'[p], tx'.db, db),
           UNCHANGED <<db, alone>>
    PROVE  SchemaInv'
  <1>1. \A q \in Procs : ProcOk(proc'[q], db)
    BY DEF SchemaInv, Moves
  <1>2. LockOk'
    <2>1. \A q \in Procs \ {p} : tx.by # q /\ tx'.by # q /\ proc'[q].at \notin Locking
      BY DEF SchemaInv, LockOk, Moves, Procs
    <2>2. alone => proc'["second"].at = "down"
      <3>1. alone => p = "main"
        BY OneWithoutPower DEF Locking
      <3> QED
        BY <3>1 DEF SchemaInv, LockOk, At, Procs, Moves
    <2> QED
      BY <2>1, <2>2 DEF LockOk, At
  <1> QED
    BY <1>1, <1>2 DEF SchemaInv, Moves

LEMMA LockKeeps ==
    ASSUME SchemaInv, NEW p \in Procs, Begin(p) \/ Recheck(p) \/ Complete(p) \/ Apply(p)
    PROVE  SchemaInv'
  <1>a. /\ DOMAIN proc = Procs /\ DOMAIN proc[p] = Fields /\ ProcType(proc[p])
        /\ ProcOk(proc[p], db) /\ DbOk(db)
    BY DEF SchemaInv, ProcOk, ProcType
  <1>b. proc[p].at \in Locking => tx.by = p /\ DOMAIN tx = {"by", "db"} /\ TxOk(proc[p], tx.db, db)
    BY DEF SchemaInv, LockOk
  <1>1. CASE Begin(p)
    <2>1. /\ Moves(p) /\ SameRead(proc'[p], proc[p]) /\ proc[p].at = "begin" /\ proc'[p].at = "recheck"
          /\ tx.by = "none" /\ tx' = [by |-> p, db |-> db] /\ UNCHANGED <<db, alone>>
      BY <1>1, <1>a DEF Begin, At, Go, Moves, SameRead, Fields
    <2>2. ProcOk(proc'[p], db)
      BY <1>a, <2>1 DEF ProcOk, ProcType, ReadOk, SameRead
    <2>3. TxOk(proc'[p], tx'.db, db)
      BY <1>a, <2>1 DEF TxOk, DbOk
    <2> QED
      BY <2>1, <2>2, <2>3, MovesInside DEF Locking
  <1>2. CASE Recheck(p)
    <2>1. /\ Moves(p) /\ SameRead(proc'[p], proc[p]) /\ proc[p].at = "recheck"
          /\ proc'[p].at = IF proc[p].legacy THEN "complete" ELSE "apply"
          /\ db.stamp = proc[p].seen /\ UNCHANGED <<db, tx, alone>>
      BY <1>2, <1>a DEF Recheck, At, Go, Moves, SameRead, Fields
    <2>2. ProcOk(proc'[p], db)
      BY <1>a, <2>1 DEF ProcOk, ProcType, ReadOk, SameRead
    <2>3. /\ tx' = tx /\ tx.db = db /\ DbType(db) /\ ReadOk(proc[p], db) /\ db.stamp = proc[p].seen
          /\ proc[p].next = proc[p].from + 1 /\ proc[p].image \in Nat /\ proc[p].seen \in Nat
          /\ proc[p].legacy \in BOOLEAN
      BY <1>a, <1>b, <2>1 DEF TxOk, DbOk, ProcOk, ProcType, ReadOk, Locking
    <2>4. TxOk(proc'[p], tx'.db, db)
      <3>1. CASE proc[p].legacy
        BY <2>1, <2>3, <3>1 DEF TxOk, ReadOk, SameRead
      <3>2. CASE ~proc[p].legacy
        <4>1. proc[p].next = db.stamp + 1 /\ db.stamp \in Nat /\ proc[p].next <= proc[p].image + 1 /\ 0 < proc[p].next
          BY <2>3, <3>2 DEF ReadOk, DbType
        <4>2. db.applied = Upto(db.stamp)
          BY <1>a, <2>3, <3>2, UptoZero DEF DbOk, ReadOk
        <4>3. proc[p].next > 1 => db.jobs = "whole"
          BY <1>a, <2>3, <4>1 DEF DbOk, DbType
        <4>4. proc[p].next - 1 = db.stamp
          BY <4>1
        <4> QED
          BY <2>1, <2>3, <3>2, <4>1, <4>2, <4>3, <4>4 DEF TxOk, SameRead
      <3> QED
        BY <3>1, <3>2
    <2> QED
      BY <1>b, <2>1, <2>2, <2>4, MovesInside DEF Locking
  <1>3. CASE Complete(p)
    <2>1. /\ Moves(p) /\ SameRead(proc'[p], proc[p]) /\ proc[p].at = "complete" /\ proc'[p].at = "apply"
          /\ tx' = [tx EXCEPT !.db.jobs = "whole"] /\ tx.db.jobs # "foreign" /\ UNCHANGED <<db, alone>>
      BY <1>3, <1>a DEF Complete, At, Go, Moves, SameRead, Fields
    <2>2. ProcOk(proc'[p], db)
      BY <1>a, <2>1 DEF ProcOk, ProcType, ReadOk, SameRead
    <2>3. /\ tx'.by = p /\ DOMAIN tx' = {"by", "db"} /\ DbType(tx'.db)
          /\ tx'.db.applied = tx.db.applied /\ tx'.db.jobs = "whole"
      BY <1>b, <2>1 DEF TxOk, DbType, Locking
    <2>4. proc[p].next = 2 /\ proc[p].image \in Nat \ {0} /\ tx.db.applied = <<1>>
      BY <1>a, <1>b, <2>1 DEF TxOk, DbOk, ProcOk, ProcType, ReadOk, Locking
    <2>5. proc'[p].next - 1 = 1 /\ 0 < proc'[p].next /\ proc'[p].next <= proc'[p].image + 1
      BY <2>1, <2>4 DEF SameRead
    <2>6. TxOk(proc'[p], tx'.db, db)
      BY <2>1, <2>3, <2>4, <2>5, UptoOne DEF TxOk
    <2> QED
      BY <1>b, <2>1, <2>2, <2>3, <2>6, MovesInside DEF Locking
  <1>4. CASE Apply(p)
    <2>1. /\ Moves(p) /\ proc[p].at = "apply" /\ proc'[p].at = "apply" /\ DOMAIN proc'[p] = Fields
          /\ proc'[p].image = proc[p].image /\ proc'[p].seen = proc[p].seen
          /\ proc'[p].from = proc[p].from /\ proc'[p].legacy = proc[p].legacy
          /\ proc'[p].next = proc[p].next + 1 /\ proc[p].next <= proc[p].image
          /\ tx' = [tx EXCEPT !.db.applied = Append(@, proc[p].next),
                              !.db.jobs = IF proc[p].next = 1 THEN "whole" ELSE @]
          /\ UNCHANGED <<db, alone>>
      BY <1>4, <1>a DEF Apply, At, Moves, Fields
    <2>2. ProcOk(proc'[p], db)
      BY <1>a, <2>1 DEF ProcOk, ProcType, ReadOk
    <2>3. /\ tx'.by = p /\ DOMAIN tx' = {"by", "db"} /\ DbType(tx'.db)
          /\ tx'.db.applied = Append(tx.db.applied, proc[p].next)
          /\ tx'.db.jobs = IF proc[p].next = 1 THEN "whole" ELSE tx.db.jobs
      BY <1>b, <2>1 DEF TxOk, DbType, Locking
    <2>4. /\ proc[p].next \in Nat \ {0} /\ proc[p].image \in Nat /\ tx.db.applied = Upto(proc[p].next - 1)
          /\ proc[p].next > 1 => tx.db.jobs = "whole"
      BY <1>a, <1>b, <2>1 DEF TxOk, ProcType, Locking
    <2>5. tx'.db.applied = Upto(proc'[p].next - 1)
      <3>1. proc'[p].next - 1 = proc[p].next
        BY <2>1, <2>4
      <3> QED
        BY <2>3, <2>4, <3>1, UptoNext
    <2>6. /\ 0 < proc'[p].next /\ proc'[p].next <= proc'[p].image + 1 /\ tx'.db.jobs = "whole"
          /\ proc'[p].at = "apply"
      BY <2>1, <2>3, <2>4
    <2>7. TxOk(proc'[p], tx'.db, db)
      BY <2>3, <2>5, <2>6 DEF TxOk
    <2> QED
      BY <1>b, <2>1, <2>2, <2>3, <2>7, MovesInside DEF Locking
  <1> QED
    BY <1>1, <1>2, <1>3, <1>4

\* A commit stamps the version whose migrations are all applied; what others
\* have read is then about a database that has a version.
LEMMA CommitKeeps ==
    ASSUME SchemaInv, NEW p \in Procs, Commit(p)
    PROVE  SchemaInv'
  <1>a. /\ DOMAIN proc = Procs /\ ProcType(proc[p]) /\ \A q \in Procs : ProcOk(proc[q], db)
    BY DEF SchemaInv, ProcOk
  <1>b. proc[p].at = "apply" /\ tx.by = p /\ DOMAIN tx = {"by", "db"} /\ TxOk(proc[p], tx.db, db)
    BY DEF SchemaInv, LockOk, Commit, At, Locking
  <1>1. /\ Moves(p) /\ proc'[p].at = "open" /\ DOMAIN proc'[p] = Fields /\ ProcType(proc'[p])
    BY <1>a DEF Commit, Exit, Moves, Down, ProcType, Fields
  <1>2. DbOk(db') /\ db'.stamp > 0
    <2>1. /\ DOMAIN db' = {"stamp", "jobs", "applied"} /\ db'.stamp = proc[p].image
          /\ db'.jobs = tx.db.jobs /\ db'.applied = tx.db.applied
      BY <1>b DEF Commit, TxOk, DbType
    <2>2. proc[p].next = proc[p].image + 1
      BY <1>a, <1>b DEF Commit, ProcType, TxOk
    <2> QED
      BY <1>a, <1>b, <2>1, <2>2 DEF TxOk, DbOk, DbType, ProcType
  <1>3. \A q \in Procs : ProcOk(proc'[q], db')
    BY <1>a, <1>1, <1>2 DEF Moves, ProcOk, ReadOk
  <1>4. LockOk'
    <2>1. \A q \in Procs : proc'[q].at \notin Locking
      BY <1>b, <1>1 DEF SchemaInv, LockOk, Moves, Locking
    <2>2. tx' = NoTx /\ tx'.by \notin Procs
      BY DEF Commit, NoTx, Procs
    <2>3. (alone => proc["second"].at = "down" /\ p = "main") /\ alone' = alone
      BY <1>b, OneWithoutPower DEF SchemaInv, LockOk, At, Commit
    <2> QED
      BY <1>1, <2>1, <2>2, <2>3 DEF LockOk, At, Moves, Procs
  <1> QED
    BY <1>1, <1>2, <1>3, <1>4 DEF SchemaInv, Moves

LEMMA GiveUpKeeps ==
    ASSUME SchemaInv, NEW p \in Procs, proc[p].at # "down",
           tx' = IF tx.by = p THEN NoTx ELSE tx, Exit(p, "refused"), UNCHANGED <<db, alone>>
    PROVE  SchemaInv'
  BY OneWithoutPower, Ends

LEMMA MishapsKeep ==
    ASSUME SchemaInv,
           \/ PowerLoss \/ Restart \/ Roll
           \/ \E p \in Procs : Refuses(p) \/ StepFails(p) \/ Kill(p)
    PROVE  SchemaInv'
  <1>1. CASE PowerLoss
    <2>1. tx.by # "second"
      BY <1>1 DEF PowerLoss, SchemaInv, LockOk, At, Locking, Procs
    <2>2. tx' = IF tx.by = "main" THEN NoTx ELSE tx
      BY <1>1, <2>1 DEF PowerLoss, SchemaInv, LockOk, Procs
    <2> QED
      BY <1>1, <2>2, Ends DEF PowerLoss, Procs
  <1>2. CASE Restart \/ Roll
    <2>1. \E image \in Nat \ {0} : proc' = [proc EXCEPT !["main"] = Down(image)]
      BY <1>2, MigrateAssumption DEF Restart, Roll, SchemaInv, ProcOk, ProcType, Procs
    <2>2. Moves("main") /\ proc'["main"].at = "down" /\ ProcOk(proc'["main"], db)
      BY <2>1 DEF Moves, SchemaInv, Down, ProcOk, ProcType, Fields, Procs
    <2>3. proc["main"].at \notin Locking /\ UNCHANGED <<db, tx, alone>>
      BY <1>2 DEF Restart, Roll, Working, At, Locking
    <2> QED
      BY <2>2, <2>3, MovesOutside DEF Locking, Procs
  <1>3. ASSUME NEW p \in Procs, Refuses(p) \/ StepFails(p) \/ Kill(p)
        PROVE  SchemaInv'
    <2>1. proc[p].at # "down"
      BY <1>3 DEF Refuses, StepFails, Kill, Working, At
    <2>2. (tx' = IF tx.by = p THEN NoTx ELSE tx) /\ Exit(p, "refused") /\ UNCHANGED <<db, alone>>
      BY <1>3 DEF Refuses, StepFails, Kill, GiveUp
    <2> QED
      BY <2>1, <2>2, GiveUpKeeps
  <1> QED
    BY <1>1, <1>2, <1>3

LEMMA SchemaInit == MigrateInit => SchemaInv
  <1> SUFFICES ASSUME MigrateInit PROVE SchemaInv
    OBVIOUS
  <1>1. DOMAIN proc = Procs /\ \A p \in Procs : proc[p].at = "down" /\ ProcType(proc[p])
    <2>1. PICK i \in Images, j \in Images :
             proc = [p \in Procs |-> Down(IF p = "main" THEN i ELSE j)]
      BY DEF MigrateInit
    <2>2. i \in Nat \ {0} /\ j \in Nat \ {0}
      BY MigrateAssumption
    <2> QED
      BY <2>1, <2>2 DEF Down, ProcType, Fields
  <1>2. DbOk(db)
    <2>1. CASE db = Fresh
      BY <2>1 DEF Fresh, DbOk, DbType
    <2>2. CASE db \in Versioned \union Legacy
      BY <2>2, UptoOne DEF Versioned, Legacy, DbOk, DbType
    <2> QED
      BY <2>1, <2>2 DEF MigrateInit
  <1>3. LockOk
    BY <1>1 DEF MigrateInit, LockOk, NoTx, Procs, Locking, At
  <1> QED
    BY <1>1, <1>2, <1>3 DEF SchemaInv, ProcOk

LEMMA SchemaStep == SchemaInv /\ [MigrateNext]_migrateVars => SchemaInv'
  <1> SUFFICES ASSUME SchemaInv, [MigrateNext]_migrateVars PROVE SchemaInv'
    OBVIOUS
  <1>1. ASSUME NEW p \in Procs, StartStep(p) PROVE SchemaInv'
    BY <1>1, ReadVersionKeeps, BackupKeeps, LockKeeps, CommitKeeps, MishapsKeep DEF StartStep
  <1>2. CASE UNCHANGED migrateVars
    BY <1>2 DEF migrateVars, SchemaInv, LockOk, At
  <1> QED
    BY <1>1, <1>2, MishapsKeep DEF MigrateNext, StartProgress

LEMMA SchemaAlways == MigrateSpec => []SchemaInv
  BY SchemaInit, SchemaStep, PTL DEF MigrateSpec

\* The stamp is the schema, for any images, two starts at once, and any number
\* of kills, power losses and failing steps: the version is read again under
\* the lock, and stamped in the transaction that applies the migrations.
THEOREM SchemaStamped == MigrateSpec => []SchemaTrue
  <1>1. SchemaInv => SchemaTrue
    BY DEF SchemaInv, DbOk, SchemaTrue
  <1> QED
    BY <1>1, SchemaAlways, PTL

-----------------------------------------------------------------------------
(* The copy a start makes before it migrates, where the power may fail *)

\* DATA_DIR as it is, and as a power loss may leave it.
DirType == [Names -> Inodes \union {NoFile}]
Dirs == {journal[k] : k \in DOMAIN journal}
VolumeOk ==
    /\ journal \in Seq(DirType) /\ dir \in Dirs
    /\ DOMAIN inode = Inodes /\ \A i \in Inodes : DOMAIN inode[i] = {"copy", "whole", "safe"}

Bak(d, v) == d[<<v, "bak">>]
HasBak(d, v) == v \in Versions /\ Bak(d, v) # NoFile
AllHaveBak(v) == \A d \in Dirs : HasBak(d, v)

\* A copy of version v that a power loss does not tear.
Durable(i, v) == inode[i].whole /\ inode[i].safe /\ VersionOf(inode[i].copy) = v
CopiesOk == \A d \in Dirs, v \in Versions : Bak(d, v) # NoFile => Durable(Bak(d, v), v)

\* What the start has made sure of where it is: the file it copies to is under
\* no backup's name, is complete before it is synced, synced before it is
\* renamed, and the rename is durable before older copies go and it migrates.
Backing == Preparing \ {"begin"}
Secured == {"prune", "pruning", "begin"} \union Locking
StartOk ==
    LET r == proc["main"]
        i == dir[Partial("main")]
    IN  /\ r.image \in Images
        /\ r.at \in Preparing \union Locking => r.from = VersionOf(db)
        /\ r.at \in Backing => 0 < r.from /\ r.from < r.image
        /\ r.at = "clearing" => \A n \in r.listed : IsPartial(n)
        /\ r.at = "pruning" => Backup("main") \notin r.listed
        /\ r.at = "copying" => /\ r.file \in Inodes /\ i = r.file /\ VersionOf(inode[i].copy) = r.from
                               /\ \A d \in Dirs, v \in Versions : Bak(d, v) # r.file
        /\ r.at \in {"sync", "check", "install"} /\ i # NoFile =>
               /\ inode[i].whole /\ VersionOf(inode[i].copy) = r.from
               /\ r.at # "sync" => inode[i].safe
        /\ r.at = "syncdir" => HasBak(dir, r.from)
        /\ r.at \in Secured /\ 0 < r.from /\ r.from < r.image => AllHaveBak(r.from)

\* Every contents of DATA_DIR has the way back, or each a copy of the version
\* the volume is at.
UndoOk ==
    /\ undo \in Nat
    /\ undo > 0 => db.stamp > 0 /\ (AllHaveBak(undo) \/ AllHaveBak(db.stamp))

VInv == alone => VolumeOk /\ CopiesOk /\ StartOk /\ UndoOk

\* No image is newer than the newest.
LEMMA ImagesAreVersions ==
    ASSUME NEW i \in Images
    PROVE  i \in Nat \ {0} /\ \A n \in 0..i : n \in Versions
  <1> DEFINE Newest(v) == v \in Images /\ \A w \in Images : w <= v
  <1>1. \E v : Newest(v)
    BY MigrateAssumption
  <1>2. Newest(CHOOSE v : Newest(v))
    BY <1>1, Zenon
  <1>3. (CHOOSE v : Newest(v)) = CHOOSE v \in Images : \A w \in Images : w <= v
    OBVIOUS
  <1> HIDE DEF Newest
  <1>4. PICK m : Newest(m) /\ Versions = 0..m
    BY <1>2, <1>3 DEF Versions
  <1> QED BY <1>4, MigrateAssumption DEF Newest

LEMMA NamesOf == \A v \in Versions : <<v, "bak">> \in Names /\ <<v, "partial">> \in Names
  BY DEF Names

\* A start works on the version of the database.
LEMMA FromVersion ==
    ASSUME SchemaInv, StartOk, proc["main"].at \in Preparing \union Locking
    PROVE  proc["main"].from \in Versions /\ proc["main"].from \in Nat
  <1> DEFINE r == proc["main"]
  <1>1. r.image \in Images
    BY DEF StartOk
  <1>2. ProcType(r) /\ ReadOk(r, db)
    <2>1. r.at \notin {"down", "open", "refused"}
      BY DEF Preparing, Locking
    <2> QED BY <2>1 DEF SchemaInv, ProcOk, Procs
  <1>3. r.from \in Nat /\ r.from <= r.image
    BY <1>2 DEF ProcType, ReadOk
  <1> QED BY <1>1, <1>3, ImagesAreVersions

LEMMA PartialName ==
    ASSUME SchemaInv, StartOk, proc["main"].at \in Preparing \union Locking
    PROVE  Partial("main") \in Names /\ Backup("main") \in Names
  BY FromVersion, NamesOf DEF Partial, Backup

LEMMA DirsTyped ==
    ASSUME VolumeOk
    PROVE  dir \in DirType /\ \A d \in Dirs : d \in DirType
  <1>1. \A k \in DOMAIN journal : journal[k] \in DirType
    BY ElementOfSeq, LenProperties DEF VolumeOk
  <1> QED BY <1>1 DEF VolumeOk, Dirs

\* A change of DATA_DIR adds one more contents a power loss may leave.
LEMMA Changed ==
    ASSUME alone, VolumeOk, NEW d \in DirType, Change(d)
    PROVE  journal' \in Seq(DirType) /\ dir' = d /\ Dirs' = Dirs \union {d}
  <1>1. journal' = Append(journal, d) /\ dir' = d /\ journal \in Seq(DirType)
    BY DEF Change, VolumeOk
  <1>2. /\ journal' \in Seq(DirType)
        /\ DOMAIN journal = 1..Len(journal) /\ DOMAIN journal' = 1..Len(journal) + 1
        /\ Len(journal) \in Nat
        /\ \A k \in 1..Len(journal) : journal'[k] = journal[k]
        /\ journal'[Len(journal) + 1] = d
    BY <1>1, AppendProperties, LenProperties
  <1> QED BY <1>1, <1>2 DEF Dirs

\* So does a change that touches no backup's name but to remove it.
LEMMA BackupsKept ==
    ASSUME alone, VolumeOk, CopiesOk, NEW d \in DirType, Change(d), UNCHANGED inode,
           \A v \in Versions : Bak(d, v) \in {Bak(dir, v), NoFile}
    PROVE  VolumeOk' /\ CopiesOk'
  <1>1. journal' \in Seq(DirType) /\ dir' = d /\ Dirs' = Dirs \union {d}
    BY Changed
  <1>2. VolumeOk'
    BY <1>1 DEF VolumeOk
  <1>3. CopiesOk'
    BY <1>1 DEF CopiesOk, VolumeOk, Durable, Bak
  <1> QED BY <1>2, <1>3

\* No contents of DATA_DIR that may come back has the new copy's file.
LEMMA FreshFile ==
    ASSUME VolumeOk, ~(Inodes \subseteq Used)
    PROVE  /\ FreeInode \in Inodes
           /\ \A d \in Dirs, n \in Names : d[n] # FreeInode
  <1>1. FreeInode \in Inodes /\ FreeInode \notin Used
    <2>1. \E i \in Inodes : i \notin Used
      OBVIOUS
    <2> QED BY <2>1, Zenon DEF FreeInode
  <1>2. \A d \in Dirs, n \in Names : d[n] \in Used
    <2> SUFFICES ASSUME NEW d \in Dirs, NEW n \in Names PROVE d[n] \in Used
      OBVIOUS
    <2>1. d \in {journal[i] : i \in 1..Len(journal)}
      BY LenProperties DEF Dirs, VolumeOk
    <2>2. d[n] \in {d[m] : m \in Names}
      OBVIOUS
    <2> QED BY <2>1, <2>2 DEF Used
  <1> QED BY <1>1, <1>2

\* Wherever the start is not, nothing is asked of it.
Resting == {"down", "open", "refused"}
LEMMA RestingOk ==
    ASSUME proc'["main"].at \in Resting, proc'["main"].image \in Images
    PROVE  StartOk'
  BY DEF StartOk, Resting, Preparing, Locking, Backing, Secured

LEMMA GiveUpKept ==
    ASSUME SchemaInv, alone, VInv, UNCHANGED <<db, alone, inode, undo>>,
           Exit("main", "refused"),
           \/ UNCHANGED <<dir, journal>>
           \/ /\ proc["main"].at \in Copying
              /\ Change([dir EXCEPT ![Partial("main")] = NoFile])
    PROVE  VInv'
  <1>0. VolumeOk /\ CopiesOk /\ StartOk /\ UndoOk
    BY DEF VInv
  <1>1. StartOk'
    <2>1. proc'["main"].at = "refused" /\ proc'["main"].image = proc["main"].image
      BY DEF Exit, Down, SchemaInv, Procs
    <2> QED BY <1>0, <2>1, RestingOk DEF Resting, StartOk
  <1>2. CASE UNCHANGED <<dir, journal>>
    BY <1>0, <1>1, <1>2 DEF VInv, VolumeOk, CopiesOk, UndoOk, Dirs, AllHaveBak, HasBak, Durable
  <1>3. CASE proc["main"].at \in Copying /\ Change([dir EXCEPT ![Partial("main")] = NoFile])
    <2> DEFINE d == [dir EXCEPT ![Partial("main")] = NoFile]
    <2>1. dir \in DirType
      BY <1>0, DirsTyped
    <2>2. d \in DirType /\ \A v \in Versions : Bak(d, v) = Bak(dir, v)
      BY <2>1, NamesOf DEF DirType, Bak, Partial
    <2>3. VolumeOk' /\ CopiesOk'
      BY <1>0, <1>3, <2>2, BackupsKept
    <2>4. UndoOk'
      BY <1>0, <1>3, <2>2, Changed DEF UndoOk, AllHaveBak, HasBak, VolumeOk
    <2> QED BY <1>1, <2>3, <2>4 DEF VInv
  <1> QED BY <1>2, <1>3

LEMMA Steady ==
    ASSUME alone, VInv, UNCHANGED <<db, dir, journal, inode, undo, alone>>, StartOk'
    PROVE  VInv'
  BY DEF VInv, VolumeOk, CopiesOk, UndoOk, Dirs, AllHaveBak, HasBak, Durable

\* The start is where it was or goes on, on the same version.
SameVersion(s, r) == s.image = r.image /\ s.from = r.from
LEMMA MainGoes ==
    ASSUME SchemaInv, NEW place, Go("main", place)
    PROVE  /\ proc'["main"].at = place /\ SameVersion(proc'["main"], proc["main"])
           /\ proc'["main"].file = proc["main"].file /\ proc'["main"].listed = proc["main"].listed
  BY DEF SchemaInv, ProcOk, ProcType, Fields, Procs, Go, SameVersion

LEMMA NamesKept ==
    ASSUME SameVersion(proc'["main"], proc["main"])
    PROVE  Partial("main")' = Partial("main") /\ Backup("main")' = Backup("main")
  BY DEF SameVersion, Partial, Backup

\* The version is read, DATA_DIR is listed, the lock taken and the migrations
\* applied: the volume stays as it is.
LEMMA LooksKept ==
    ASSUME SchemaInv, alone, VInv,
           \/ ReadVersion("main") \/ List("main") \/ Removed("main") \/ CheckCopy("main")
           \/ Begin("main") \/ Recheck("main") \/ Complete("main") \/ Apply("main")
    PROVE  VInv'
  <1> DEFINE r == proc["main"]
  <1>0. VolumeOk /\ CopiesOk /\ StartOk /\ UndoOk /\ DOMAIN proc = Procs /\ DOMAIN r = Fields
    BY DEF VInv, SchemaInv, ProcOk, ProcType, Procs
  <1>a. UNCHANGED <<db, dir, journal, inode, undo, alone>>
    BY DEF ReadVersion, List, Removed, CheckCopy, Begin, Recheck, Complete, Apply
  <1> SUFFICES StartOk'
    BY <1>a, Steady
  <1>1. CASE ReadVersion("main")
    <2> DEFINE legacy == db.stamp = 0 /\ db.jobs # "none"
               from == IF legacy THEN 1 ELSE db.stamp
               place == IF db.stamp = r.image THEN "open"
                        ELSE IF db.stamp > r.image THEN "refused"
                        ELSE IF from > 0 /\ from < r.image THEN "clear"
                        ELSE "begin"
    <2>1. proc'["main"].at = place /\ proc'["main"].from = from /\ proc'["main"].image = r.image
      BY <1>0, <1>1, Zenon DEF ReadVersion, Procs, Down
    <2>2. from = VersionOf(db)
      BY DEF VersionOf
    <2>3. place = "clear" => 0 < from /\ from < r.image
      OBVIOUS
    <2>4. place = "begin" => ~(0 < from /\ from < r.image)
      OBVIOUS
    <2>5. place \in {"open", "refused", "clear", "begin"}
      OBVIOUS
    <2> HIDE DEF place, from
    <2> QED BY <1>0, <1>a, <2>1, <2>2, <2>3, <2>4, <2>5 DEF StartOk, Preparing, Backing, Locking, Secured
  <1>2. CASE List("main")
    <2> DEFINE clearing == r.at = "clear"
               listed == {n \in Names : dir[n] # NoFile /\ IF clearing THEN IsPartial(n) ELSE n # Backup("main")}
    <2>1. r.at \in {"clear", "prune"}
      BY <1>2 DEF List
    <2>2. /\ proc'["main"].at = IF clearing THEN "clearing" ELSE "pruning"
          /\ proc'["main"].listed = listed /\ SameVersion(proc'["main"], r)
      BY <1>0, <1>2, Zenon DEF List, At, Fields, Procs, SameVersion
    <2>3. /\ clearing => \A n \in listed : IsPartial(n)
          /\ ~clearing => Backup("main") \notin listed
      OBVIOUS
    <2> HIDE DEF listed
    <2> QED BY <1>0, <1>a, <2>1, <2>2, <2>3, NamesKept
            DEF StartOk, SameVersion, Preparing, Backing, Locking, Secured, AllHaveBak, HasBak, Dirs
  <1>3. CASE Removed("main")
    <2>1. r.at \in {"clearing", "pruning"} /\ Go("main", IF r.at = "clearing" THEN "copy" ELSE "begin")
      BY <1>3 DEF Removed, At
    <2>2. /\ proc'["main"].at = IF r.at = "clearing" THEN "copy" ELSE "begin"
          /\ SameVersion(proc'["main"], r)
      BY <2>1, MainGoes
    <2> QED BY <1>0, <1>a, <2>1, <2>2 DEF StartOk, SameVersion, Preparing, Backing, Locking, Secured, AllHaveBak, HasBak, Dirs
  <1>4. CASE CheckCopy("main")
    <2>1. r.at = "check" /\ Go("main", "install")
      BY <1>4 DEF CheckCopy, At
    <2>2. proc'["main"].at = "install" /\ SameVersion(proc'["main"], r)
      BY <2>1, MainGoes
    <2> QED BY <1>0, <1>a, <2>1, <2>2, NamesKept DEF StartOk, SameVersion, Preparing, Backing, Locking, Secured
  <1>5. CASE Begin("main") \/ Recheck("main") \/ Complete("main") \/ Apply("main")
    <2>1. r.at \in {"begin"} \union Locking /\ proc'["main"].at \in Locking /\ SameVersion(proc'["main"], r)
      <3>1. CASE Begin("main") \/ Complete("main")
        BY <3>1, MainGoes DEF Begin, Complete, At, Locking
      <3>2. CASE Recheck("main")
        BY <3>2, MainGoes DEF Recheck, At, Locking
      <3>3. CASE Apply("main")
        BY <1>0, <3>3 DEF Apply, At, Locking, Fields, Procs, SameVersion
      <3> QED BY <1>5, <3>1, <3>2, <3>3
    <2> QED BY <1>0, <1>a, <2>1 DEF StartOk, SameVersion, Preparing, Backing, Locking, Secured, AllHaveBak, HasBak, Dirs
  <1> QED BY <1>1, <1>2, <1>3, <1>4, <1>5

\* Only a partial copy goes before the new one is in place, and never that one after.
LEMMA RemoveListedKept ==
    ASSUME SchemaInv, alone, VInv, RemoveListed("main")
    PROVE  VInv'
  <1> DEFINE r == proc["main"]
  <1>0. VolumeOk /\ CopiesOk /\ StartOk /\ UndoOk /\ DOMAIN proc = Procs /\ DOMAIN r = Fields
    BY DEF VInv, SchemaInv, ProcOk, ProcType, Procs
  <1>1. PICK n \in r.listed :
            /\ proc' = [proc EXCEPT !["main"].listed = @ \ {n}]
            /\ IF dir[n] # NoFile THEN Change([dir EXCEPT ![n] = NoFile]) ELSE UNCHANGED <<dir, journal>>
    BY DEF RemoveListed
  <1>2. r.at \in {"clearing", "pruning"} /\ UNCHANGED <<db, inode, alone, undo>>
    BY DEF RemoveListed
  <1>3. /\ proc'["main"].at = r.at /\ SameVersion(proc'["main"], r)
        /\ proc'["main"].listed = r.listed \ {n}
    BY <1>0, <1>1 DEF Fields, Procs, SameVersion
  <1>4. CASE UNCHANGED <<dir, journal>>
    <2>1. CASE r.at = "clearing"
      <3>1. StartOk'
        BY <1>0, <1>2, <1>3, <2>1 DEF StartOk, SameVersion, Preparing, Backing, Locking, Secured
      <3> QED BY <1>2, <1>4, <3>1, Steady
    <2>2. CASE r.at = "pruning"
      <3>1. AllHaveBak(r.from) /\ r.from = VersionOf(db) /\ 0 < r.from /\ r.from < r.image
            /\ r.image \in Images /\ Backup("main") \notin r.listed
        BY <1>0, <2>2 DEF StartOk, Preparing, Backing, Locking, Secured
      <3>2. \A e \in Dirs' : HasBak(e, r.from)
        BY <1>4, <3>1 DEF AllHaveBak, Dirs
      <3>3. StartOk'
        BY <1>2, <1>3, <2>2, <3>1, <3>2, NamesKept
           DEF StartOk, SameVersion, Preparing, Backing, Locking, Secured, AllHaveBak
      <3> QED BY <1>2, <1>4, <3>3, Steady
    <2> QED BY <1>2, <2>1, <2>2
  <1>5. CASE Change([dir EXCEPT ![n] = NoFile])
    <2> DEFINE d == [dir EXCEPT ![n] = NoFile]
    <2>1. dir \in DirType /\ d \in DirType
      BY <1>0, DirsTyped DEF DirType
    <2>2. \A v \in Versions : Bak(d, v) \in {Bak(dir, v), NoFile}
      BY <2>1, NamesOf DEF DirType, Bak
    <2>3. dir' = d /\ Dirs' = Dirs \union {d} /\ dir \in Dirs
      BY <1>0, <1>5, <2>1, Changed DEF VolumeOk
    <2>4. VolumeOk' /\ CopiesOk'
      BY <1>0, <1>2, <1>5, <2>1, <2>2, BackupsKept
    <2>5. CASE r.at = "clearing"
      <3>1. \A v \in Versions : Bak(d, v) = Bak(dir, v)
        <4>1. \A v \in Versions : n # <<v, "bak">>
          BY <1>0, <2>5 DEF StartOk, IsPartial
        <4> QED BY <2>1, <4>1, NamesOf DEF DirType, Bak
      <3>2. UndoOk'
        BY <1>0, <1>2, <2>3, <3>1 DEF UndoOk, AllHaveBak, HasBak
      <3>3. StartOk'
        BY <1>0, <1>2, <1>3, <2>5 DEF StartOk, SameVersion, Preparing, Backing, Locking, Secured
      <3> QED BY <2>4, <3>2, <3>3 DEF VInv
    <2>6. CASE r.at = "pruning"
      <3>1. AllHaveBak(r.from) /\ n # Backup("main") /\ r.from \in Versions /\ r.from = VersionOf(db)
            /\ 0 < r.from /\ r.from < r.image
        BY <1>0, <2>6, FromVersion DEF StartOk, Preparing, Backing, Locking, Secured
      <3>2. Bak(d, r.from) = Bak(dir, r.from)
        BY <2>1, <3>1, NamesOf DEF DirType, Bak, Backup
      <3>3. \A e \in Dirs' : HasBak(e, r.from)
        BY <2>3, <3>1, <3>2 DEF AllHaveBak, HasBak
      <3>4. UndoOk'
        BY <1>0, <1>2, <3>1, <3>3 DEF UndoOk, AllHaveBak, VersionOf
      <3>5. StartOk'
        BY <1>0, <1>2, <1>3, <2>6, <3>1, <3>3, NamesKept
           DEF StartOk, SameVersion, Preparing, Backing, Locking, Secured, AllHaveBak
      <3> QED BY <2>4, <3>4, <3>5 DEF VInv
    <2> QED BY <1>2, <2>5, <2>6
  <1> QED BY <1>1, <1>4, <1>5

\* A copy goes to a file of its own, which no backup's name has.
LEMMA CopyBeginsKept ==
    ASSUME SchemaInv, alone, VInv, CopyBegins("main")
    PROVE  VInv'
  <1> DEFINE r == proc["main"]
             i == FreeInode
             d == [dir EXCEPT ![Partial("main")] = i]
  <1>0. VolumeOk /\ CopiesOk /\ StartOk /\ UndoOk /\ DOMAIN proc = Procs /\ DOMAIN r = Fields
    BY DEF VInv, SchemaInv, ProcOk, ProcType, Procs
  <1>1. /\ r.at = "copy" /\ Change(d) /\ UNCHANGED <<db, alone, undo>>
        /\ inode' = [inode EXCEPT ![i] = [copy |-> db, whole |-> FALSE, safe |-> FALSE]]
        /\ i \in Inodes /\ \A e \in Dirs, n \in Names : e[n] # i
    BY <1>0, FreshFile DEF CopyBegins, At
  <1>2. proc'["main"].at = "copying" /\ proc'["main"].file = i /\ SameVersion(proc'["main"], r)
    BY <1>0 DEF CopyBegins, Fields, Procs, SameVersion
  <1>3. /\ Partial("main") \in Names /\ r.from = VersionOf(db) /\ r.from \in Versions
        /\ 0 < r.from /\ r.from < r.image /\ r.image \in Images
    BY <1>0, <1>1, PartialName, FromVersion DEF StartOk, Preparing, Backing
  <1> HIDE DEF i
  <1>4. dir \in DirType /\ d \in DirType /\ dir \in Dirs /\ d[Partial("main")] = i
    BY <1>0, <1>1, <1>3, DirsTyped DEF VolumeOk, DirType
  <1>5. \A v \in Versions : Bak(d, v) = Bak(dir, v)
    BY <1>4, NamesOf DEF DirType, Bak, Partial
  <1>6. journal' \in Seq(DirType) /\ dir' = d /\ Dirs' = Dirs \union {d}
    BY <1>0, <1>1, <1>4, Changed
  <1>7. \A e \in Dirs', v \in Versions : Bak(e, v) # i
    BY <1>1, <1>4, <1>5, <1>6, NamesOf DEF Bak
  <1>8. \A e \in Dirs, n \in Names : e[n] \in Inodes \union {NoFile}
    BY <1>0, DirsTyped DEF DirType
  <1>9. \A j \in Inodes : j # i => inode'[j] = inode[j]
    BY <1>0, <1>1 DEF VolumeOk
  <1>10. VolumeOk'
    BY <1>0, <1>1, <1>6 DEF VolumeOk
  <1>11. CopiesOk'
    <2> SUFFICES ASSUME NEW e \in Dirs', NEW v \in Versions, Bak(e, v) # NoFile
                 PROVE  Durable(Bak(e, v), v)'
      BY DEF CopiesOk, Bak
    <2>1. PICK c \in Dirs : Bak(e, v) = Bak(c, v)
      BY <1>4, <1>5, <1>6
    <2>2. Durable(Bak(c, v), v) /\ Bak(c, v) \in Inodes
      BY <1>0, <1>8, <2>1, NamesOf DEF CopiesOk, Bak
    <2>3. inode'[Bak(c, v)] = inode[Bak(c, v)]
      BY <1>7, <1>9, <2>1, <2>2
    <2> QED BY <2>1, <2>2, <2>3 DEF Durable, Bak
  <1>12. UndoOk'
    BY <1>0, <1>1, <1>4, <1>5, <1>6 DEF UndoOk, AllHaveBak, HasBak
  <1>13. StartOk'
    <2>1. inode'[i].copy = db
      BY <1>0, <1>1 DEF VolumeOk
    <2> QED BY <1>1, <1>2, <1>3, <1>4, <1>6, <1>7, <2>1, NamesKept
            DEF StartOk, SameVersion, Preparing, Backing, Locking, Secured
  <1> QED BY <1>10, <1>11, <1>12, <1>13 DEF VInv

\* The copy is completed, and synced, under the name of a partial copy.
LEMMA CopyKept ==
    ASSUME SchemaInv, alone, VInv, CopyEnds("main") \/ SyncCopy("main")
    PROVE  VInv'
  <1> DEFINE r == proc["main"]
             i == dir[Partial("main")]
  <1>0. VolumeOk /\ CopiesOk /\ StartOk /\ UndoOk /\ DOMAIN proc = Procs /\ DOMAIN r = Fields
    BY DEF VInv, SchemaInv, ProcOk, ProcType, Procs
  <1>1. /\ UNCHANGED <<db, dir, journal, alone, undo>>
        /\ r.at \in {"copying", "sync"} /\ SameVersion(proc'["main"], r)
        /\ i \in Inodes /\ Dirs' = Dirs
    <2>1. UNCHANGED <<db, dir, journal, alone, undo>> /\ Dirs' = Dirs
      BY DEF CopyEnds, SyncCopy, Dirs
    <2>2. r.at \in {"copying", "sync"} /\ SameVersion(proc'["main"], r)
      <3>1. CASE CopyEnds("main")
        BY <1>0, <3>1 DEF CopyEnds, At, Fields, Procs, SameVersion
      <3>2. CASE SyncCopy("main")
        BY <3>2, MainGoes DEF SyncCopy, At
      <3> QED BY <3>1, <3>2
    <2>3. i \in Inodes
      <3>1. CASE CopyEnds("main")
        BY <1>0, <3>1 DEF CopyEnds, At, StartOk
      <3>2. CASE SyncCopy("main")
        BY <1>0, <2>2, <3>2, DirsTyped, PartialName DEF SyncCopy, DirType, Preparing
      <3> QED BY <3>1, <3>2
    <2> QED BY <2>1, <2>2, <2>3
  <1>2. /\ r.from = VersionOf(db) /\ 0 < r.from /\ r.from < r.image /\ r.image \in Images
    BY <1>0, <1>1 DEF StartOk, Preparing, Backing
  <1>3. CASE CopyEnds("main")
    <2>1. /\ r.at = "copying" /\ i = r.file /\ VersionOf(inode[i].copy) = r.from
          /\ \A d \in Dirs, v \in Versions : Bak(d, v) # i
          /\ inode' = [inode EXCEPT ![i].whole = TRUE, ![i].safe = FALSE]
      BY <1>0, <1>3 DEF StartOk, CopyEnds, At
    <2>2. proc'["main"].at = "sync"
      BY <1>0, <1>3 DEF CopyEnds, Fields, Procs
    <2>3. /\ DOMAIN inode' = Inodes /\ \A j \in Inodes : j # i => inode'[j] = inode[j]
          /\ DOMAIN inode'[i] = {"copy", "whole", "safe"}
          /\ inode'[i].whole /\ inode'[i].copy = inode[i].copy
      BY <1>0, <1>1, <2>1 DEF VolumeOk
    <2>4. VolumeOk' /\ UndoOk'
      BY <1>0, <1>1, <2>3 DEF VolumeOk, UndoOk, AllHaveBak, HasBak
    <2>5. CopiesOk'
      <3> SUFFICES ASSUME NEW d \in Dirs, NEW v \in Versions, Bak(d, v) # NoFile
                   PROVE  Durable(Bak(d, v), v)'
        BY <1>1 DEF CopiesOk, Bak
      <3>1. Bak(d, v) \in Inodes /\ Bak(d, v) # i
        BY <1>0, <2>1, DirsTyped, NamesOf DEF Bak, DirType
      <3> QED BY <1>0, <2>3, <3>1 DEF CopiesOk, Durable, Bak
    <2>6. StartOk'
      BY <1>1, <1>2, <2>1, <2>2, <2>3, NamesKept
         DEF StartOk, SameVersion, Preparing, Backing, Locking, Secured, VersionOf
    <2> QED BY <2>4, <2>5, <2>6 DEF VInv
  <1>4. CASE SyncCopy("main")
    <2>1. /\ r.at = "sync" /\ inode[i].whole /\ VersionOf(inode[i].copy) = r.from
          /\ inode' = [inode EXCEPT ![i].safe = TRUE]
      BY <1>0, <1>4 DEF StartOk, SyncCopy, At
    <2>2. proc'["main"].at = "check"
      BY <1>4, MainGoes DEF SyncCopy
    <2>3. /\ DOMAIN inode' = Inodes /\ inode'[i].safe
          /\ \A j \in Inodes : /\ DOMAIN inode'[j] = {"copy", "whole", "safe"}
                               /\ inode'[j].whole = inode[j].whole /\ inode'[j].copy = inode[j].copy
                               /\ j # i => inode'[j].safe = inode[j].safe
      BY <1>0, <1>1, <2>1 DEF VolumeOk
    <2>4. VolumeOk' /\ UndoOk'
      BY <1>0, <1>1, <2>3 DEF VolumeOk, UndoOk, AllHaveBak, HasBak
    <2>5. CopiesOk'
      <3> SUFFICES ASSUME NEW d \in Dirs, NEW v \in Versions, Bak(d, v) # NoFile
                   PROVE  Durable(Bak(d, v), v)'
        BY <1>1 DEF CopiesOk, Bak
      <3>1. Bak(d, v) \in Inodes
        BY <1>0, DirsTyped, NamesOf DEF Bak, DirType
      <3> QED BY <1>0, <2>3, <3>1 DEF CopiesOk, Durable, Bak, VersionOf
    <2>6. StartOk'
      BY <1>1, <1>2, <2>1, <2>2, <2>3, NamesKept
         DEF StartOk, SameVersion, Preparing, Backing, Locking, Secured, VersionOf
    <2> QED BY <2>4, <2>5, <2>6 DEF VInv
  <1> QED BY <1>3, <1>4

\* A complete copy that has been synced gets its name.
LEMMA InstallKept ==
    ASSUME SchemaInv, alone, VInv, Install("main")
    PROVE  VInv'
  <1> DEFINE r == proc["main"]
             i == dir[Partial("main")]
             d == [dir EXCEPT ![Backup("main")] = i, ![Partial("main")] = NoFile]
  <1>0. VolumeOk /\ CopiesOk /\ StartOk /\ UndoOk
    BY DEF VInv
  <1>1. /\ r.at = "install" /\ i # NoFile /\ Change(d) /\ UNCHANGED <<db, inode, alone, undo>>
        /\ proc'["main"].at = "syncdir" /\ SameVersion(proc'["main"], r)
    BY MainGoes DEF Install, At
  <1>2. /\ r.from = VersionOf(db) /\ 0 < r.from /\ r.from < r.image /\ r.image \in Images
        /\ r.from \in Versions /\ Durable(i, r.from)
    BY <1>0, <1>1, FromVersion DEF StartOk, Preparing, Backing, Durable
  <1>3. /\ dir \in DirType /\ dir \in Dirs /\ d \in DirType
        /\ \A v \in Versions : Bak(d, v) = IF v = r.from THEN i ELSE Bak(dir, v)
    <2>1. dir \in DirType /\ dir \in Dirs
      BY <1>0, DirsTyped DEF VolumeOk
    <2>2. Backup("main") = <<r.from, "bak">> /\ Partial("main") = <<r.from, "partial">>
      BY DEF Backup, Partial
    <2>3. <<r.from, "bak">> \in Names /\ <<r.from, "partial">> \in Names
      BY <1>2, NamesOf
    <2>4. d \in DirType
      BY <2>1, <2>2, <2>3 DEF DirType
    <2>5. \A v \in Versions : Bak(d, v) = IF v = r.from THEN i ELSE Bak(dir, v)
      <3> SUFFICES ASSUME NEW v \in Versions
                   PROVE  d[<<v, "bak">>] = IF v = r.from THEN i ELSE dir[<<v, "bak">>]
        BY DEF Bak
      <3>1. <<v, "bak">> \in Names /\ <<v, "bak">> # <<r.from, "partial">>
        BY NamesOf
      <3>2. v # r.from => <<v, "bak">> # <<r.from, "bak">>
        OBVIOUS
      <3> QED BY <2>1, <2>2, <2>3, <3>1, <3>2 DEF DirType
    <2> QED BY <2>1, <2>4, <2>5
  <1> HIDE DEF d
  <1>4. journal' \in Seq(DirType) /\ dir' = d /\ Dirs' = Dirs \union {d}
    BY <1>0, <1>1, <1>3, Changed
  <1>5. VolumeOk'
    BY <1>0, <1>1, <1>4 DEF VolumeOk
  <1>6. CopiesOk'
    <2> SUFFICES ASSUME NEW e \in Dirs', NEW v \in Versions, Bak(e, v) # NoFile
                 PROVE  Durable(Bak(e, v), v)
      BY <1>1 DEF CopiesOk, Bak, Durable
    <2>1. CASE e \in Dirs
      BY <1>0, <2>1 DEF CopiesOk
    <2>2. CASE e = d /\ v = r.from
      BY <1>2, <1>3, <2>2
    <2>3. CASE e = d /\ v # r.from
      BY <1>0, <1>3, <2>3 DEF CopiesOk
    <2> QED BY <1>4, <2>1, <2>2, <2>3
  <1>7. \A v \in Versions : HasBak(dir, v) => HasBak(d, v)
    BY <1>1, <1>3 DEF HasBak
  <1>8. UndoOk'
    BY <1>0, <1>1, <1>3, <1>4, <1>7 DEF UndoOk, AllHaveBak, HasBak
  <1>9. HasBak(d, r.from)
    BY <1>1, <1>2, <1>3 DEF HasBak
  <1>10. StartOk'
    BY <1>1, <1>2, <1>4, <1>9 DEF StartOk, SameVersion, Preparing, Backing, Locking, Secured
  <1> QED BY <1>5, <1>6, <1>8, <1>10 DEF VInv

\* The fsync of DATA_DIR makes the new name durable.
LEMMA SyncDataDirKept ==
    ASSUME SchemaInv, alone, VInv, SyncDataDir("main")
    PROVE  VInv'
  <1> DEFINE r == proc["main"]
  <1>0. VolumeOk /\ CopiesOk /\ StartOk /\ UndoOk /\ dir \in DirType
    BY DirsTyped DEF VInv
  <1>1. /\ r.at = "syncdir" /\ journal' = <<dir>> /\ UNCHANGED <<db, dir, inode, alone, undo>>
        /\ proc'["main"].at = "prune" /\ SameVersion(proc'["main"], r)
    BY MainGoes DEF SyncDataDir, At
  <1>2. /\ r.from = VersionOf(db) /\ 0 < r.from /\ r.from < r.image /\ r.image \in Images
        /\ r.from \in Versions /\ HasBak(dir, r.from)
    BY <1>0, <1>1, FromVersion DEF StartOk, Preparing, Backing
  <1>3. journal' \in Seq(DirType) /\ Dirs' = {dir} /\ dir \in Dirs
    BY <1>0, <1>1 DEF Dirs, VolumeOk
  <1>4. VolumeOk' /\ CopiesOk' /\ UndoOk'
    BY <1>0, <1>1, <1>3 DEF VolumeOk, CopiesOk, Durable, UndoOk, AllHaveBak, HasBak, Bak
  <1>5. StartOk'
    BY <1>1, <1>2, <1>3 DEF StartOk, SameVersion, Preparing, Backing, Locking, Secured, AllHaveBak, HasBak
  <1> QED BY <1>4, <1>5 DEF VInv

\* A commit leaves the version it started from as the way back.
LEMMA CommitKept ==
    ASSUME SchemaInv, alone, VInv, Commit("main")
    PROVE  VInv'
  <1> DEFINE r == proc["main"]
             pending == r.from > 0 /\ r.from < r.image
  <1>0. VolumeOk /\ CopiesOk /\ StartOk /\ UndoOk /\ DbOk(db)
    BY DEF VInv, SchemaInv
  <1>1. /\ r.at = "apply" /\ UNCHANGED <<inode, dir, journal, alone>>
        /\ db'.stamp = r.image /\ undo' = IF pending THEN r.from ELSE undo
        /\ proc'["main"].at = "open" /\ proc'["main"].image = r.image
    <2>1. DOMAIN tx.db = {"stamp", "jobs", "applied"} /\ r.at = "apply"
      BY DEF Commit, At, SchemaInv, LockOk, TxOk, DbType, Locking, Procs
    <2> QED BY <2>1 DEF Commit, Exit, Down, SchemaInv, Procs
  <1>2. /\ r.from = VersionOf(db) /\ r.image \in Images /\ r.image \in Nat \ {0} /\ r.from \in Nat
        /\ pending => AllHaveBak(r.from)
    BY <1>0, <1>1, FromVersion, ImagesAreVersions DEF StartOk, Locking, Secured
  <1>3. r.from <= r.image
    BY <1>1 DEF SchemaInv, ProcOk, ReadOk, Procs
  <1>4. VolumeOk' /\ CopiesOk' /\ Dirs' = Dirs
    BY <1>0, <1>1 DEF VolumeOk, CopiesOk, Durable, Dirs
  <1>5. UndoOk'
    <2>1. CASE pending
      BY <1>1, <1>2, <1>4, <2>1 DEF UndoOk, AllHaveBak, HasBak
    <2>2. CASE ~pending
      <3>1. undo > 0 => db'.stamp = db.stamp
        BY <1>0, <1>1, <1>2, <1>3, <2>2 DEF UndoOk, VersionOf, DbOk, DbType
      <3> QED BY <1>0, <1>1, <1>2, <1>4, <2>2, <3>1 DEF UndoOk, AllHaveBak, HasBak
    <2> QED BY <2>1, <2>2
  <1>6. StartOk'
    BY <1>1, <1>2, RestingOk DEF Resting
  <1> QED BY <1>4, <1>5, <1>6 DEF VInv

\* A power loss leaves one of the contents, and tears no file that was synced.
LEMMA PowerLossKept ==
    ASSUME SchemaInv, alone, VInv, PowerLoss
    PROVE  VInv'
  <1>0. VolumeOk /\ CopiesOk /\ StartOk /\ UndoOk
    BY DEF VInv
  <1>1. PICK k \in 1..Len(journal), torn \in SUBSET {j \in Used \ {NoFile} : ~inode[j].safe} :
            /\ dir' = journal[k] /\ journal' = <<journal[k]>>
            /\ inode' = [j \in Inodes |->
                   IF j \in torn THEN [inode[j] EXCEPT !.whole = FALSE, !.safe = TRUE]
                   ELSE [inode[j] EXCEPT !.safe = TRUE]]
    BY DEF PowerLoss
  <1>2. PICK d \in Dirs : d \in DirType /\ dir' = d /\ journal' = <<d>>
    <2>1. journal[k] \in Dirs
      BY <1>0, LenProperties DEF VolumeOk, Dirs
    <2> QED BY <1>0, <1>1, <2>1, DirsTyped
  <1>3. Dirs' = {d} /\ journal' \in Seq(DirType)
    <2>1. DOMAIN <<d>> = {1} /\ <<d>>[1] = d
      OBVIOUS
    <2> QED BY <1>2, <2>1 DEF Dirs
  <1>4. UNCHANGED <<db, alone, undo>>
    BY DEF PowerLoss
  <1>5. \A j \in Inodes :
            /\ DOMAIN inode'[j] = {"copy", "whole", "safe"} /\ inode'[j].copy = inode[j].copy
            /\ inode[j].safe => inode'[j].whole = inode[j].whole /\ inode'[j].safe
    BY <1>0, <1>1 DEF VolumeOk
  <1>6. VolumeOk'
    BY <1>1, <1>2, <1>5, <1>3 DEF VolumeOk
  <1>7. CopiesOk'
    <2> SUFFICES ASSUME NEW v \in Versions, Bak(d, v) # NoFile
                 PROVE  Durable(Bak(d, v), v)'
      BY <1>3 DEF CopiesOk, Bak
    <2>1. Bak(d, v) \in Inodes
      BY <1>2, NamesOf DEF Bak, DirType
    <2> QED BY <1>0, <1>5, <2>1 DEF CopiesOk, Durable, Bak, VersionOf
  <1>8. UndoOk'
    BY <1>0, <1>4, <1>3 DEF UndoOk, AllHaveBak, HasBak
  <1>9. StartOk'
    BY <1>0, RestingOk DEF PowerLoss, Exit, Down, SchemaInv, Procs, Resting, StartOk
  <1> QED BY <1>6, <1>7, <1>8, <1>9 DEF VInv

LEMMA AgainKept ==
    ASSUME SchemaInv, alone, VInv, Restart \/ Roll
    PROVE  VInv'
  <1>1. /\ UNCHANGED <<db, dir, journal, inode, undo, alone>>
        /\ proc'["main"].at = "down" /\ proc'["main"].image \in Images
    <2>1. PICK image \in Images : proc' = [proc EXCEPT !["main"] = Down(image)]
      BY DEF Restart, Roll, VInv, StartOk
    <2> QED BY <2>1 DEF Restart, Roll, Down, SchemaInv, Procs
  <1> QED BY <1>1, RestingOk, Steady DEF Resting

LEMMA MishapKept ==
    ASSUME SchemaInv, alone, VInv, Refuses("main") \/ StepFails("main") \/ Kill("main")
    PROVE  VInv'
  <1>1. UNCHANGED <<db, alone, inode, undo>> /\ Exit("main", "refused")
    BY DEF Refuses, StepFails, Kill, GiveUp
  <1>2. \/ UNCHANGED <<dir, journal>>
        \/ /\ proc["main"].at \in Copying
           /\ Change([dir EXCEPT ![Partial("main")] = NoFile])
    BY DEF Refuses, StepFails, Kill, GiveUp
  <1> QED BY <1>1, <1>2, GiveUpKept

LEMMA InitKept == MigrateInit => VInv
  <1> SUFFICES ASSUME MigrateInit, alone PROVE VInv
    BY DEF VInv
  <1>1. /\ dir = [n \in Names |-> NoFile] /\ journal = <<dir>> /\ undo = 0
        /\ inode = [i \in Inodes |-> [copy |-> Fresh, whole |-> FALSE, safe |-> FALSE]]
    BY DEF MigrateInit
  <1>2. DOMAIN <<dir>> = {1} /\ <<dir>>[1] = dir
    OBVIOUS
  <1>3. dir \in DirType /\ Dirs = {dir} /\ journal \in Seq(DirType)
    BY <1>1, <1>2 DEF DirType, Dirs
  <1>4. VolumeOk /\ CopiesOk /\ UndoOk
    <2>1. VolumeOk
      BY <1>1, <1>3 DEF VolumeOk
    <2>2. \A v \in Versions : Bak(dir, v) = NoFile
      BY <1>1, NamesOf DEF Bak
    <2>3. CopiesOk /\ UndoOk
      BY <1>1, <1>3, <2>2 DEF CopiesOk, UndoOk
    <2> QED BY <2>1, <2>3
  <1>5. proc["main"].at = "down" /\ proc["main"].image \in Images
    <2>1. PICK i \in Images, j \in Images :
             proc = [p \in Procs |-> Down(IF p = "main" THEN i ELSE j)]
      BY DEF MigrateInit
    <2> QED BY <2>1 DEF Down, Procs
  <1>6. StartOk
    BY <1>5 DEF StartOk, Preparing, Backing, Locking, Secured
  <1> QED BY <1>4, <1>6 DEF VInv

LEMMA StepKept == SchemaInv /\ VInv /\ [MigrateNext]_migrateVars => VInv'
  <1> SUFFICES ASSUME SchemaInv, VInv, [MigrateNext]_migrateVars, alone' PROVE VInv'
    BY DEF VInv
  <1>1. CASE UNCHANGED migrateVars
    <2>1. StartOk'
      BY <1>1 DEF migrateVars, VInv, StartOk, Partial, Backup, AllHaveBak, HasBak, Dirs
    <2> QED BY <1>1, <2>1, Steady DEF migrateVars
  <1>2. ASSUME NEW p \in Procs, StartStep(p) \/ StepFails(p) \/ Kill(p)
        PROVE  VInv'
    <2>1. alone
      BY <1>2 DEF StartStep, ReadVersion, List, RemoveListed, Removed, CopyBegins, CopyEnds, SyncCopy, CheckCopy,
                  Install, SyncDataDir, Begin, Recheck, Complete, Apply, Commit, Refuses, StepFails, Kill, GiveUp
    <2>2. p = "main"
      <3>1. CASE ReadVersion(p)
        BY <2>1, <3>1 DEF ReadVersion, Procs
      <3>2. CASE ~ReadVersion(p)
        <4>1. proc[p].at # "down"
          BY <1>2, <3>2 DEF StartStep, List, RemoveListed, Removed, CopyBegins, CopyEnds, SyncCopy, CheckCopy, Install,
                     SyncDataDir, Begin, Recheck, Complete, Apply, Commit, Refuses, StepFails, Kill, Working, At
        <4> QED BY <2>1, <4>1, OneWithoutPower
      <3> QED BY <3>1, <3>2
    <2> QED BY <1>2, <2>1, <2>2, LooksKept, RemoveListedKept, CopyBeginsKept, CopyKept, InstallKept,
               SyncDataDirKept, CommitKept, MishapKept DEF StartStep
  <1>3. CASE Restart \/ Roll \/ PowerLoss
    <2>1. alone
      BY <1>3 DEF Restart, Roll, PowerLoss
    <2> QED BY <1>3, <2>1, AgainKept, PowerLossKept
  <1> QED BY <1>1, <1>2, <1>3 DEF MigrateNext, StartProgress

LEMMA VolumeAlways == MigrateSpec => []VInv
  <1>1. SchemaInv /\ VInv /\ [MigrateNext]_migrateVars => VInv'
    BY StepKept
  <1> QED BY <1>1, InitKept, SchemaAlways, PTL DEF MigrateSpec

\* What backup promises of gateway.db.v<N>.bak, "either complete or absent",
\* for any images, kills, failing steps and power losses: the copy is complete
\* before it is synced, and synced before it gets the name.
THEOREM BackupComplete == MigrateSpec => []BackupWhole
  <1>1. VInv => BackupWhole
    BY DEF VInv, VolumeOk, CopiesOk, Bak, Durable, BackupWhole
  <1> QED BY <1>1, VolumeAlways, PTL

\* A migration that was committed can be undone, whatever comes after it: the
\* rename of the copy is durable before older copies go and the migration runs.
THEOREM WayBackStays == MigrateSpec => []WayBack
  <1>1. VInv => WayBack
    <2> SUFFICES ASSUME VInv, alone, undo > 0, NEW k \in 1..Len(journal)
                 PROVE  \E v \in {undo, db.stamp} :
                            LET i == journal[k][<<v, "bak">>]
                            IN  i # NoFile /\ inode[i].whole /\ inode[i].safe
      BY DEF WayBack
    <2>1. journal[k] \in Dirs
      BY LenProperties DEF VInv, VolumeOk, Dirs
    <2>2. PICK v \in {undo, db.stamp} : HasBak(journal[k], v)
      BY <2>1 DEF VInv, UndoOk, AllHaveBak
    <2> QED BY <2>1, <2>2 DEF VInv, CopiesOk, HasBak, Bak, Durable
  <1> QED BY <1>1, VolumeAlways, PTL

-----------------------------------------------------------------------------
(* The artifacts on the volume *)

StoreSpec == StoreInit /\ [][StoreNext]_storeVars

\* The directory of an id as it is, and as a power loss may leave it.
Shape == [there : BOOLEAN, final : [Kinds -> Files \union {Nothing}], tmp : SUBSET Files]
Blank(s) == s.tmp = {} /\ \A k \in Kinds : s.final[k] = Nothing
ShardType == {s \in Shape : s.there \/ Blank(s)}
Contents(id) == shards[id]
WriterType == [at : {"unused", "write", "sync", "rename", "syncdir", "stored", "run", "dropInput", "done"},
               id : Ids \union {Nothing}, kind : Kinds]
FileType == [whole : BOOLEAN, safe : BOOLEAN, old : BOOLEAN]

StoreTyped ==
    /\ file \in [Files -> FileType]
    /\ shard \in [Ids -> ShardType]
    /\ shards \in [Ids -> SUBSET ShardType] /\ \A id \in Ids : shard[id] \in Contents(id)
    /\ row \in [Ids -> SUBSET Kinds] /\ deleted \subseteq Ids
    /\ writer \in [Files -> WriterType]
    /\ \A f \in Files : (WriterAt(f, "unused") <=> writer[f].id = Nothing)

\* A file gets a name only when it is complete and synced, and is not old
\* before its writer is done.
FilesOk ==
    /\ \A f \in Files : /\ WriterAt(f, "sync") => file[f].whole
                        /\ WriterAt(f, "rename") => file[f].whole /\ file[f].safe
                        /\ file[f].old => writer[f].at \in {"run", "done"}
    /\ \A id \in Ids : \A s \in Contents(id), k \in Kinds :
           s.final[k] # Nothing => file[s.final[k]].whole /\ file[s.final[k]].safe

\* An input that is being stored is alone with its id: no row, no other writer.
Submitting(f) == writer[f].kind = "in" /\ writer[f].at \in {"write", "sync", "rename", "syncdir", "stored"}
InputsAlone ==
    \A f \in Files : Submitting(f) =>
        /\ row[writer[f].id] = {} /\ writer[f].id \notin deleted
        /\ \A g \in Files \ {f} : writer[g].id # writer[f].id

\* An id that has a row, or whose row was just deleted, was submitted.
Submitted(id) == \E f \in Files : writer[f].id = id
RowsSubmitted == \A id \in Ids : row[id] # {} \/ id \in deleted => Submitted(id)

\* What a writer has renamed keeps its name until a row takes it, unless the
\* row is gone; and what a row names is in every contents of a shard that is
\* there, as it is while a job that has a row may store its result.
Renamed(f, s) ==
    s.there => IF writer[f].kind = "in" THEN s.final["in"] = f ELSE s.final["res"] # Nothing
Owed(f) == writer[f].kind = "in" \/ row[writer[f].id] # {}
Housed(f) == Submitting(f) \/ (WriterAt(f, "run") /\ row[writer[f].id] # {})
RowsBacked ==
    /\ \A id \in Ids, k \in Kinds :
           k \in row[id] => \A s \in Contents(id) : s.there => s.final[k] # Nothing
    /\ \A id \in deleted : row[id] = {}
    /\ \A f \in Files : Owed(f) =>
           /\ WriterAt(f, "syncdir") => Renamed(f, shard[writer[f].id])
           /\ WriterAt(f, "stored") => \A s \in Contents(writer[f].id) : Renamed(f, s)
    /\ \A f \in Files : WriterAt(f, "dropInput") => "in" \notin row[writer[f].id]
    /\ \A f \in Files : Housed(f) => shard[writer[f].id].there

StoreInv == StoreTyped /\ FilesOk /\ InputsAlone /\ RowsBacked

\* A change of a directory adds one more contents a power loss may leave.
LEMMA ShardChanged ==
    ASSUME StoreTyped, NEW id \in Ids, NEW s \in ShardType, ChangeShard(id, s)
    PROVE  /\ shard' \in [Ids -> ShardType] /\ shards' \in [Ids -> SUBSET ShardType]
           /\ shard'[id] = s /\ \A j \in Ids \ {id} : shard'[j] = shard[j]
           /\ Contents(id)' = Contents(id) \union {s}
           /\ \A j \in Ids \ {id} : Contents(j)' = Contents(j)
           /\ \A j \in Ids : shard'[j] \in Contents(j)'
  BY DEF StoreTyped, ChangeShard, Contents

LEMMA ContentsTyped ==
    ASSUME StoreTyped, NEW id \in Ids
    PROVE  /\ shard[id] \in Contents(id) /\ shard[id] \in ShardType
           /\ \A s \in Contents(id) : /\ s \in ShardType
                                      /\ \A k \in Kinds : s.final[k] \in Files \union {Nothing}
  BY DEF StoreTyped, Contents, ShardType, Shape

LEMMA WritersTyped ==
    ASSUME StoreTyped, NEW f \in Files
    PROVE  writer[f].kind \in Kinds /\ (WriterAt(f, "unused") \/ writer[f].id \in Ids)
  BY DEF StoreTyped, WriterType

\* A writer goes on.
LEMMA WriterMoves ==
    ASSUME StoreTyped, NEW f \in Files, ~WriterAt(f, "unused"),
           NEW place \in {"write", "sync", "rename", "syncdir", "stored", "run", "dropInput", "done"},
           Move(f, place)
    PROVE  /\ writer' \in [Files -> WriterType]
           /\ writer'[f].at = place /\ writer'[f].id = writer[f].id /\ writer'[f].kind = writer[f].kind
           /\ writer[f].id \in Ids
           /\ \A g \in Files \ {f} : writer'[g] = writer[g]
           /\ \A g \in Files : WriterAt(g, "unused")' <=> writer'[g].id = Nothing
  BY DEF StoreTyped, Move, WriterAt, WriterType, Nothing

\* What is under a name is complete and synced, so neither call touches it.
LEMMA WriteInv ==
    ASSUME StoreInv, NEW f \in Files, Write(f) \/ SyncFile(f)
    PROVE  StoreInv'
  <1> DEFINE place == IF WriterAt(f, "write") THEN "sync" ELSE "rename"
  <1>0. StoreTyped /\ FilesOk /\ InputsAlone /\ RowsBacked
    BY DEF StoreInv
  <1>1. /\ WriterAt(f, "write") \/ WriterAt(f, "sync")
        /\ ~WriterAt(f, "unused") /\ Move(f, place)
        /\ UNCHANGED <<shard, shards, row, deleted>>
        /\ \/ WriterAt(f, "write") /\ file' = [file EXCEPT ![f].whole = TRUE]
           \/ WriterAt(f, "sync") /\ file' = [file EXCEPT ![f].safe = TRUE]
    BY DEF Write, SyncFile, WriterAt
  <1>2. /\ writer' \in [Files -> WriterType]
        /\ writer'[f].at = place /\ writer'[f].id = writer[f].id /\ writer'[f].kind = writer[f].kind
        /\ \A g \in Files \ {f} : writer'[g] = writer[g]
        /\ \A g \in Files : WriterAt(g, "unused")' <=> writer'[g].id = Nothing
    BY <1>0, <1>1, WriterMoves
  <1>3. /\ file' \in [Files -> FileType]
        /\ \A g \in Files : /\ file'[g].old = file[g].old
                            /\ file[g].whole => file'[g].whole
                            /\ file[g].safe => file'[g].safe
        /\ WriterAt(f, "write") => file'[f].whole
        /\ WriterAt(f, "sync") => file'[f].safe
    <2>1. \A g \in Files : file[g] \in FileType
      BY <1>0 DEF StoreTyped
    <2>2. CASE WriterAt(f, "write") /\ file' = [file EXCEPT ![f].whole = TRUE]
      BY <1>0, <2>1, <2>2 DEF StoreTyped, FileType, WriterAt
    <2>3. CASE WriterAt(f, "sync") /\ file' = [file EXCEPT ![f].safe = TRUE]
      BY <1>0, <2>1, <2>3 DEF StoreTyped, FileType, WriterAt
    <2> QED BY <1>1, <2>2, <2>3
  <1>4. \A id \in Ids : Contents(id)' = Contents(id)
    BY <1>1 DEF Contents
  <1>5. StoreTyped'
    BY <1>0, <1>1, <1>2, <1>3, <1>4 DEF StoreTyped
  <1>6. FilesOk'
    <2>1. \A id \in Ids : \A s \in Contents(id), k \in Kinds : s.final[k] # Nothing => s.final[k] \in Files
      BY <1>0, ContentsTyped
    <2> QED BY <1>0, <1>1, <1>2, <1>3, <1>4, <2>1 DEF FilesOk, WriterAt
  <1>7. InputsAlone'
    BY <1>0, <1>1, <1>2 DEF InputsAlone, Submitting, WriterAt
  <1>8. RowsBacked'
    <2>1. \A g \in Files : WriterAt(g, "unused") \/ writer[g].id \in Ids
      BY <1>0, WritersTyped
    <2>2. \A g \in Files : /\ writer'[g].id = writer[g].id /\ writer'[g].kind = writer[g].kind
                           /\ writer'[g].at \in {"syncdir", "stored", "run", "dropInput"} =>
                                  writer'[g].at = writer[g].at
      BY <1>1, <1>2
    <2>3. \A g \in Files : (Owed(g)' <=> Owed(g)) /\ \A s : (Renamed(g, s)' <=> Renamed(g, s))
      BY <1>1, <2>2 DEF Owed, Renamed
    <2>4. \A g \in Files : Owed(g)' =>
              /\ WriterAt(g, "syncdir")' => Renamed(g, shard[writer[g].id])'
              /\ WriterAt(g, "stored")' => \A s \in Contents(writer[g].id)' : Renamed(g, s)'
      <3> SUFFICES ASSUME NEW g \in Files, Owed(g)', WriterAt(g, "syncdir")' \/ WriterAt(g, "stored")'
                   PROVE  /\ WriterAt(g, "syncdir")' => Renamed(g, shard[writer[g].id])'
                          /\ WriterAt(g, "stored")' => \A s \in Contents(writer[g].id)' : Renamed(g, s)'
        OBVIOUS
      <3>1. Owed(g) /\ writer[g].id \in Ids /\ (WriterAt(g, "syncdir") \/ WriterAt(g, "stored"))
        BY <2>1, <2>2, <2>3 DEF WriterAt
      <3> QED BY <1>0, <1>1, <1>4, <2>2, <3>1 DEF RowsBacked, Renamed, WriterAt
    <2>5. \A g \in Files : WriterAt(g, "dropInput")' => "in" \notin row'[writer'[g].id]
      BY <1>0, <1>1, <2>2 DEF RowsBacked, WriterAt
    <2>6. \A g \in Files : Housed(g)' => shard'[writer'[g].id].there
      <3>1. \A g \in Files : Housed(g)' => Housed(g)
        BY <1>1, <1>2 DEF Housed, Submitting, WriterAt
      <3> QED BY <1>0, <1>1, <2>2, <3>1 DEF RowsBacked
    <2> QED BY <1>0, <1>1, <1>4, <2>4, <2>5, <2>6 DEF RowsBacked
  <1> QED BY <1>5, <1>6, <1>7, <1>8 DEF StoreInv

\* A row names an artifact only once it cannot be lost, and takes over from the
\* input of its id.
LEMMA PromiseInv ==
    ASSUME StoreInv, NEW f \in Files, Promise(f)
    PROVE  StoreInv'
  <1> DEFINE id == writer[f].id
             k == writer[f].kind
             place == IF k = "in" THEN "run" ELSE "dropInput"
  <1>0. StoreTyped /\ FilesOk /\ InputsAlone /\ RowsBacked
    BY DEF StoreInv
  <1>1. /\ WriterAt(f, "stored") /\ (k = "res" => row[id] # {}) /\ row' = [row EXCEPT ![id] = {k}]
        /\ Move(f, place) /\ ~WriterAt(f, "unused")
        /\ UNCHANGED <<file, shard, shards, deleted>>
    BY DEF Promise, WriterAt
  <1>2. /\ writer' \in [Files -> WriterType] /\ id \in Ids /\ k \in Kinds
        /\ writer'[f].at = place /\ writer'[f].id = id /\ writer'[f].kind = k
        /\ \A g \in Files \ {f} : writer'[g] = writer[g]
        /\ \A g \in Files : WriterAt(g, "unused")' <=> writer'[g].id = Nothing
    BY <1>0, <1>1, WriterMoves DEF StoreTyped, WriterType
  <1>3. row' \in [Ids -> SUBSET Kinds] /\ row'[id] = {k} /\ \A j \in Ids \ {id} : row'[j] = row[j]
    BY <1>0, <1>1, <1>2 DEF StoreTyped
  <1>4. \A j \in Ids : Contents(j)' = Contents(j)
    BY <1>1 DEF Contents
  <1> HIDE DEF id, k
  <1>5. StoreTyped'
    BY <1>0, <1>1, <1>2, <1>3, <1>4 DEF StoreTyped
  <1>6. FilesOk'
    BY <1>0, <1>1, <1>2, <1>4 DEF FilesOk, WriterAt
  <1>7. \A g \in Files : WriterAt(g, "unused") \/ writer[g].id \in Ids
    BY <1>0, WritersTyped
  <1>8. id \notin deleted
    BY <1>0, <1>1, <1>2 DEF InputsAlone, Submitting, RowsBacked, id, k, Kinds, WriterAt
  <1>9. \A g \in Files \ {f} : Submitting(g) => writer[g].id # id
    BY <1>0, <1>2 DEF InputsAlone, id
  <1>10. InputsAlone'
    BY <1>0, <1>1, <1>2, <1>3, <1>7, <1>9 DEF InputsAlone, Submitting, WriterAt
  <1>11. \A s \in Contents(id) : s.there => s.final[k] # Nothing
    BY <1>0, <1>1, <1>2 DEF RowsBacked, Owed, Renamed, id, k, Kinds, Nothing, Files
  <1>12. RowsBacked'
    <2>1. \A j \in Ids, l \in Kinds : l \in row'[j] => \A s \in Contents(j) : s.there => s.final[l] # Nothing
      BY <1>0, <1>2, <1>3, <1>11 DEF RowsBacked
    <2>2. \A j \in deleted : row'[j] = {}
      BY <1>0, <1>3, <1>8 DEF RowsBacked, StoreTyped
    <2>3. k = "res" \/ \A g \in Files \ {f} : writer[g].id # id
      BY <1>0, <1>1, <1>2 DEF InputsAlone, Submitting, WriterAt, Kinds, id, k
    <2>4. \A g \in Files : Owed(g)' /\ g # f /\ ~WriterAt(g, "unused") => Owed(g)
      BY <1>1, <1>2, <1>3, <1>7, <2>3 DEF Owed
    <2>5. \A g \in Files : Owed(g)' =>
              /\ WriterAt(g, "syncdir")' => Renamed(g, shard[writer[g].id])'
              /\ WriterAt(g, "stored")' => \A s \in Contents(writer[g].id)' : Renamed(g, s)'
      <3> SUFFICES ASSUME NEW g \in Files, Owed(g)', WriterAt(g, "syncdir")' \/ WriterAt(g, "stored")'
                   PROVE  /\ WriterAt(g, "syncdir")' => Renamed(g, shard[writer[g].id])'
                          /\ WriterAt(g, "stored")' => \A s \in Contents(writer[g].id)' : Renamed(g, s)'
        OBVIOUS
      <3>1. g # f /\ writer'[g] = writer[g] /\ writer[g].id \in Ids
        BY <1>2, <1>7 DEF WriterAt
      <3>2. Contents(writer[g].id)' = Contents(writer[g].id)
        BY <1>4, <3>1
      <3> QED BY <1>0, <1>1, <2>4, <3>1, <3>2 DEF RowsBacked, Renamed, WriterAt
    <2>6. \A g \in Files : WriterAt(g, "dropInput")' => "in" \notin row'[writer'[g].id]
      BY <1>0, <1>2, <1>3, <1>7, <2>3 DEF RowsBacked, WriterAt, Kinds
    <2>7. \A g \in Files : Housed(g)' => shard'[writer'[g].id].there
      <3>1. \A g \in Files : Housed(g)' => Housed(g)
        <4>1. k = "in" => Submitting(f)
          BY <1>1 DEF Submitting, WriterAt, k
        <4>2. \A g \in Files : g # f /\ Housed(g)' => Housed(g)
          BY <1>1, <1>2, <1>3, <1>7, <2>3 DEF Housed, Submitting, WriterAt
        <4>3. k # "in" => ~Housed(f)'
          BY <1>2 DEF Housed, Submitting, WriterAt
        <4> QED BY <4>1, <4>2, <4>3 DEF Housed
      <3>2. \A g \in Files : writer'[g].id = writer[g].id
        BY <1>2 DEF id
      <3> QED BY <1>0, <1>1, <3>1, <3>2 DEF RowsBacked
    <2> QED BY <1>1, <2>1, <2>2, <2>5, <2>6, <2>7, <1>4 DEF RowsBacked
  <1> QED BY <1>5, <1>6, <1>10, <1>12 DEF StoreInv

\* A writer stays where it is or is done.
Finishes == \A g \in Files : \/ writer'[g] = writer[g]
                             \/ /\ writer'[g].at = "done" /\ ~WriterAt(g, "unused")
                                /\ writer'[g].id = writer[g].id /\ writer'[g].kind = writer[g].kind
WritersKept ==
    /\ writer' \in [Files -> WriterType] /\ Finishes
    /\ \A g \in Files : WriterAt(g, "unused")' <=> writer'[g].id = Nothing

\* Names may go that no row names and no writer will want.
LEMMA NamesGo ==
    ASSUME StoreInv, NEW id \in Ids, NEW s \in ShardType, ChangeShard(id, s),
           WritersKept, UNCHANGED <<file, row>>, deleted' \subseteq deleted,
           s.there = shard[id].there, \A k \in Kinds : s.final[k] \in {shard[id].final[k], Nothing},
           \A k \in row[id] : s.final[k] = shard[id].final[k],
           \A g \in Files : Owed(g) /\ writer[g].id = id /\ writer[g].at \in {"syncdir", "stored"} =>
               \/ writer'[g].at = "done"
               \/ s.final[writer[g].kind] = shard[id].final[writer[g].kind]
    PROVE  StoreInv'
  <1>0. StoreTyped /\ FilesOk /\ InputsAlone /\ RowsBacked
    BY DEF StoreInv
  <1>1. /\ shard' \in [Ids -> ShardType] /\ shards' \in [Ids -> SUBSET ShardType]
        /\ shard'[id] = s /\ \A j \in Ids \ {id} : shard'[j] = shard[j]
        /\ Contents(id)' = Contents(id) \union {s}
        /\ \A j \in Ids \ {id} : Contents(j)' = Contents(j)
        /\ \A j \in Ids : shard'[j] \in Contents(j)'
    BY <1>0, ShardChanged
  <1>2. shard[id] \in Contents(id) /\ shard[id] \in ShardType
    BY <1>0, ContentsTyped
  <1>3. \A g \in Files : writer[g].kind \in Kinds /\ (WriterAt(g, "unused") \/ writer[g].id \in Ids)
    BY <1>0, WritersTyped
  <1>4. StoreTyped'
    BY <1>0, <1>1 DEF StoreTyped, WritersKept
  <1>5. FilesOk'
    <2>1. \A g \in Files : writer'[g].at \in {"sync", "rename"} => writer'[g] = writer[g]
      BY DEF WritersKept, Finishes
    <2>2. \A g \in Files : writer[g].at \in {"run", "done"} => writer'[g].at \in {"run", "done"}
      BY DEF WritersKept, Finishes, WriterAt
    <2>3. \A k \in Kinds : s.final[k] # Nothing => file[s.final[k]].whole /\ file[s.final[k]].safe
      BY <1>0, <1>2 DEF FilesOk
    <2>4. \A g \in Files : /\ writer'[g].at = "sync" => file[g].whole
                           /\ writer'[g].at = "rename" => file[g].whole /\ file[g].safe
                           /\ file[g].old => writer'[g].at \in {"run", "done"}
      BY <1>0, <2>1, <2>2 DEF FilesOk, WriterAt
    <2>5. \A j \in Ids : \A c \in Contents(j)', k \in Kinds :
              c.final[k] # Nothing => file[c.final[k]].whole /\ file[c.final[k]].safe
      BY <1>0, <1>1, <2>3 DEF FilesOk
    <2> QED BY <2>4, <2>5 DEF FilesOk, WriterAt
  <1>6. InputsAlone'
    BY <1>0 DEF InputsAlone, Submitting, WritersKept, Finishes
  <1>7. \A g \in Files : writer'[g].at # "done" => writer'[g] = writer[g]
    BY DEF WritersKept, Finishes
  <1>8. RowsBacked'
    <2>1. \A j \in Ids, k \in Kinds : k \in row[j] => \A c \in Contents(j)' : c.there => c.final[k] # Nothing
      <3> SUFFICES ASSUME NEW j \in Ids, NEW k \in Kinds, k \in row[j], NEW c \in Contents(j)', c.there
                   PROVE  c.final[k] # Nothing
        OBVIOUS
      <3>1. \A d \in Contents(j) : d.there => d.final[k] # Nothing
        BY <1>0 DEF RowsBacked
      <3>2. CASE j = id /\ c = s
        BY <1>2, <3>1, <3>2
      <3>3. CASE c \in Contents(j)
        BY <3>1, <3>3
      <3> QED BY <1>1, <3>2, <3>3
    <2>2. \A g \in Files : Owed(g)' =>
              /\ WriterAt(g, "syncdir")' => Renamed(g, shard[writer[g].id])'
              /\ WriterAt(g, "stored")' => \A c \in Contents(writer[g].id)' : Renamed(g, c)'
      <3> SUFFICES ASSUME NEW g \in Files, Owed(g)', WriterAt(g, "syncdir")' \/ WriterAt(g, "stored")'
                   PROVE  /\ WriterAt(g, "syncdir")' => Renamed(g, shard[writer[g].id])'
                          /\ WriterAt(g, "stored")' => \A c \in Contents(writer[g].id)' : Renamed(g, c)'
        OBVIOUS
      <3>1. /\ writer'[g] = writer[g] /\ writer[g].id \in Ids /\ writer[g].kind \in Kinds
            /\ Owed(g) /\ writer[g].at \in {"syncdir", "stored"}
        BY <1>3, <1>7 DEF WriterAt, Owed
      <3>2. CASE writer[g].id # id
        BY <1>0, <1>1, <3>1, <3>2 DEF RowsBacked, Renamed, WriterAt
      <3>3. CASE writer[g].id = id
        <4>1. s.final[writer[g].kind] = shard[id].final[writer[g].kind]
          BY <3>1, <3>3
        <4>2. WriterAt(g, "syncdir") => Renamed(g, s)
          <5>1. WriterAt(g, "syncdir") => Renamed(g, shard[id])
            BY <1>0, <3>1, <3>3 DEF RowsBacked
          <5>2. Renamed(g, shard[id]) => Renamed(g, s)
            BY <3>1, <4>1 DEF Renamed, Kinds
          <5> QED BY <5>1, <5>2
        <4>3. WriterAt(g, "stored") => \A c \in Contents(id) \union {s} : Renamed(g, c)
          BY <1>0, <1>2, <3>1, <3>3, <4>1 DEF RowsBacked, Renamed, Kinds
        <4> QED BY <1>1, <3>1, <3>3, <4>2, <4>3 DEF Renamed, WriterAt
      <3> QED BY <3>2, <3>3
    <2>3. \A g \in Files : WriterAt(g, "dropInput")' => "in" \notin row[writer'[g].id]
      BY <1>0, <1>7 DEF RowsBacked, WriterAt
    <2>4. \A g \in Files : Housed(g)' => shard'[writer'[g].id].there
      <3>1. \A g \in Files : Housed(g)' => Housed(g) /\ writer'[g] = writer[g] /\ writer[g].id \in Ids
        BY <1>3, <1>7 DEF Housed, Submitting, WriterAt
      <3> QED BY <1>0, <1>1, <3>1 DEF RowsBacked
    <2> QED BY <1>0, <2>1, <2>2, <2>3, <2>4 DEF RowsBacked
  <1> QED BY <1>4, <1>5, <1>6, <1>8 DEF StoreInv

\* A writer that is done with what it did.
LEMMA WriterEnds ==
    ASSUME StoreTyped, NEW f \in Files, ~WriterAt(f, "unused"), Move(f, "done")
    PROVE  /\ WritersKept /\ writer[f].id \in Ids /\ writer'[f].at = "done"
  BY WriterMoves DEF WritersKept, Finishes

LEMMA EmptyTyped ==
    /\ \A s \in {EmptyShard, Absent} : s \in ShardType /\ \A k \in Kinds : s.final[k] = Nothing
    /\ EmptyShard.there /\ ~Absent.there
  <1>1. EmptyShard.there /\ ~Absent.there
    BY DEF EmptyShard, Absent
  <1>2. EmptyShard \in Shape /\ Absent \in Shape
    BY DEF EmptyShard, Absent, Shape
  <1>3. Blank(EmptyShard) /\ Blank(Absent)
    BY DEF EmptyShard, Absent, Blank
  <1>4. Blank(EmptyShard) => EmptyShard \in ShardType /\ \A k \in Kinds : EmptyShard.final[k] = Nothing
    BY <1>2 DEF ShardType, Blank
  <1>5. Blank(Absent) => Absent \in ShardType /\ \A k \in Kinds : Absent.final[k] = Nothing
    BY <1>2 DEF ShardType, Blank
  <1> QED BY <1>1, <1>3, <1>4, <1>5

LEMMA EmptiedTyped ==
    ASSUME StoreTyped, NEW id \in Ids
    PROVE  /\ Emptied(id) \in ShardType /\ Emptied(id).there = shard[id].there
           /\ \A k \in Kinds : Emptied(id).final[k] = Nothing
  BY EmptyTyped DEF Emptied, StoreTyped, ShardType, Shape

\* All artifacts go of an id that has no row, and whose input is not being stored.
LEMMA AllGo ==
    ASSUME StoreInv, NEW id \in Ids, ChangeShard(id, Emptied(id)), row[id] = {},
           WritersKept, UNCHANGED <<file, row>>, deleted' \subseteq deleted,
           \A g \in Files : Submitting(g) /\ writer[g].id = id /\ writer[g].at \in {"syncdir", "stored"} =>
               writer'[g].at = "done"
    PROVE  StoreInv'
  <1>1. \A g \in Files : Owed(g) /\ writer[g].id = id /\ writer[g].at \in {"syncdir", "stored"} => Submitting(g)
    BY DEF Owed, Submitting
  <1>2. StoreTyped
    BY DEF StoreInv
  <1>3. PICK s : s = Emptied(id)
    OBVIOUS
  <1> QED BY <1>1, <1>2, <1>3, EmptiedTyped, NamesGo

LEMMA WritersStay ==
    ASSUME StoreTyped, UNCHANGED writer
    PROVE  WritersKept
  BY DEF StoreTyped, WritersKept, Finishes, WriterAt

\* A result's row no longer names the input.
LEMMA DropInputInv ==
    ASSUME StoreInv, NEW f \in Files, DropInput(f)
    PROVE  StoreInv'
  <1> DEFINE id == writer[f].id
             s == [shard[id] EXCEPT !.final["in"] = Nothing]
  <1>0. StoreTyped /\ InputsAlone /\ RowsBacked
    BY DEF StoreInv
  <1>1. /\ WriterAt(f, "dropInput") /\ ~WriterAt(f, "unused") /\ Move(f, "done") /\ ChangeShard(id, s)
        /\ UNCHANGED <<file, row, deleted>>
    BY DEF DropInput, WriterAt
  <1>2. WritersKept /\ id \in Ids
    BY <1>0, <1>1, WriterEnds
  <1>3. shard[id] \in ShardType
    BY <1>0, <1>2, ContentsTyped
  <1>4. /\ s \in ShardType /\ s.there = shard[id].there
        /\ s.final["in"] = Nothing /\ s.final["res"] = shard[id].final["res"]
    BY <1>3 DEF ShardType, Shape, Blank, Kinds, Nothing
  <1>5. "in" \notin row[id] /\ row[id] \in SUBSET Kinds
    BY <1>0, <1>1, <1>2 DEF RowsBacked, StoreTyped
  <1>6. \A g \in Files : writer[g].id = id /\ writer[g].at \in {"syncdir", "stored"} => writer[g].kind = "res"
    BY <1>0, <1>1, WritersTyped DEF InputsAlone, Submitting, WriterAt, Kinds
  <1> HIDE DEF s
  <1> QED BY <1>1, <1>2, <1>4, <1>5, <1>6, NamesGo DEF Kinds

\* A submit or a result that fails, or comes too late, takes nothing a row names.
LEMMA FailsInv ==
    ASSUME StoreInv, NEW f \in Files, Discard(f) \/ CommitFails(f) \/ CreateRowFails(f)
    PROVE  StoreInv'
  <1> DEFINE id == writer[f].id
  <1>0. StoreTyped /\ InputsAlone /\ RowsBacked
    BY DEF StoreInv
  <1>1. /\ ~WriterAt(f, "unused") /\ Move(f, "done") /\ UNCHANGED <<file, row, deleted>>
        /\ \/ ChangeShard(id, Emptied(id)) /\ (row[id] = {} \/ Submitting(f)) /\ writer[f].at # "dropInput"
           \/ ChangeShard(id, WithoutTmp(f)) /\ writer[f].kind # "in"
    BY DEF Discard, CommitFails, CreateRowFails, Submitting, WriterAt
  <1>2. WritersKept /\ id \in Ids /\ writer'[f].at = "done"
    BY <1>0, <1>1, WriterEnds
  <1>3. CASE ChangeShard(id, Emptied(id)) /\ (row[id] = {} \/ Submitting(f)) /\ writer[f].at # "dropInput"
    <2>1. row[id] = {}
      BY <1>0, <1>3 DEF InputsAlone
    <2>2. \A g \in Files \ {f} : ~Submitting(g) \/ writer[g].id # id
      BY <1>0 DEF InputsAlone
    <2> QED BY <1>1, <1>2, <1>3, <2>1, <2>2, AllGo
  <1>4. CASE ChangeShard(id, WithoutTmp(f))
    <2>1. shard[id] \in ShardType
      BY <1>0, <1>2, ContentsTyped
    <2>2. /\ WithoutTmp(f) \in ShardType /\ WithoutTmp(f).final = shard[id].final
          /\ WithoutTmp(f).there = shard[id].there
      BY <2>1 DEF WithoutTmp, ShardType, Shape, Blank
    <2> QED BY <1>1, <1>2, <1>4, <2>2, NamesGo
  <1> QED BY <1>1, <1>3, <1>4

LEMMA StoreStays ==
    ASSUME StoreInv, UNCHANGED <<file, shard, shards, row, writer>>, deleted' \subseteq deleted
    PROVE  StoreInv'
  <1>0. StoreTyped /\ FilesOk /\ InputsAlone /\ RowsBacked /\ \A id : Contents(id)' = Contents(id)
    BY DEF StoreInv, Contents
  <1>1. StoreTyped' /\ FilesOk'
    BY <1>0 DEF StoreTyped, FilesOk, WriterAt
  <1>2. InputsAlone'
    BY <1>0 DEF InputsAlone, Submitting
  <1>3. RowsBacked'
    BY <1>0 DEF RowsBacked, Owed, Renamed, Housed, Submitting, WriterAt
  <1> QED BY <1>1, <1>2, <1>3 DEF StoreInv

\* A row goes before its artifacts, and only what has no row and is old is an orphan.
LEMMA RemovalInv ==
    ASSUME StoreInv,
           RemoveOrphan \/ \E id \in Ids : DeleteRow(id) \/ DeleteArtifacts(id)
    PROVE  StoreInv'
  <1>0. StoreTyped /\ FilesOk /\ InputsAlone /\ RowsBacked
    BY DEF StoreInv
  <1>1. ASSUME NEW id \in Ids, DeleteRow(id)
        PROVE  StoreInv'
    <2>1. /\ row[id] # {} /\ row' = [row EXCEPT ![id] = {}] /\ deleted' = deleted \union {id}
          /\ UNCHANGED <<file, shard, shards, writer>>
      BY <1>1 DEF DeleteRow
    <2>2. row' \in [Ids -> SUBSET Kinds] /\ row'[id] = {} /\ \A j \in Ids \ {id} : row'[j] = row[j]
      BY <1>0, <2>1 DEF StoreTyped
    <2>3. \A j \in Ids : Contents(j)' = Contents(j)
      BY <2>1 DEF Contents
    <2>4. StoreTyped' /\ FilesOk'
      BY <1>0, <2>1, <2>2, <2>3 DEF StoreTyped, FilesOk, WriterAt
    <2>5. InputsAlone'
      BY <1>0, <2>1, <2>2 DEF InputsAlone, Submitting
    <2>6. \A g \in Files : WriterAt(g, "unused") \/ writer[g].id \in Ids
      BY <1>0, WritersTyped
    <2>7. RowsBacked'
      <3>1. \A g \in Files : Housed(g)' => Housed(g)
        BY <2>1, <2>2, <2>6 DEF Housed, Submitting, WriterAt
      <3>2. \A g \in Files : Housed(g)' => shard'[writer'[g].id].there
        BY <1>0, <2>1, <3>1 DEF RowsBacked
      <3> QED BY <1>0, <2>1, <2>2, <2>3, <2>6, <3>2 DEF RowsBacked, Owed, Renamed, WriterAt, StoreTyped
    <2> QED BY <2>4, <2>5, <2>7 DEF StoreInv
  <1>2. ASSUME NEW id \in Ids, DeleteArtifacts(id)
        PROVE  StoreInv'
    <2>1. /\ id \in deleted /\ deleted' = deleted \ {id} /\ UNCHANGED <<file, row, writer>>
          /\ ChangeShard(id, Emptied(id)) \/ UNCHANGED <<shard, shards>>
      BY <1>2 DEF DeleteArtifacts
    <2>2. row[id] = {} /\ \A g \in Files : Submitting(g) => writer[g].id # id
      BY <1>0, <2>1 DEF RowsBacked, InputsAlone
    <2>3. CASE ChangeShard(id, Emptied(id))
      BY <1>0, <2>1, <2>2, <2>3, WritersStay, AllGo
    <2>4. CASE UNCHANGED <<shard, shards>>
      BY <2>1, <2>4, StoreStays
    <2> QED BY <2>1, <2>3, <2>4
  <1>3. CASE RemoveOrphan
    <2>1. PICK id : /\ id = First(sweeper.todo) /\ row[id] = {} /\ Old(id) /\ ChangeShard(id, Emptied(id))
                    /\ UNCHANGED <<file, row, deleted, writer>>
      BY <1>3 DEF RemoveOrphan
    <2>2. CASE id \in Ids
      <3>1. \A g \in Files : ~(Submitting(g) /\ writer[g].id = id /\ writer[g].at \in {"syncdir", "stored"})
        <4> SUFFICES ASSUME NEW g \in Files, Submitting(g), writer[g].id = id,
                            writer[g].at \in {"syncdir", "stored"}
                     PROVE  FALSE
          OBVIOUS
        <4>1. shard[id].final["in"] = g
          BY <1>0, <2>2, ContentsTyped DEF RowsBacked, Owed, Renamed, Housed, Submitting, WriterAt
        <4>2. file[g].old
          BY <2>1, <4>1 DEF Old, Kinds, Files, Nothing
        <4> QED BY <1>0, <4>2 DEF FilesOk, WriterAt
      <3> QED BY <1>0, <2>1, <2>2, <3>1, WritersStay, AllGo
    <2>3. CASE id \notin Ids
      <3>1. UNCHANGED <<shard, shards>>
        BY <1>0, <2>1, <2>3 DEF ChangeShard, StoreTyped
      <3> QED BY <2>1, <3>1, StoreStays
    <2> QED BY <2>2, <2>3
  <1> QED BY <1>1, <1>2, <1>3

\* A temporary file of a new writer; what is under the names stays.
LEMMA CreateInv ==
    ASSUME StoreInv, RowsSubmitted, NEW id \in Ids, NEW k \in Kinds, Create(id, k)
    PROVE  StoreInv'
  <1>0. StoreTyped /\ FilesOk /\ InputsAlone /\ RowsBacked
    BY DEF StoreInv
  <1>1. PICK f \in Files :
            /\ WriterAt(f, "unused")
            /\ writer' = [g \in Files |->
                  IF g = f THEN [at |-> "write", id |-> id, kind |-> k]
                  ELSE IF writer[g].id = id THEN [writer[g] EXCEPT !.at = "done"] ELSE writer[g]]
            /\ ChangeShard(id, [shard[id] EXCEPT !.there = TRUE, !.tmp = @ \union {f}])
    BY DEF Create
  <1>2. /\ UNCHANGED <<file, row, deleted>>
        /\ k = "in" => row[id] = {} /\ \A g \in Files : writer[g].id # id
        /\ k # "in" => \E g \in Files : writer[g].id = id /\ WriterAt(g, "run")
    BY DEF Create, NewId, Runs
  <1>3. PICK s : s = [shard[id] EXCEPT !.there = TRUE, !.tmp = @ \union {f}]
    OBVIOUS
  <1>4. /\ s \in ShardType /\ s.final = shard[id].final /\ s.there
        /\ shard[id] \in Contents(id) /\ shard[id] \in ShardType
    BY <1>0, <1>3, ContentsTyped DEF ShardType, Shape
  <1>5. /\ shard' \in [Ids -> ShardType] /\ shards' \in [Ids -> SUBSET ShardType]
        /\ shard'[id] = s /\ \A j \in Ids \ {id} : shard'[j] = shard[j]
        /\ Contents(id)' = Contents(id) \union {s}
        /\ \A j \in Ids \ {id} : Contents(j)' = Contents(j)
        /\ \A j \in Ids : shard'[j] \in Contents(j)'
    BY <1>0, <1>1, <1>3, <1>4, ShardChanged
  <1>6. /\ writer' \in [Files -> WriterType]
        /\ writer'[f].at = "write" /\ writer'[f].id = id /\ writer'[f].kind = k
        /\ \A g \in Files \ {f} :
               \/ writer'[g] = writer[g] /\ writer[g].id # id
               \/ /\ writer[g].id = id /\ writer'[g].at = "done" /\ ~WriterAt(g, "unused")
                  /\ writer'[g].id = id /\ writer'[g].kind = writer[g].kind
        /\ \A g \in Files : WriterAt(g, "unused")' <=> writer'[g].id = Nothing
    <2>1. /\ \A g \in Files : writer[g] \in WriterType /\ (writer[g].at = "unused" <=> writer[g].id = Nothing)
          /\ id # Nothing
      BY <1>0 DEF StoreTyped, WriterAt, Ids, Nothing
    <2>2. \A g \in Files \ {f} :
               \/ writer'[g] = writer[g] /\ writer[g].id # id
               \/ writer[g].id = id /\ writer'[g] = [writer[g] EXCEPT !.at = "done"]
      BY <1>1
    <2>3. \A g \in Files \ {f} :
               /\ writer'[g] \in WriterType /\ (writer'[g].at = "unused" <=> writer'[g].id = Nothing)
               /\ \/ writer'[g] = writer[g] /\ writer[g].id # id
                  \/ /\ writer[g].id = id /\ writer'[g].at = "done" /\ writer[g].at # "unused"
                     /\ writer'[g].id = id /\ writer'[g].kind = writer[g].kind
      BY <2>1, <2>2 DEF WriterType
    <2>4. writer'[f] = [at |-> "write", id |-> id, kind |-> k] /\ writer'[f] \in WriterType
      BY <1>1 DEF WriterType
    <2>5. DOMAIN writer' = Files /\ writer' = [g \in Files |-> writer'[g]]
      BY <1>1
    <2>6. \A g \in Files : writer'[g] \in WriterType
      BY <2>3, <2>4
    <2>7. writer' \in [Files -> WriterType]
      BY <2>5, <2>6
    <2> QED BY <2>1, <2>3, <2>4, <2>7 DEF WriterAt
  <1>7. StoreTyped'
    BY <1>0, <1>2, <1>5, <1>6 DEF StoreTyped
  <1>8. FilesOk'
    <2>1. \A g \in Files : /\ writer'[g].at = "sync" => file[g].whole
                           /\ writer'[g].at = "rename" => file[g].whole /\ file[g].safe
                           /\ file[g].old => writer'[g].at \in {"run", "done"}
      BY <1>0, <1>1, <1>6 DEF FilesOk, WriterAt
    <2>2. \A l \in Kinds : s.final[l] # Nothing => file[s.final[l]].whole /\ file[s.final[l]].safe
      BY <1>0, <1>4 DEF FilesOk
    <2>3. \A j \in Ids : \A c \in Contents(j)', l \in Kinds :
              c.final[l] # Nothing => file[c.final[l]].whole /\ file[c.final[l]].safe
      BY <1>0, <1>5, <2>2 DEF FilesOk
    <2> QED BY <1>2, <2>1, <2>3 DEF FilesOk, WriterAt
  <1>9. \A g \in Files : k = "in" \/ ~Submitting(g) \/ writer[g].id # id
    BY <1>0, <1>2 DEF InputsAlone, Submitting, WriterAt
  <1>10. InputsAlone'
    <2>1. k = "in" => id \notin deleted
      BY <1>2 DEF RowsSubmitted, Submitted
    <2> QED BY <1>0, <1>2, <1>6, <1>9, <2>1 DEF InputsAlone, Submitting
  <1>11. row[id] # {} => shard[id].there
    BY <1>0, <1>2 DEF RowsBacked, Housed
  <1>12. RowsBacked'
    <2>1. \A j \in Ids, l \in Kinds : l \in row[j] => \A c \in Contents(j)' : c.there => c.final[l] # Nothing
      <3> SUFFICES ASSUME NEW j \in Ids, NEW l \in Kinds, l \in row[j], NEW c \in Contents(j)', c.there
                   PROVE  c.final[l] # Nothing
        OBVIOUS
      <3>1. \A d \in Contents(j) : d.there => d.final[l] # Nothing
        BY <1>0 DEF RowsBacked
      <3>2. CASE j = id /\ c = s
        BY <1>4, <1>11, <3>1, <3>2
      <3>3. CASE c \in Contents(j)
        BY <3>1, <3>3
      <3> QED BY <1>5, <3>2, <3>3
    <2>2. \A g \in Files : Owed(g)' =>
              /\ WriterAt(g, "syncdir")' => Renamed(g, shard[writer[g].id])'
              /\ WriterAt(g, "stored")' => \A c \in Contents(writer[g].id)' : Renamed(g, c)'
      <3> SUFFICES ASSUME NEW g \in Files, Owed(g)', WriterAt(g, "syncdir")' \/ WriterAt(g, "stored")'
                   PROVE  /\ WriterAt(g, "syncdir")' => Renamed(g, shard[writer[g].id])'
                          /\ WriterAt(g, "stored")' => \A c \in Contents(writer[g].id)' : Renamed(g, c)'
        OBVIOUS
      <3>1. g # f /\ writer'[g] = writer[g] /\ writer[g].id # id /\ Owed(g) /\ writer[g].id \in Ids
        BY <1>0, <1>2, <1>6, WritersTyped DEF WriterAt, Owed
      <3>2. /\ WriterAt(g, "syncdir") => Renamed(g, shard[writer[g].id])
            /\ WriterAt(g, "stored") => \A c \in Contents(writer[g].id) : Renamed(g, c)
        BY <1>0, <3>1 DEF RowsBacked
      <3> QED BY <1>5, <3>1, <3>2 DEF Renamed, WriterAt
    <2>3. \A g \in Files : WriterAt(g, "dropInput")' => "in" \notin row[writer'[g].id]
      BY <1>0, <1>6 DEF RowsBacked, WriterAt
    <2>4. \A g \in Files : Housed(g)' => shard'[writer'[g].id].there
      <3> SUFFICES ASSUME NEW g \in Files, Housed(g)' PROVE shard'[writer'[g].id].there
        OBVIOUS
      <3>1. CASE writer'[g].id = id
        BY <1>4, <1>5, <3>1
      <3>2. CASE writer'[g].id # id
        <4>1. g # f /\ writer'[g] = writer[g] /\ Housed(g) /\ writer[g].id \in Ids
          BY <1>0, <1>2, <1>6, <3>2, WritersTyped DEF Housed, Submitting, WriterAt
        <4> QED BY <1>0, <1>5, <3>2, <4>1 DEF RowsBacked
      <3> QED BY <3>1, <3>2
    <2> QED BY <1>0, <1>2, <2>1, <2>2, <2>3, <2>4 DEF RowsBacked
  <1> QED BY <1>7, <1>8, <1>10, <1>12 DEF StoreInv

\* A file that is complete and synced gets the artifact's name.
LEMMA RenameInv ==
    ASSUME StoreInv, NEW f \in Files, Rename(f)
    PROVE  StoreInv'
  <1> DEFINE id == writer[f].id
             k == writer[f].kind
             s == WithFinal(f)
  <1>0. StoreTyped /\ FilesOk /\ InputsAlone /\ RowsBacked
    BY DEF StoreInv
  <1>1. /\ WriterAt(f, "rename") /\ ~WriterAt(f, "unused") /\ Move(f, "syncdir")
        /\ ChangeShard(id, s) /\ UNCHANGED <<file, row, deleted>>
    BY DEF Rename, WriterAt
  <1>2. /\ writer' \in [Files -> WriterType]
        /\ writer'[f].at = "syncdir" /\ writer'[f].id = id /\ writer'[f].kind = k
        /\ id \in Ids /\ k \in Kinds
        /\ \A g \in Files \ {f} : writer'[g] = writer[g]
        /\ \A g \in Files : WriterAt(g, "unused")' <=> writer'[g].id = Nothing
    BY <1>0, <1>1, WriterMoves, WritersTyped
  <1>a. f \in shard[id].tmp /\ shard[id] \in ShardType /\ shard[id] \in Contents(id)
    BY <1>0, <1>2, ContentsTyped DEF Rename
  <1>3. /\ s \in ShardType /\ s.final[k] = f /\ s.there /\ shard[id].there
        /\ \A l \in Kinds \ {k} : s.final[l] = shard[id].final[l]
    BY <1>2, <1>a DEF WithFinal, WithoutTmp, ShardType, Shape, Blank
  <1> HIDE DEF s
  <1>4. /\ shard' \in [Ids -> ShardType] /\ shards' \in [Ids -> SUBSET ShardType]
        /\ shard'[id] = s /\ \A j \in Ids \ {id} : shard'[j] = shard[j]
        /\ Contents(id)' = Contents(id) \union {s}
        /\ \A j \in Ids \ {id} : Contents(j)' = Contents(j)
        /\ \A j \in Ids : shard'[j] \in Contents(j)'
    BY <1>0, <1>1, <1>2, <1>3, ShardChanged
  <1>5. f # Nothing /\ file[f].whole /\ file[f].safe
    BY <1>0, <1>1 DEF FilesOk, Files, Nothing
  <1>6. StoreTyped'
    BY <1>0, <1>1, <1>2, <1>4 DEF StoreTyped
  <1>7. FilesOk'
    <2>1. \A l \in Kinds : s.final[l] # Nothing => file[s.final[l]].whole /\ file[s.final[l]].safe
      <3> SUFFICES ASSUME NEW l \in Kinds, s.final[l] # Nothing
                   PROVE  file[s.final[l]].whole /\ file[s.final[l]].safe
        OBVIOUS
      <3>1. CASE l = k
        BY <1>3, <1>5, <3>1
      <3>2. CASE l # k
        <4>1. s.final[l] = shard[id].final[l]
          BY <1>3, <3>2
        <4> QED BY <1>0, <1>2, <1>a, <4>1 DEF FilesOk
      <3> QED BY <3>1, <3>2
    <2>2. \A j \in Ids : \A c \in Contents(j)' : c \in Contents(j) \/ c = s
      BY <1>2, <1>4
    <2>3. \A j \in Ids : \A c \in Contents(j)', l \in Kinds :
              c.final[l] # Nothing => file'[c.final[l]].whole /\ file'[c.final[l]].safe
      BY <1>0, <1>1, <2>1, <2>2 DEF FilesOk
    <2>4. \A g \in Files : g # f => (WriterAt(g, "sync")' <=> WriterAt(g, "sync"))
                                   /\ (WriterAt(g, "rename")' <=> WriterAt(g, "rename"))
                                   /\ (writer'[g].at = writer[g].at)
      BY <1>2 DEF WriterAt
    <2>5. ~WriterAt(f, "sync")' /\ ~WriterAt(f, "rename")' /\ ~file[f].old
      BY <1>0, <1>1, <1>2 DEF FilesOk, WriterAt
    <2> QED BY <1>0, <1>1, <2>3, <2>4, <2>5 DEF FilesOk
  <1>8. InputsAlone'
    BY <1>0, <1>1, <1>2 DEF InputsAlone, Submitting, WriterAt
  <1>9. RowsBacked'
    <2>1. \A j \in Ids, l \in Kinds : l \in row[j] => \A c \in Contents(j)' : c.there => c.final[l] # Nothing
      <3> SUFFICES ASSUME NEW j \in Ids, NEW l \in Kinds, l \in row[j], NEW c \in Contents(j)', c.there
                   PROVE  c.final[l] # Nothing
        OBVIOUS
      <3>1. \A e \in Contents(j) : e.there => e.final[l] # Nothing
        BY <1>0 DEF RowsBacked
      <3>2. CASE j = id /\ c = s
        BY <1>3, <1>5, <1>a, <3>1, <3>2
      <3>3. CASE c \in Contents(j)
        BY <3>1, <3>3
      <3> QED BY <1>2, <1>4, <3>2, <3>3
    <2>2. \A g \in Files : Owed(g)' =>
              /\ WriterAt(g, "syncdir")' => Renamed(g, shard[writer[g].id])'
              /\ WriterAt(g, "stored")' => \A c \in Contents(writer[g].id)' : Renamed(g, c)'
      <3> SUFFICES ASSUME NEW g \in Files, Owed(g)', WriterAt(g, "syncdir")' \/ WriterAt(g, "stored")'
                   PROVE  /\ WriterAt(g, "syncdir")' => Renamed(g, shard[writer[g].id])'
                          /\ WriterAt(g, "stored")' => \A c \in Contents(writer[g].id)' : Renamed(g, c)'
        OBVIOUS
      <3>1. CASE g = f
        BY <1>2, <1>3, <1>4, <1>5, <3>1 DEF Renamed, WriterAt, Kinds
      <3>2. CASE g # f
        <4>1. writer'[g] = writer[g] /\ Owed(g) /\ writer[g].id \in Ids /\ writer[g].kind \in Kinds
          BY <1>0, <1>1, <1>2, <3>2, WritersTyped DEF WriterAt, Owed
        <4>2. /\ WriterAt(g, "syncdir") => Renamed(g, shard[writer[g].id])
              /\ WriterAt(g, "stored") => \A c \in Contents(writer[g].id) : Renamed(g, c)
          BY <1>0, <4>1 DEF RowsBacked
        <4>3. writer[g].id = id /\ writer[g].at \in {"syncdir", "stored"} => writer[g].kind = "res"
          BY <1>0, <3>2, <4>1 DEF InputsAlone, Submitting, Kinds
        <4>4. \A c \in Contents(writer[g].id)' :
                  c \in Contents(writer[g].id) \/ (c = s /\ writer[g].id = id)
          BY <1>2, <1>4, <4>1
        <4>5. writer[g].id = id /\ writer[g].at \in {"syncdir", "stored"} /\ Renamed(g, shard[id]) => Renamed(g, s)
          BY <1>2, <1>3, <1>5, <4>3 DEF Renamed, Kinds
        <4>6. \A c : Renamed(g, c)' <=> Renamed(g, c)
          BY <4>1 DEF Renamed
        <4>7. WriterAt(g, "syncdir")' => Renamed(g, shard[writer[g].id])'
          <5>1. CASE writer[g].id = id
            BY <1>4, <4>1, <4>2, <4>5, <4>6, <5>1 DEF WriterAt
          <5>2. CASE writer[g].id # id
            BY <1>4, <4>1, <4>2, <4>6, <5>2 DEF WriterAt
          <5> QED BY <5>1, <5>2
        <4>8. WriterAt(g, "stored")' => \A c \in Contents(writer[g].id)' : Renamed(g, c)'
          BY <1>2, <1>a, <4>1, <4>2, <4>4, <4>5, <4>6 DEF WriterAt
        <4> QED BY <4>7, <4>8
      <3> QED BY <3>1, <3>2
    <2>3. \A g \in Files : WriterAt(g, "dropInput")' => "in" \notin row[writer'[g].id]
      BY <1>0, <1>2 DEF RowsBacked, WriterAt
    <2>4. \A g \in Files : Housed(g)' => shard'[writer'[g].id].there
      <3>1. \A g \in Files : Housed(g)' => Housed(g) /\ writer'[g].id = writer[g].id /\ writer[g].id \in Ids
        BY <1>0, <1>1, <1>2, WritersTyped DEF Housed, Submitting, WriterAt
      <3> QED BY <1>0, <1>3, <1>4, <3>1 DEF RowsBacked
    <2> QED BY <1>0, <1>1, <2>1, <2>2, <2>3, <2>4 DEF RowsBacked
  <1> QED BY <1>6, <1>7, <1>8, <1>9 DEF StoreInv

\* What a writer has renamed is now in every contents a power loss may leave.
LEMMA SyncShardInv ==
    ASSUME StoreInv, NEW f \in Files, SyncShard(f)
    PROVE  StoreInv'
  <1>0. StoreTyped /\ FilesOk /\ InputsAlone /\ RowsBacked
    BY DEF StoreInv
  <1>a. PICK own \in Ids, now \in ShardType : own = writer[f].id /\ now = shard[own]
    <2>1. ~WriterAt(f, "unused")
      BY DEF SyncShard, WriterAt
    <2> QED BY <1>0, <2>1, WritersTyped, ContentsTyped
  <1>1. /\ WriterAt(f, "syncdir") /\ ~WriterAt(f, "unused") /\ Move(f, "stored")
        /\ shards' = [shards EXCEPT ![own] = {now} \union (@ \cap {Absent})] /\ UNCHANGED <<file, shard, row, deleted>>
    BY <1>a DEF SyncShard, WriterAt
  <1>2. /\ writer' \in [Files -> WriterType]
        /\ writer'[f].at = "stored" /\ writer'[f].id = own /\ writer'[f].kind = writer[f].kind
        /\ \A g \in Files \ {f} : writer'[g] = writer[g]
        /\ \A g \in Files : WriterAt(g, "unused")' <=> writer'[g].id = Nothing
    BY <1>0, <1>1, <1>a, WriterMoves
  <1>3. now \in Contents(own) /\ now \in ShardType /\ \A j \in Ids : shard[j] \in Contents(j)
    BY <1>0, <1>a, ContentsTyped
  <1>4. /\ shards' \in [Ids -> SUBSET ShardType] /\ Contents(own)' = {now} \union (Contents(own) \cap {Absent})
        /\ \A j \in Ids \ {own} : Contents(j)' = Contents(j)
    BY <1>0, <1>1, <1>3 DEF StoreTyped, Contents
  <1>5. \A j \in Ids : Contents(j)' \subseteq Contents(j) /\ shard[j] \in Contents(j)'
    BY <1>3, <1>4, <1>a
  <1>6. StoreTyped'
    BY <1>0, <1>1, <1>2, <1>4, <1>5 DEF StoreTyped
  <1>7. FilesOk'
    BY <1>0, <1>1, <1>2, <1>5 DEF FilesOk, WriterAt
  <1>8. InputsAlone'
    <2>1. \A g \in Files : writer'[g].id = writer[g].id /\ writer'[g].kind = writer[g].kind
      BY <1>2, <1>a
    <2>2. \A g \in Files : Submitting(g)' => Submitting(g)
      BY <1>1, <1>2 DEF Submitting, WriterAt
    <2> QED BY <1>0, <1>1, <2>1, <2>2 DEF InputsAlone
  <1>9. RowsBacked'
    <2>1. \A g \in Files : Owed(g)' =>
              /\ WriterAt(g, "syncdir")' => Renamed(g, shard[writer[g].id])'
              /\ WriterAt(g, "stored")' => \A c \in Contents(writer[g].id)' : Renamed(g, c)'
      <3> SUFFICES ASSUME NEW g \in Files, Owed(g)', WriterAt(g, "syncdir")' \/ WriterAt(g, "stored")'
                   PROVE  /\ WriterAt(g, "syncdir")' => Renamed(g, shard[writer[g].id])'
                          /\ WriterAt(g, "stored")' => \A c \in Contents(writer[g].id)' : Renamed(g, c)'
        OBVIOUS
      <3>1. CASE g = f
        <4>1. Renamed(f, now)
          BY <1>0, <1>1, <1>2, <1>a, <3>1 DEF RowsBacked, Owed
        <4>2. \A c \in Contents(own)' : c = now \/ ~c.there
          BY <1>4, EmptyTyped
        <4> QED BY <1>2, <3>1, <4>1, <4>2 DEF Renamed, WriterAt
      <3>2. CASE g # f
        <4>1. writer'[g] = writer[g] /\ Owed(g) /\ writer[g].id \in Ids
          BY <1>0, <1>1, <1>2, <3>2, WritersTyped DEF WriterAt, Owed
        <4>2. /\ WriterAt(g, "syncdir") => Renamed(g, shard[writer[g].id])
              /\ WriterAt(g, "stored") => \A c \in Contents(writer[g].id) : Renamed(g, c)
          BY <1>0, <4>1 DEF RowsBacked
        <4> QED BY <1>1, <1>5, <4>1, <4>2 DEF Renamed, WriterAt
      <3> QED BY <3>1, <3>2
    <2>2. \A g \in Files : WriterAt(g, "dropInput")' => "in" \notin row[writer'[g].id]
      BY <1>0, <1>2 DEF RowsBacked, WriterAt
    <2>3. \A g \in Files : Housed(g)' => Housed(g) /\ writer'[g].id = writer[g].id
      BY <1>1, <1>2, <1>a DEF Housed, Submitting, WriterAt
    <2> QED BY <1>0, <1>1, <1>5, <2>1, <2>2, <2>3 DEF RowsBacked
  <1> QED BY <1>6, <1>7, <1>8, <1>9 DEF StoreInv

\* Old temporary files go; what is under the names stays.
LEMMA SweepTempInv ==
    ASSUME StoreInv, SweepTemp
    PROVE  StoreInv'
  <1> DEFINE kept(id) == [shard[id] EXCEPT !.tmp = {f \in @ : ~file[f].old}]
  <1>0. StoreTyped /\ FilesOk /\ InputsAlone /\ RowsBacked
    BY DEF StoreInv
  <1>1. /\ shard' = [id \in Ids |-> kept(id)]
        /\ shards' = [id \in Ids |-> shards[id] \union {kept(id)}]
        /\ UNCHANGED <<file, row, deleted, writer>>
    BY DEF SweepTemp
  <1>2. \A id \in Ids : /\ kept(id) \in ShardType /\ kept(id).final = shard[id].final
                        /\ kept(id).there = shard[id].there /\ shard[id] \in Contents(id)
    BY <1>0, ContentsTyped DEF ShardType, Shape, Blank
  <1> HIDE DEF kept
  <1>3. /\ \A id \in Ids : /\ shard'[id] = kept(id) /\ shards'[id] \in SUBSET ShardType
                           /\ Contents(id)' = Contents(id) \union {kept(id)}
        /\ shard' \in [Ids -> ShardType] /\ shards' \in [Ids -> SUBSET ShardType]
    BY <1>0, <1>1, <1>2 DEF StoreTyped, Contents
  <1>4. StoreTyped'
    BY <1>0, <1>1, <1>2, <1>3 DEF StoreTyped, WriterAt
  <1>5. \A id \in Ids : \A c \in Contents(id)' : \E d \in Contents(id) : c.final = d.final /\ c.there = d.there
    BY <1>2, <1>3
  <1>6. FilesOk'
    <2>1. \A id \in Ids : \A c \in Contents(id)', k \in Kinds :
              c.final[k] # Nothing => file[c.final[k]].whole /\ file[c.final[k]].safe
      BY <1>0, <1>5 DEF FilesOk
    <2> QED BY <1>0, <1>1, <2>1 DEF FilesOk, WriterAt
  <1>7. InputsAlone'
    BY <1>0, <1>1 DEF InputsAlone, Submitting
  <1>8. RowsBacked'
    <2>1. \A j \in Ids, k \in Kinds : k \in row[j] => \A c \in Contents(j)' : c.there => c.final[k] # Nothing
      BY <1>0, <1>5 DEF RowsBacked
    <2>2. \A g \in Files : Owed(g) =>
              /\ WriterAt(g, "syncdir") => Renamed(g, shard'[writer[g].id])
              /\ WriterAt(g, "stored") => \A j \in Ids : writer[g].id = j => \A c \in Contents(j)' : Renamed(g, c)
      <3> SUFFICES ASSUME NEW g \in Files, Owed(g), WriterAt(g, "syncdir") \/ WriterAt(g, "stored")
                   PROVE  /\ WriterAt(g, "syncdir") => Renamed(g, shard'[writer[g].id])
                          /\ WriterAt(g, "stored") =>
                                 \A j \in Ids : writer[g].id = j => \A c \in Contents(j)' : Renamed(g, c)
        OBVIOUS
      <3>1. writer[g].id \in Ids
        BY <1>0, WritersTyped DEF WriterAt
      <3> QED BY <1>0, <1>2, <1>3, <1>5, <3>1 DEF RowsBacked, Renamed
    <2>3. \A g \in Files : WriterAt(g, "unused") \/ writer[g].id \in Ids
      BY <1>0, WritersTyped
    <2>4. \A g \in Files : Housed(g)' => Housed(g) /\ writer'[g].id \in Ids
      BY <1>1, <2>3 DEF Housed, Submitting, WriterAt
    <2>5. \A g \in Files : Housed(g)' => shard'[writer'[g].id].there
      BY <1>0, <1>1, <1>2, <1>3, <2>4 DEF RowsBacked
    <2> QED BY <1>0, <1>1, <2>1, <2>2, <2>3, <2>5 DEF RowsBacked, Owed, Renamed, WriterAt
  <1> QED BY <1>4, <1>6, <1>7, <1>8 DEF StoreInv

\* Only a file whose writer is done grows old.
LEMMA AgeInv ==
    ASSUME StoreInv, Age
    PROVE  StoreInv'
  <1> DEFINE Through(f) == writer[f].at \in {"run", "done"}
  <1>0. StoreTyped /\ FilesOk /\ InputsAlone /\ RowsBacked
    BY DEF StoreInv
  <1>1. /\ file' = [f \in Files |-> [file[f] EXCEPT !.old = @ \/ Through(f)]]
        /\ UNCHANGED <<shard, shards, row, deleted, writer>>
    BY DEF Age
  <1>2. /\ file' \in [Files -> FileType]
        /\ \A f \in Files : /\ file'[f].whole = file[f].whole /\ file'[f].safe = file[f].safe
                            /\ file'[f].old => file[f].old \/ Through(f)
    <2> SUFFICES ASSUME NEW f \in Files
                 PROVE  /\ file'[f] \in FileType
                        /\ file'[f].whole = file[f].whole /\ file'[f].safe = file[f].safe
                        /\ file'[f].old => file[f].old \/ Through(f)
      BY <1>1
    <2>1. Through(f) \in BOOLEAN /\ file[f] \in FileType
      BY <1>0 DEF StoreTyped
    <2> DEFINE done == Through(f)
    <2>2. file'[f] = [file[f] EXCEPT !.old = @ \/ done] /\ done \in BOOLEAN
      BY <1>1, <2>1
    <2> HIDE DEF done
    <2>3. /\ file'[f] \in FileType /\ file'[f].whole = file[f].whole /\ file'[f].safe = file[f].safe
          /\ file'[f].old => file[f].old \/ done
      BY <2>1, <2>2 DEF FileType
    <2> QED BY <2>3 DEF done
  <1>3. \A id : Contents(id)' = Contents(id)
    BY <1>1 DEF Contents
  <1>4. StoreTyped' /\ InputsAlone' /\ RowsBacked'
    <2>1. StoreTyped'
      BY <1>0, <1>1, <1>2, <1>3 DEF StoreTyped, WriterAt
    <2>2. InputsAlone'
      BY <1>0, <1>1 DEF InputsAlone, Submitting
    <2>3. RowsBacked'
      BY <1>0, <1>1, <1>3 DEF RowsBacked, Owed, Renamed, Housed, Submitting, WriterAt
    <2> QED BY <2>1, <2>2, <2>3
  <1>5. FilesOk'
    <2>1. \A id \in Ids : \A s \in Contents(id), k \in Kinds : s.final[k] # Nothing => s.final[k] \in Files
      BY <1>0, ContentsTyped
    <2> QED BY <1>0, <1>1, <1>2, <1>3, <2>1 DEF FilesOk, WriterAt
  <1> QED BY <1>4, <1>5 DEF StoreInv

\* Nobody writes after a kill; a power loss leaves, of each directory, one of
\* its contents, and tears no file that was synced.
LEMMA StoppedInv ==
    ASSUME StoreInv, KillStore \/ StorePowerLoss
    PROVE  StoreInv'
  <1>0. StoreTyped /\ FilesOk /\ InputsAlone /\ RowsBacked
    BY DEF StoreInv
  <1>1. Stopped /\ row' = row
    BY DEF KillStore, StorePowerLoss
  <1>2. /\ deleted' = {} /\ writer' \in [Files -> WriterType]
        /\ \A f \in Files : /\ writer'[f].at \in {"unused", "run", "done"}
                            /\ writer'[f].at = "unused" <=> writer'[f].id = Nothing
                            /\ writer[f].at \in {"run", "done"} => writer'[f].at \in {"run", "done"}
                            /\ writer'[f].at = "run" => /\ writer'[f].id \in Ids
                                                        /\ shard'[writer'[f].id].final["in"] = f
    <2>1. \A f \in Files : writer[f] \in WriterType /\ (WriterAt(f, "unused") <=> writer[f].id = Nothing)
      BY <1>0 DEF StoreTyped
    <2>2. deleted' = {} /\ DOMAIN writer' = Files
      BY <1>1 DEF Stopped
    <2>3. ASSUME NEW f \in Files
          PROVE  /\ writer'[f] \in WriterType
                 /\ writer'[f].at \in {"unused", "run", "done"}
                 /\ writer'[f].at = "unused" <=> writer'[f].id = Nothing
                 /\ writer[f].at \in {"run", "done"} => writer'[f].at \in {"run", "done"}
                 /\ writer'[f].at = "run" => /\ writer'[f].id \in Ids
                                             /\ shard'[writer'[f].id].final["in"] = f
      <3>1. CASE WriterAt(f, "unused")
        <4>1. writer'[f] = Unused
          BY <1>1, <3>1 DEF Stopped
        <4> QED BY <3>1, <4>1 DEF WriterType, WriterAt, Unused, Kinds, Nothing
      <3>2. CASE ~WriterAt(f, "unused")
        <4>1. PICK place \in {"run", "done"} :
                  /\ writer'[f] = [writer[f] EXCEPT !.at = place]
                  /\ place = "run" => shard'[writer[f].id].final["in"] = f
          <5> DEFINE again == "in" \in row[writer[f].id] /\ shard'[writer[f].id].final["in"] = f
          <5>1. writer'[f] = [writer[f] EXCEPT !.at = IF again THEN "run" ELSE "done"]
            BY <1>1, <3>2 DEF Stopped
          <5> QED BY <5>1
        <4> QED BY <2>1, <3>2, <4>1 DEF WriterType, WriterAt
      <3> QED BY <3>1, <3>2
    <2>4. writer' = [f \in Files |-> writer'[f]]
      BY <1>1 DEF Stopped
    <2>5. writer' \in [Files -> WriterType]
      BY <2>3, <2>4
    <2> QED BY <2>2, <2>3, <2>5
  <1>3. InputsAlone'
    BY <1>2 DEF InputsAlone, Submitting
  <1>4. /\ shard' \in [Ids -> ShardType] /\ shards' \in [Ids -> SUBSET ShardType]
        /\ \A id \in Ids : Contents(id)' \subseteq Contents(id) /\ shard'[id] \in Contents(id)'
    <2>1. CASE KillStore
      BY <1>0, <2>1 DEF KillStore, StoreTyped, Contents
    <2>2. CASE StorePowerLoss
      <3>1. /\ shard' \in [Ids -> UNION {shards[id] : id \in Ids}]
            /\ \A id \in Ids : shard'[id] \in shards[id]
            /\ shards' = [id \in Ids |-> {shard'[id]}]
        BY <2>2 DEF StorePowerLoss
      <3>2. \A id \in Ids : shard'[id] \in ShardType
        BY <1>0, <3>1 DEF StoreTyped
      <3>3. shard' \in [Ids -> ShardType]
        BY <3>1, <3>2
      <3>4. shards' \in [Ids -> SUBSET ShardType]
        BY <3>1, <3>2
      <3> QED BY <3>1, <3>3, <3>4 DEF Contents
    <2> QED BY <2>1, <2>2
  <1>5. /\ file' \in [Files -> FileType]
        /\ \A f \in Files : /\ file[f].safe => file'[f].whole = file[f].whole /\ file'[f].safe
                            /\ file'[f].old = file[f].old
    <2>1. CASE KillStore
      BY <1>0, <2>1 DEF KillStore, StoreTyped
    <2>2. CASE StorePowerLoss
      <3>1. PICK torn \in SUBSET {f \in Files : ~file[f].safe} :
                file' = [f \in Files |-> IF f \in torn THEN [file[f] EXCEPT !.whole = FALSE] ELSE file[f]]
        BY <2>2 DEF StorePowerLoss
      <3>2. \A f \in Files : file[f] \in FileType
        BY <1>0 DEF StoreTyped
      <3> QED BY <3>1, <3>2 DEF FileType
    <2> QED BY <2>1, <2>2
  <1>6. StoreTyped'
    BY <1>0, <1>1, <1>2, <1>4, <1>5 DEF StoreTyped, WriterAt
  <1>7. FilesOk'
    <2>1. \A id \in Ids : \A s \in Contents(id), k \in Kinds : s.final[k] # Nothing => s.final[k] \in Files
      BY <1>0, ContentsTyped
    <2> QED BY <1>0, <1>2, <1>4, <1>5, <2>1 DEF FilesOk, WriterAt
  <1>8. RowsBacked'
    <2>1. \A f \in Files : Housed(f)' => shard'[writer'[f].id].there
      <3> SUFFICES ASSUME NEW f \in Files, Housed(f)' PROVE shard'[writer'[f].id].there
        OBVIOUS
      <3>1. writer'[f].id \in Ids /\ shard'[writer'[f].id].final["in"] = f
        BY <1>2 DEF Housed, Submitting, WriterAt
      <3>2. shard'[writer'[f].id] \in ShardType
        BY <1>4, <3>1
      <3> QED BY <3>1, <3>2 DEF ShardType, Blank, Kinds, Files, Nothing
    <2> QED BY <1>0, <1>1, <1>2, <1>4, <2>1 DEF RowsBacked, WriterAt
  <1> QED BY <1>3, <1>6, <1>7, <1>8 DEF StoreInv

\* An id with a row, or whose row was just deleted, has been submitted: nobody
\* submits an input with it again.
LEMMA SubmittedStays ==
    ASSUME StoreTyped, RowsSubmitted, [StoreNext]_storeVars
    PROVE  RowsSubmitted'
  <1>1. \A f \in Files : writer[f].id = Nothing \/ writer[f].id \in Ids
    BY WritersTyped DEF StoreTyped
  <1>2. writer \in [Files -> WriterType] /\ \A f \in Files : WriterAt(f, "unused") <=> writer[f].id = Nothing
    BY DEF StoreTyped
  <1> SUFFICES /\ \A f \in Files : writer[f].id # Nothing => writer'[f].id = writer[f].id
               /\ \A id \in Ids : row'[id] # {} \/ id \in deleted' => Submitted(id)
    BY <1>1 DEF RowsSubmitted, Submitted, Ids, Nothing
  <1>3. CASE UNCHANGED writer /\ row' = row /\ deleted' \subseteq deleted
    BY <1>3 DEF RowsSubmitted
  <1>4. ASSUME NEW id \in Ids, DeleteRow(id)
        PROVE  /\ UNCHANGED writer
               /\ \A j \in Ids : row'[j] # {} \/ j \in deleted' => row[j] # {} \/ j \in deleted
    BY <1>4 DEF DeleteRow, StoreTyped
  <1>5. ASSUME NEW id \in Ids, NEW k \in Kinds, Create(id, k)
        PROVE  /\ \A f \in Files : writer[f].id # Nothing => writer'[f].id = writer[f].id
               /\ row' = row /\ deleted' = deleted
    <2>1. PICK f \in Files :
              /\ WriterAt(f, "unused")
              /\ writer' = [g \in Files |->
                    IF g = f THEN [at |-> "write", id |-> id, kind |-> k]
                    ELSE IF writer[g].id = id THEN [writer[g] EXCEPT !.at = "done"] ELSE writer[g]]
      BY <1>5 DEF Create
    <2>2. \A g \in Files : writer[g] \in WriterType /\ (writer[g].id # Nothing => g # f)
      BY <1>2, <2>1
    <2>3. \A g \in Files : writer[g].id # Nothing => writer'[g].id = writer[g].id
      BY <2>1, <2>2 DEF WriterType
    <2> QED BY <1>5, <2>3 DEF Create
  <1>6. ASSUME NEW f \in Files, Writing(f)
        PROVE  /\ \A g \in Files : writer'[g].id = writer[g].id
               /\ \/ row' = row
                  \/ ~WriterAt(f, "unused") /\ \A j \in Ids \ {writer[f].id} : row'[j] = row[j]
               /\ deleted' = deleted
    <2>1. PICK place : Move(f, place)
      BY <1>6 DEF Writing, Write, SyncFile, Rename, SyncShard, Promise, DropInput, Discard, CommitFails,
                  CreateRowFails
    <2>2. \A g \in Files : writer'[g].id = writer[g].id
      BY <1>2, <2>1 DEF Move, WriterType
    <2>3. deleted' = deleted /\ (row' = row \/ Promise(f))
      BY <1>6 DEF Writing, Write, SyncFile, Rename, SyncShard, Promise, DropInput, Discard, CommitFails,
                  CreateRowFails
    <2>4. ASSUME Promise(f)
          PROVE  ~WriterAt(f, "unused") /\ \A j \in Ids \ {writer[f].id} : row'[j] = row[j]
      BY <2>4 DEF Promise, WriterAt, StoreTyped
    <2> QED BY <2>2, <2>3, <2>4
  <1>7. ASSUME Stopped, row' = row
        PROVE  /\ \A f \in Files : writer'[f].id = writer[f].id
               /\ deleted' = {}
    <2> SUFFICES ASSUME NEW f \in Files PROVE writer'[f].id = writer[f].id
      BY <1>7 DEF Stopped
    <2>1. CASE WriterAt(f, "unused")
      BY <1>2, <1>7, <2>1 DEF Stopped, Unused
    <2>2. CASE ~WriterAt(f, "unused")
      <3>1. PICK place : writer'[f] = [writer[f] EXCEPT !.at = place]
        BY <1>7, <2>2 DEF Stopped
      <3> QED BY <1>2, <3>1 DEF WriterType
    <2> QED BY <2>1, <2>2
  <1>8. CASE \E f \in Files : Writing(f)
    <2>1. PICK f \in Files : Writing(f)
      BY <1>8
    <2>2. \A j \in Ids : row'[j] # {} \/ j \in deleted' => row[j] # {} \/ j \in deleted \/ j = writer[f].id
      BY <1>6, <2>1
    <2> QED BY <1>6, <2>1, <2>2 DEF RowsSubmitted, Submitted
  <1>9. CASE \E id \in Ids : DeleteRow(id) \/ \E k \in Kinds : Create(id, k)
    BY <1>4, <1>5, <1>9 DEF RowsSubmitted
  <1>10. CASE KillStore \/ StorePowerLoss
    BY <1>7, <1>10 DEF KillStore, StorePowerLoss, RowsSubmitted
  <1>11. CASE Sweeping \/ Age \/ (\E id \in Ids : DeleteArtifacts(id)) \/ UNCHANGED storeVars
    BY <1>3, <1>11 DEF Sweeping, SweepTemp, ScanIds, SkipId, RemoveOrphan, SweepEnds, Age, DeleteArtifacts, storeVars
  <1> QED BY <1>8, <1>9, <1>10, <1>11 DEF StoreNext, Stores

LEMMA StoreInitInv ==
    ASSUME BlobStoreAssumption, StoreInit
    PROVE  StoreInv /\ RowsSubmitted
  <1>1. \A id \in Ids : /\ Contents(id) = {shard[id]} /\ shard[id] \in {EmptyShard, Absent}
                        /\ row[id] = {}
    BY DEF StoreInit, Contents
  <1>2. \A f \in Files : writer[f] = Unused /\ ~file[f].old
    BY DEF StoreInit
  <1>3. shard \in [Ids -> ShardType] /\ shards \in [Ids -> SUBSET ShardType]
    BY EmptyTyped DEF StoreInit
  <1>4. StoreTyped
    BY <1>1, <1>2, <1>3 DEF StoreInit, StoreTyped, FileType, WriterType, Unused, WriterAt, Kinds
  <1>5. FilesOk
    BY <1>1, <1>2, EmptyTyped DEF FilesOk, WriterAt, Unused
  <1>6. InputsAlone
    BY <1>2 DEF InputsAlone, Submitting, Unused
  <1>7. RowsBacked /\ RowsSubmitted
    BY <1>1, <1>2 DEF RowsBacked, RowsSubmitted, Housed, Submitting, WriterAt, Unused, StoreInit
  <1> QED BY <1>4, <1>5, <1>6, <1>7 DEF StoreInv

LEMMA StoreStep ==
    ASSUME StoreInv, RowsSubmitted, [StoreNext]_storeVars
    PROVE  StoreInv' /\ RowsSubmitted'
  <1>1. RowsSubmitted'
    BY SubmittedStays DEF StoreInv
  <1>2. CASE \E f \in Files : Writing(f)
    BY <1>1, <1>2, WriteInv, RenameInv, SyncShardInv, PromiseInv, DropInputInv, FailsInv DEF Writing
  <1>3. CASE \E id \in Ids : DeleteRow(id) \/ DeleteArtifacts(id) \/ \E k \in Kinds : Create(id, k)
    BY <1>1, <1>3, RemovalInv, CreateInv
  <1>4. CASE ScanIds \/ SkipId \/ SweepEnds \/ UNCHANGED storeVars
    BY <1>1, <1>4, StoreStays DEF ScanIds, SkipId, SweepEnds, storeVars
  <1>5. CASE SweepTemp \/ RemoveOrphan \/ Age \/ KillStore \/ StorePowerLoss
    BY <1>1, <1>5, SweepTempInv, RemovalInv, AgeInv, StoppedInv
  <1> QED BY <1>1, <1>2, <1>3, <1>4, <1>5 DEF StoreNext, Stores, Sweeping

LEMMA StoreInvariant == StoreSpec => [](StoreInv /\ RowsSubmitted)
  <1>1. StoreInit => StoreInv /\ RowsSubmitted
    BY BlobStoreAssumption, StoreInitInv
  <1>2. StoreInv /\ RowsSubmitted /\ [StoreNext]_storeVars => (StoreInv /\ RowsSubmitted)'
    BY StoreStep
  <1> QED BY <1>1, <1>2, PTL DEF StoreSpec

\* "A reader therefore never observes a partial file" (store/blob.go): whatever
\* fails, stops or loses its power, and however the writers, DELETE and the
\* sweeper interleave, what is under an artifact's name is complete, and the
\* artifact a row names is under its name, complete and synced, in every
\* contents of its directory a power loss may leave with the directory.
THEOREM ArtifactsStay == StoreSpec => []ArtifactsWhole
  <1>1. StoreInv => ArtifactsWhole
    <2> SUFFICES ASSUME StoreInv, NEW id \in Ids, NEW k \in Kinds
                 PROVE  /\ shard[id].final[k] # Nothing => file[shard[id].final[k]].whole
                        /\ k \in row[id] => \A s \in shards[id] : s.there =>
                               LET f == s.final[k]
                               IN  f # Nothing /\ file[f].whole /\ file[f].safe
      BY DEF ArtifactsWhole
    <2>1. StoreTyped /\ FilesOk /\ RowsBacked
      BY DEF StoreInv
    <2>2. shard[id] \in Contents(id)
      BY <2>1, ContentsTyped
    <2> QED BY <2>1, <2>2 DEF FilesOk, RowsBacked, Contents
  <1> QED BY <1>1, StoreInvariant, PTL

-----------------------------------------------------------------------------
(* Calls, and the end of the process *)

ProcessSpec == ProcessInit /\ [][ProcessNext]_allVars

CallType ==
    [at : {"idle", "wait", "body", "classified", "returned"}, late : BOOLEAN,
     outcome : {"none", "success", "terminal", "retry", "retryOnce", "cancelled"},
     cause : {"none", "other", "left", "late"}, file : BOOLEAN, leftAtReturn : BOOLEAN]

\* What the wire said is true of a call whose caller has left (gone) or not, and
\* so is what Do made of it.
WireTrue(x, gone) ==
    x.at = "classified" =>
        /\ x.outcome = "cancelled" \/ x.cause = "left" => gone
        /\ x.cause = "late" => x.outcome \in {"cancelled", "retryOnce"}
        /\ x.file = (x.outcome = "success")
ReturnTrue(x) ==
    x.at = "returned" =>
        /\ (x.outcome = "cancelled") = x.leftAtReturn
        /\ x.cause = "left" => x.outcome = "cancelled"
        /\ x.cause = "late" => x.outcome \in {"cancelled", "retryOnce"}
        /\ x.file = (x.outcome = "success")
CallSound(x, gone) == x \in CallType /\ WireTrue(x, gone) /\ ReturnTrue(x)

CallsSound ==
    /\ call \in [Calls -> CallType] /\ left \in [Calls -> BOOLEAN]
    /\ \A c \in Calls : CallSound(call[c], left[c])

\* Once the handlers were waited for, one is left only when that was given up; once Stop has returned, nothing tracked is left.
Quiet == graceOver \/ listenFailed \/ NoHandlers
HandlersGone == main \in {"drain", "tick", "stop", "wait", "close", "closed", "exited"} => Quiet
WorkGone == main \in {"close", "closed", "exited"} => TrackedGone
EndInOrder == "run" \in stopped => main \in {"close", "closed", "exited"}

ServiceInv == CallsSound /\ HandlersGone /\ WorkGone /\ EndInOrder /\ JobsKept

LEMMA InvShown == ServiceInv => OutcomeTrue /\ ShutdownKeepsWork
  <1> SUFFICES ASSUME ServiceInv PROVE OutcomeTrue /\ ShutdownKeepsWork
    OBVIOUS
  <1>1. OutcomeTrue
    BY DEF ServiceInv, CallsSound, CallSound, ReturnTrue, OutcomeTrue, CallAt
  <1>2. ShutdownKeepsWork
    BY DEF ServiceInv, HandlersGone, WorkGone, EndInOrder, Quiet, ShutdownKeepsWork,
           RequestsServed, StoreOutlivesWork
  <1> QED BY <1>1, <1>2

LEMMA NoCallSound == \A gone : CallSound(NoCall, gone)
  BY DEF CallSound, CallType, WireTrue, ReturnTrue, NoCall

LEMMA ServiceInit == ProcessInit => ServiceInv
  <1> SUFFICES ASSUME ProcessInit PROVE ServiceInv
    OBVIOUS
  <1>1. CallsSound
    BY NoCallSound DEF ProcessInit, UpstreamInit, CallsSound, CallSound
  <1> QED BY <1>1 DEF ProcessInit, ServiceInv, HandlersGone, WorkGone, EndInOrder, JobsKept

-----------------------------------------------------------------------------
(* Calls *)

\* No step makes a caller come back.
LeftGrows == left' \in [Calls -> BOOLEAN] /\ \A c \in Calls : left[c] => left'[c]

LEMMA CallsStay ==
    ASSUME CallsSound, LeftGrows, UNCHANGED call
    PROVE  CallsSound'
  BY DEF CallsSound, LeftGrows, CallSound, WireTrue

LEMMA CallChanges ==
    ASSUME CallsSound, UNCHANGED left, NEW c \in Calls, NEW x, CallSound(x, left[c]),
           call' = [call EXCEPT ![c] = x]
    PROVE  CallsSound'
  BY DEF CallsSound, CallSound

\* An answer without a result, or what stands for one, is classified.
LEMMA ClassifiedSound ==
    ASSUME CallsSound, UNCHANGED left, NEW c \in Calls,
           NEW outcome \in {"terminal", "retry", "retryOnce", "cancelled"},
           NEW cause \in {"other", "left", "late"},
           outcome = "cancelled" \/ cause = "left" => left[c],
           cause = "late" => outcome \in {"cancelled", "retryOnce"},
           Classified(c, outcome, cause, FALSE)
    PROVE  CallsSound'
  <1> DEFINE x == [NoCall EXCEPT !.at = "classified", !.outcome = outcome,
                                 !.cause = cause, !.file = FALSE]
  <1>1. CallSound(x, left[c])
    BY DEF CallSound, CallType, WireTrue, ReturnTrue, NoCall
  <1>2. call' = [call EXCEPT ![c] = x]
    BY DEF Classified
  <1> HIDE DEF x
  <1> QED BY <1>1, <1>2, CallChanges

LEMMA BeginSound ==
    ASSUME CallsSound, UNCHANGED left, NEW c \in Calls, BeginCall(c)
    PROVE  CallsSound'
  <1>1. CASE call' = [call EXCEPT ![c].at = "wait"]
    <2> DEFINE x == [call[c] EXCEPT !.at = "wait"]
    <2>1. CallSound(x, left[c])
      BY DEF CallsSound, CallSound, CallType, WireTrue, ReturnTrue
    <2>2. call' = [call EXCEPT ![c] = x]
      BY <1>1
    <2> HIDE DEF x
    <2> QED BY <2>1, <2>2, CallChanges
  <1>2. CASE NotSent(c)
    BY <1>2, ClassifiedSound DEF NotSent
  <1> QED BY <1>1, <1>2 DEF BeginCall

LEMMA EndSound ==
    ASSUME CallsSound, UNCHANGED left, NEW c \in Calls, EndCall(c)
    PROVE  CallsSound'
  BY NoCallSound, CallChanges DEF EndCall

LEMMA FailureSound ==
    ASSUME CallsSound, UNCHANGED left, NEW c \in Calls, NEW cause,
           TransportFailure(c, cause), cause \in {"other", "left", "late"},
           cause = "left" => left[c], cause = "late" => call[c].late
    PROVE  CallsSound'
  <1>1. CASE left[c]
    <2>1. Classified(c, "cancelled", cause, FALSE)
      BY <1>1 DEF TransportFailure
    <2> QED BY <1>1, <2>1, ClassifiedSound
  <1>2. CASE ~left[c] /\ call[c].late
    <2>1. Classified(c, "retryOnce", cause, FALSE)
      BY <1>2 DEF TransportFailure
    <2> QED BY <1>2, <2>1, ClassifiedSound
  <1>3. CASE ~left[c] /\ ~call[c].late
    <2>1. Classified(c, "retry", cause, FALSE)
      BY <1>3 DEF TransportFailure
    <2> QED BY <1>3, <2>1, ClassifiedSound
  <1> QED BY <1>1, <1>2, <1>3

LEMMA ReturnSound ==
    ASSUME CallsSound, UNCHANGED left, NEW c \in Calls, Return(c)
    PROVE  CallsSound'
  <1> DEFINE x == [call[c] EXCEPT !.at = "returned", !.leftAtReturn = left[c],
                       !.outcome = IF left[c] THEN "cancelled" ELSE @, !.file = @ /\ ~left[c]]
  <1>1. call[c] \in CallType /\ left[c] \in BOOLEAN /\ WireTrue(call[c], left[c])
        /\ call[c].at = "classified"
    BY DEF CallsSound, CallSound, Return, CallAt
  <1>2. CallSound(x, left[c])
    <2>1. CASE left[c]
      <3>1. x = [call[c] EXCEPT !.at = "returned", !.leftAtReturn = TRUE,
                                !.outcome = "cancelled", !.file = FALSE]
        BY <1>1, <2>1 DEF CallType
      <3> HIDE DEF x
      <3> QED BY <1>1, <3>1 DEF CallSound, CallType, WireTrue, ReturnTrue
    <2>2. CASE ~left[c]
      <3>1. x = [call[c] EXCEPT !.at = "returned", !.leftAtReturn = FALSE]
        BY <1>1, <2>2 DEF CallType
      <3> HIDE DEF x
      <3> QED BY <1>1, <2>2, <3>1 DEF CallSound, CallType, WireTrue, ReturnTrue
    <2> QED BY <2>1, <2>2
  <1>3. call' = [call EXCEPT ![c] = x]
    BY DEF Return, CallsSound
  <1> HIDE DEF x
  <1> QED BY <1>2, <1>3, CallChanges

LEMMA StepSound ==
    ASSUME CallsSound, UNCHANGED left, NEW c \in Calls, CallStep(c) \/ DeadlinePasses(c)
    PROVE  CallsSound'
  <1>1. CASE FailingAnswer(c)
    <2>1. \A status \in Statuses, body \in Bodies :
              OutcomeOf(status, body) \in {"terminal", "retry", "retryOnce"}
      BY DEF OutcomeOf
    <2>2. \A a \in Statuses \X Bodies : OutcomeOf(a[1], a[2]) \in {"terminal", "retry", "retryOnce"}
      BY <2>1
    <2>3. PICK outcome \in {"terminal", "retry", "retryOnce"} : Classified(c, outcome, "other", FALSE)
      BY <1>1, <2>2 DEF FailingAnswer
    <2> QED BY <2>3, ClassifiedSound
  <1>2. CASE ResultBegins(c)
    <2>1. CASE call' = [call EXCEPT ![c].at = "body", ![c].file = TRUE]
      <3> DEFINE x == [call[c] EXCEPT !.at = "body", !.file = TRUE]
      <3>1. CallSound(x, left[c])
        BY ZenonT(60) DEF CallsSound, CallSound, CallType, WireTrue, ReturnTrue
      <3>2. call' = [call EXCEPT ![c] = x]
        BY <2>1 DEF CallsSound
      <3> HIDE DEF x
      <3> QED BY <3>1, <3>2, CallChanges
    <2>2. CASE Classified(c, "terminal", "other", FALSE)
      BY <2>2, ClassifiedSound
    <2> QED BY <1>2, <2>1, <2>2 DEF ResultBegins
  <1>3. CASE Breaks(c)
    <2>1. CASE TransportFailure(c, "other")
      BY <2>1, FailureSound
    <2>2. CASE left[c] /\ TransportFailure(c, "left")
      BY <2>2, FailureSound
    <2>3. CASE call[c].late /\ TransportFailure(c, "late")
      BY <2>3, FailureSound
    <2> QED BY <1>3, <2>1, <2>2, <2>3 DEF Breaks
  <1>4. CASE DownloadFails(c)
    BY <1>4, ClassifiedSound DEF DownloadFails
  <1>5. CASE Inspect(c)
    <2>1. CASE Classified(c, "success", "other", TRUE)
      <3> DEFINE x == [NoCall EXCEPT !.at = "classified", !.outcome = "success",
                                     !.cause = "other", !.file = TRUE]
      <3>1. CallSound(x, left[c])
        BY DEF CallSound, CallType, WireTrue, ReturnTrue, NoCall
      <3>2. call' = [call EXCEPT ![c] = x]
        BY <2>1 DEF Classified
      <3> HIDE DEF x
      <3> QED BY <3>1, <3>2, CallChanges
    <2>2. CASE Classified(c, "terminal", "other", FALSE)
      BY <2>2, ClassifiedSound
    <2> QED BY <1>5, <2>1, <2>2 DEF Inspect
  <1>6. CASE Return(c)
    BY <1>6, ReturnSound
  <1>7. CASE DeadlinePasses(c)
    <2> DEFINE x == [call[c] EXCEPT !.late = TRUE]
    <2>1. CallSound(x, left[c])
      BY ZenonT(60), <1>7 DEF CallsSound, CallSound, CallType, WireTrue, ReturnTrue, DeadlinePasses
    <2>2. call' = [call EXCEPT ![c] = x]
      BY <1>7 DEF DeadlinePasses
    <2> HIDE DEF x
    <2> QED BY <2>1, <2>2, CallChanges
  <1> QED BY <1>1, <1>2, <1>3, <1>4, <1>5, <1>6, <1>7 DEF CallStep

-----------------------------------------------------------------------------
(* The process *)

LEMMA ServiceStep == ServiceInv /\ [ProcessNext]_allVars => ServiceInv'
  <1> SUFFICES ASSUME ServiceInv, [ProcessNext]_allVars PROVE ServiceInv'
    OBVIOUS
  <1> USE ProcessAssumption
  <1> DEFINE Rest == HandlersGone' /\ WorkGone' /\ EndInOrder' /\ JobsKept'
  <1>a. CallsSound /\ HandlersGone /\ WorkGone /\ EndInOrder /\ JobsKept
    BY DEF ServiceInv
  <1>b. ASSUME UNCHANGED <<call, left>> PROVE CallsSound'
    BY <1>a, <1>b, CallsStay DEF LeftGrows, CallsSound
  <1>1. CASE ServeStep
    <2> USE <1>a DEF HandlersGone, WorkGone, EndInOrder, JobsKept, Quiet, TrackedGone, NoHandlers, Idle, Answered,
                     processVars, upstreamVars
    <2>1. CASE Start
      BY <1>b, <2>1 DEF Start, ServiceInv
    <2>2. CASE Recover
      BY <1>b, <2>2 DEF Recover, ServiceInv
    <2>3. CASE HandlersReturned
      BY <1>b, <2>3 DEF HandlersReturned, ServiceInv
    <2>4. CASE \E s \in Surfaces : DrainLooks(s)
      BY <1>b, <2>4 DEF DrainLooks, ServiceInv
    <2>5. CASE Drained
      BY <1>b, <2>5 DEF Drained, ServiceInv
    <2>6. CASE DrainAgain
      BY <1>b, <2>6 DEF DrainAgain, ServiceInv
    <2>7. CASE DrainGivesUp
      BY <1>b, <2>7 DEF DrainGivesUp, ServiceInv
    <2>8. CASE Stop
      <3>1. LeftGrows /\ UNCHANGED call
        BY <2>8 DEF Stop, LeftGrows, CallsSound
      <3> QED BY <2>8, <3>1, CallsStay DEF Stop, ServiceInv
    <2>9. CASE StopRun
      <3>1. LeftGrows /\ UNCHANGED call
        BY <2>9 DEF StopRun, LeftGrows, CallsSound
      <3> QED BY <2>9, <3>1, CallsStay DEF StopRun, ServiceInv
    <2>10. CASE Close
      BY <1>b, <2>10 DEF Close, ServiceInv
    <2>11. CASE ServeReturns
      BY <1>b, <2>11 DEF ServeReturns, ServiceInv
    <2> QED BY <1>1, <2>1, <2>2, <2>3, <2>4, <2>5, <2>6, <2>7, <2>8, <2>9, <2>10, <2>11 DEF ServeStep
  <1>2. CASE Signal \/ ListenFails \/ GraceEnds \/ FeedStep \/ SweeperEnds
    <2>1. CallsSound'
      BY <1>2, <1>b DEF Signal, ListenFails, GraceEnds, FeedStep, FeedAdmit, FeedHands, FeedEnds,
                        SweeperEnds, upstreamVars
    <2>2. Rest
      BY <1>2, <1>a DEF Signal, ListenFails, GraceEnds, FeedStep, FeedAdmit, FeedHands, FeedEnds,
             SweeperEnds, HandlersGone, WorkGone, EndInOrder, JobsKept, Quiet, TrackedGone, NoHandlers, Idle, Answered
    <2> QED BY <2>1, <2>2 DEF ServiceInv
  <1>3. ASSUME NEW s \in Surfaces, WorkerStep(s) PROVE ServiceInv'
    <2> USE <1>a DEF HandlersGone, WorkGone, EndInOrder, JobsKept, Quiet, TrackedGone, NoHandlers, Idle, Answered
    <2>1. CASE TakeJob(s) \/ WorkerEnds(s) \/ MarkFails(s) \/ Release(s)
      <3>1. CallsSound'
        BY <2>1, <1>b DEF TakeJob, WorkerEnds, MarkFails, Release, upstreamVars
      <3>2. Rest
        BY <2>1 DEF TakeJob, WorkerEnds, MarkFails, Release
      <3> QED BY <3>1, <3>2 DEF ServiceInv
    <2>2. CASE MarkRunning(s)
      <3>1. CallsSound'
        BY <2>2, BeginSound DEF MarkRunning
      <3>2. Rest
        BY <2>2 DEF MarkRunning
      <3> QED BY <3>1, <3>2 DEF ServiceInv
    <2>3. CASE CallReturned(s)
      <3>1. CallsSound'
        BY <2>3, EndSound DEF CallReturned
      <3>2. ~(Fails(s) /\ call[s].leftAtReturn)
        BY <2>3 DEF CallReturned, CallAt, CallsSound, CallSound, ReturnTrue, Fails, Interrupted
      <3>3. Rest
        BY <2>3, <3>2 DEF CallReturned
      <3> QED BY <3>1, <3>3 DEF ServiceInv
    <2> QED BY <1>3, <2>1, <2>2, <2>3 DEF WorkerStep
  <1>4. ASSUME NEW r \in Requests, RequestBegins(r) \/ ClientLeaves(r) \/ RequestEnds(r) PROVE ServiceInv'
    <2> USE <1>a DEF HandlersGone, WorkGone, EndInOrder, JobsKept, Quiet, TrackedGone, NoHandlers, Idle, Answered
    <2>1. CASE RequestBegins(r)
      <3>1. CallsSound'
        BY <2>1, BeginSound DEF RequestBegins
      <3>2. Rest
        BY <2>1 DEF RequestBegins
      <3> QED BY <3>1, <3>2 DEF ServiceInv
    <2>2. CASE ClientLeaves(r)
      <3>1. LeftGrows /\ UNCHANGED call
        BY <2>2 DEF ClientLeaves, LeftGrows, CallsSound
      <3>2. Rest
        BY <2>2 DEF ClientLeaves, processVars
      <3> QED BY <3>1, <3>2, CallsStay DEF ServiceInv
    <2>3. CASE RequestEnds(r)
      <3>1. CallsSound'
        BY <2>3, EndSound DEF RequestEnds
      <3>2. Rest
        BY <2>3 DEF RequestEnds
      <3> QED BY <3>1, <3>2 DEF ServiceInv
    <2> QED BY <1>4, <2>1, <2>2, <2>3
  <1>5. ASSUME NEW c \in Calls, Wire(c) \/ WireLate(c) PROVE ServiceInv'
    <2>1. CallsSound'
      BY <1>5, <1>a, StepSound DEF Wire, WireLate
    <2>2. Rest
      BY <1>5, <1>a DEF Wire, WireLate, processVars, HandlersGone, WorkGone, EndInOrder, JobsKept,
                        Quiet, TrackedGone, NoHandlers, Idle, Answered
    <2> QED BY <2>1, <2>2 DEF ServiceInv
  <1>6. ASSUME NEW x \in Submits, SubmitBegins(x) \/ SubmitFails(x) \/ RowCommits(x) \/ Enqueue(x)
        PROVE  ServiceInv'
    <2>1. CallsSound'
      BY <1>6, <1>b DEF SubmitBegins, SubmitFails, RowCommits, Enqueue, upstreamVars
    <2>2. NoHandlers => main = "serve"
      BY <1>6 DEF SubmitBegins, SubmitFails, RowCommits, Enqueue, Answered, NoHandlers
    <2>3. /\ UNCHANGED <<main, graceOver, listenFailed, stopped, worker, feeder, sweeping, request, wronged>>
      BY <1>6 DEF SubmitBegins, SubmitFails, RowCommits, Enqueue
    <2>4. Rest
      BY <1>a, <2>2, <2>3 DEF HandlersGone, WorkGone, EndInOrder, JobsKept, Quiet, TrackedGone,
                              NoHandlers, Idle
    <2> QED BY <2>1, <2>4 DEF ServiceInv
  <1>7. CASE UNCHANGED allVars
    BY <1>a, <1>b, <1>7 DEF allVars, processVars, upstreamVars, ServiceInv, HandlersGone, WorkGone, EndInOrder, JobsKept,
                            Quiet, TrackedGone, NoHandlers, Idle, Answered
  <1> QED BY <1>1, <1>2, <1>3, <1>4, <1>5, <1>6, <1>7 DEF ProcessNext

LEMMA ServiceAlways == ProcessSpec => []ServiceInv
  BY ServiceInit, ServiceStep, PTL DEF ProcessSpec

\* What Do returns is what happened, for any callers: a caller who left is told
\* so and never that the container failed, and only a success leaves a file.
THEOREM OutcomesTrue == ProcessSpec => []OutcomeTrue
  BY ServiceAlways, InvShown, PTL

\* A shutdown cuts no submit and no request short before the grace is over,
\* closes the store only when nothing tracked is left, and fails no job whose
\* call it cut short, for any surfaces, recovered jobs, submits and requests.
THEOREM ShutdownKept == ProcessSpec => []ShutdownKeepsWork
  BY ServiceAlways, InvShown, PTL

-----------------------------------------------------------------------------
(* The three together *)

\* A gateway that starts, stores and serves does each as its own specification
\* says: no step of one touches what another keeps (cmd/gateway/main.go).
THEOREM ScenesApart == Spec => MigrateSpec /\ StoreSpec /\ ProcessSpec
  <1>1. Init => MigrateInit /\ StoreInit /\ ProcessInit
    BY DEF Init
  <1>2. [Next]_gatewayVars => [MigrateNext]_migrateVars
    BY DEF Next, gatewayVars
  <1>3. [Next]_gatewayVars => [StoreNext]_storeVars
    BY DEF Next, gatewayVars
  <1>4. [Next]_gatewayVars => [ProcessNext]_allVars
    BY DEF Next, gatewayVars
  <1> QED BY <1>1, <1>2, <1>3, <1>4, PTL DEF Spec, MigrateSpec, StoreSpec, ProcessSpec

\* Everything the gateway keeps, in all its scenes: its schema, its backups, the
\* artifacts, what its calls report and the order of its shutdown.
THEOREM GatewaySafe ==
    Spec => /\ []SchemaTrue /\ []BackupWhole /\ []WayBack
            /\ []ArtifactsWhole /\ []OutcomeTrue /\ []ShutdownKeepsWork
  BY ScenesApart, SchemaStamped, BackupComplete, WayBackStays, ArtifactsStay,
     OutcomesTrue, ShutdownKept, PTL
=============================================================================
