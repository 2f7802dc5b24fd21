------------------------------- MODULE Migrate -------------------------------
(***************************************************************************)
(* The start of a gateway on its volume (store/migrate.go): the schema     *)
(* version is read, the database is copied to gateway.db.v<N>.bak, and     *)
(* every pending migration is applied with the new version in one          *)
(* transaction.                                                            *)
(*                                                                         *)
(* A commit is durable at once (synchronous=FULL).  A directory is not:    *)
(* journal holds its contents since it was last fsynced, oldest first, and *)
(* a power loss leaves any of them, with files that were never fsynced     *)
(* torn.  The code does not make two gateways on one volume safe           *)
(* (migrate.go:325): a second start is modelled only beside a first one    *)
(* that loses no power, and only on a volume that has a version.           *)
(***************************************************************************)
EXTENDS Integers, Sequences, FiniteSets

CONSTANTS
    Images,      \* the schema versions of the images that may be deployed
    MaxFaults,       \* kills, power losses, failing steps and deployments of another image
    MaxSharedFaults  \* of these, beside a second start

ASSUME MigrateAssumption ==
    /\ Images \subseteq Nat \ {0} /\ \E v \in Images : \A w \in Images : w <= v
    /\ {MaxFaults, MaxSharedFaults} \subseteq Nat

Procs == {"main", "second"}
Versions == 0..CHOOSE v \in Images : \A w \in Images : w <= v
Names == Versions \X {"bak", "partial"}
Inodes == 1..6   \* no copy begins while each is in a contents of DATA_DIR a power loss may leave
NoFile == 0

VARIABLES
    db,       \* the committed database: its stamp (user_version), its jobs table, the migrations applied
    tx,       \* the write transaction: who holds it and the database it would commit
    inode,    \* what each file holds: the database copied, whether all of it is there, and fsynced
    dir,      \* DATA_DIR: the file under each backup name
    journal,  \* the contents of DATA_DIR since its last fsync, oldest first, dir the last
    proc,     \* each start: where it is, its image, and what it read
    alone,    \* no second start, but the power may fail
    undo,     \* the version the last migration started from, 0 when none was committed
    faults

migrateVars == <<db, tx, inode, dir, journal, proc, alone, undo, faults>>

NoTx == [by |-> "none"]
Down(image) == [at |-> "down", image |-> image, seen |-> 0, from |-> 0, next |-> 0, legacy |-> FALSE,
                 file |-> NoFile, listed |-> {}]

\* What pre-versioning builds left is version 1, or short of a column that has
\* a default, or a table no build of the gateway made.
Fresh == [stamp |-> 0, jobs |-> "none", applied |-> <<>>]
Legacy == [stamp : {0}, jobs : {"whole", "short", "foreign"}, applied : {<<1>>}]
Versioned == [stamp : {1}, jobs : {"whole"}, applied : {<<1>>}]

MigrateInit ==
    /\ alone \in BOOLEAN
    /\ db \in Versioned \union (IF alone THEN Legacy \union {Fresh} ELSE {})
    /\ tx = NoTx
    /\ inode = [i \in Inodes |-> [copy |-> Fresh, whole |-> FALSE, safe |-> FALSE]]
    /\ dir = [n \in Names |-> NoFile]
    /\ journal = <<dir>>
    /\ \E i, j \in Images :
        /\ IF alone THEN i = j ELSE i <= j
        /\ proc = [p \in Procs |-> Down(IF p = "main" THEN i ELSE j)]
    /\ undo = 0 /\ faults = 0

---------------------------------------------------------------------------

At(p, place) == proc[p].at = place
Go(p, place) == proc' = [proc EXCEPT ![p].at = place]
Exit(p, place) == proc' = [proc EXCEPT ![p] = [Down(@.image) EXCEPT !.at = place]]
IsPartial(n) == n[2] = "partial"
Partial(p) == <<proc[p].from, "partial">>
Backup(p) == <<proc[p].from, "bak">>

\* A change of DATA_DIR, lost with the power until the next fsync.
Change(d) ==
    /\ dir' = d
    /\ journal' = IF alone THEN Append(journal, d) ELSE <<d>>

Used == UNION {{d[n] : n \in Names} : d \in {journal[i] : i \in 1..Len(journal)}}
            \union {proc[p].file : p \in Procs}
FreeInode == CHOOSE i \in Inodes : i \notin Used

\* migrate: the version read decides whether there is anything to do.
ReadVersion(p) ==
    LET legacy == db.stamp = 0 /\ db.jobs # "none"
        from == IF legacy THEN 1 ELSE db.stamp
        image == proc[p].image
        place == IF db.stamp = image THEN "open"
                 ELSE IF db.stamp > image THEN "refused"
                 ELSE IF from > 0 /\ from < image THEN "clear"
                 ELSE "begin"
    IN  /\ At(p, "down") /\ (p = "second" => ~alone)
        /\ proc' = [proc EXCEPT ![p] = [Down(image) EXCEPT !.at = place, !.seen = db.stamp, !.from = from,
                                                           !.next = from + 1, !.legacy = legacy]]
        /\ UNCHANGED <<db, tx, inode, dir, journal, alone, undo, faults>>

\* removeBackups lists DATA_DIR once: the copies an earlier start was cut
\* short in go first, those superseded once the new one is in place.
List(p) ==
    /\ proc[p].at \in {"clear", "prune"}
    /\ LET clearing == At(p, "clear")
       IN  proc' = [proc EXCEPT
               ![p].listed = {n \in Names : dir[n] # NoFile /\ IF clearing THEN IsPartial(n) ELSE n # Backup(p)},
               ![p].at = IF clearing THEN "clearing" ELSE "pruning"]
    /\ UNCHANGED <<db, tx, inode, dir, journal, alone, undo, faults>>

RemoveListed(p) ==
    /\ proc[p].at \in {"clearing", "pruning"}
    /\ \E n \in proc[p].listed :
        /\ proc' = [proc EXCEPT ![p].listed = @ \ {n}]
        /\ IF dir[n] # NoFile THEN Change([dir EXCEPT ![n] = NoFile]) ELSE UNCHANGED <<dir, journal>>
    /\ UNCHANGED <<db, tx, inode, alone, undo, faults>>

Removed(p) ==
    /\ proc[p].at \in {"clearing", "pruning"} /\ proc[p].listed = {}
    /\ Go(p, IF At(p, "clearing") THEN "copy" ELSE "begin")
    /\ UNCHANGED <<db, tx, inode, dir, journal, alone, undo, faults>>

\* VACUUM INTO takes one snapshot and refuses to write over a file.  Until it
\* is complete the copy reads as an empty database.
CopyBegins(p) ==
    /\ At(p, "copy") /\ dir[Partial(p)] = NoFile /\ ~(Inodes \subseteq Used)
    /\ inode' = [inode EXCEPT ![FreeInode] = [copy |-> db, whole |-> FALSE, safe |-> FALSE]]
    /\ Change([dir EXCEPT ![Partial(p)] = FreeInode])
    /\ proc' = [proc EXCEPT ![p].at = "copying", ![p].file = FreeInode]
    /\ UNCHANGED <<db, tx, alone, undo, faults>>

CopyEnds(p) ==
    /\ At(p, "copying")
    /\ inode' = [inode EXCEPT ![proc[p].file].whole = TRUE, ![proc[p].file].safe = FALSE]
    /\ proc' = [proc EXCEPT ![p].at = "sync", ![p].file = NoFile]
    /\ UNCHANGED <<db, tx, dir, journal, alone, undo, faults>>

\* Wrong: the copy is renamed before it is on the disk.
SyncCopyForgotten(p) ==
    /\ At(p, "sync") /\ dir[Partial(p)] # NoFile
    /\ Go(p, "check")
    /\ UNCHANGED <<db, tx, inode, dir, journal, alone, undo, faults>>

\* syncFile opens the file by name.
SyncCopy(p) ==
    /\ At(p, "sync") /\ dir[Partial(p)] # NoFile
    /\ inode' = [inode EXCEPT ![dir[Partial(p)]].safe = TRUE]
    /\ Go(p, "check")
    /\ UNCHANGED <<db, tx, dir, journal, alone, undo, faults>>

\* fileUserVersion: the copy holds the version this start read.
StampOf(i) == IF inode[i].whole THEN inode[i].copy.stamp ELSE 0
\* Wrong: a database from before versioning is stamped 0 and called version 1.
CheckCopyFrom(p) ==
    /\ At(p, "check") /\ dir[Partial(p)] # NoFile
    /\ StampOf(dir[Partial(p)]) = proc[p].from
    /\ Go(p, "install")
    /\ UNCHANGED <<db, tx, inode, dir, journal, alone, undo, faults>>

CheckCopy(p) ==
    /\ At(p, "check") /\ dir[Partial(p)] # NoFile
    /\ StampOf(dir[Partial(p)]) = proc[p].seen
    /\ Go(p, "install")
    /\ UNCHANGED <<db, tx, inode, dir, journal, alone, undo, faults>>

Install(p) ==
    /\ At(p, "install") /\ dir[Partial(p)] # NoFile
    /\ Change([dir EXCEPT ![Backup(p)] = dir[Partial(p)], ![Partial(p)] = NoFile])
    /\ Go(p, "syncdir")
    /\ UNCHANGED <<db, tx, inode, alone, undo, faults>>

\* Wrong: the rename may be lost after the migration is committed.
SyncDataDirForgotten(p) ==
    /\ At(p, "syncdir")
    /\ Go(p, "prune")
    /\ UNCHANGED <<db, tx, inode, dir, journal, alone, undo, faults>>

SyncDataDir(p) ==
    /\ At(p, "syncdir")
    /\ journal' = <<dir>>
    /\ Go(p, "prune")
    /\ UNCHANGED <<db, tx, inode, dir, alone, undo, faults>>

---------------------------------------------------------------------------

\* apply: BEGIN IMMEDIATE waits for the other writer.
Begin(p) ==
    /\ At(p, "begin") /\ tx.by = "none"
    /\ tx' = [by |-> p, db |-> db]
    /\ Go(p, "recheck")
    /\ UNCHANGED <<db, inode, dir, journal, alone, undo, faults>>

\* Wrong: the version read before the lock is trusted.
RecheckForgotten(p) ==
    /\ At(p, "recheck")
    /\ Go(p, IF proc[p].legacy THEN "complete" ELSE "apply")
    /\ UNCHANGED <<db, tx, inode, dir, journal, alone, undo, faults>>

Recheck(p) ==
    /\ At(p, "recheck") /\ db.stamp = proc[p].seen
    /\ Go(p, IF proc[p].legacy THEN "complete" ELSE "apply")
    /\ UNCHANGED <<db, tx, inode, dir, journal, alone, undo, faults>>

\* completeLegacyTable: missing columns that have a default are added.
Complete(p) ==
    /\ At(p, "complete") /\ tx.db.jobs # "foreign"
    /\ tx' = [tx EXCEPT !.db.jobs = "whole"]
    /\ Go(p, "apply")
    /\ UNCHANGED <<db, inode, dir, journal, alone, undo, faults>>

\* The pending migrations one after another, whatever the database holds; 0001
\* creates the jobs table.
Apply(p) ==
    /\ At(p, "apply") /\ proc[p].next <= proc[p].image
    /\ tx' = [tx EXCEPT !.db.applied = Append(@, proc[p].next),
                        !.db.jobs = IF proc[p].next = 1 THEN "whole" ELSE @]
    /\ proc' = [proc EXCEPT ![p].next = @ + 1]
    /\ UNCHANGED <<db, inode, dir, journal, alone, undo, faults>>

Commit(p) ==
    /\ At(p, "apply") /\ proc[p].next > proc[p].image
    /\ db' = [tx.db EXCEPT !.stamp = proc[p].image]
    /\ undo' = IF proc[p].from > 0 /\ proc[p].from < proc[p].image THEN proc[p].from ELSE undo
    /\ tx' = NoTx
    /\ Exit(p, "open")
    /\ UNCHANGED <<inode, dir, journal, alone, faults>>

---------------------------------------------------------------------------

\* An error return: the transaction is rolled back, the partial copy removed,
\* and the process exits.
Copying == {"copy", "copying", "sync", "check", "install", "syncdir", "prune", "pruning"}
GiveUp(p) ==
    /\ tx' = IF tx.by = p THEN NoTx ELSE tx
    /\ Exit(p, "refused")
    /\ IF proc[p].at \in Copying /\ dir[Partial(p)] # NoFile
       THEN Change([dir EXCEPT ![Partial(p)] = NoFile])
       ELSE UNCHANGED <<dir, journal>>
    /\ UNCHANGED <<db, inode, alone, undo>>

\* What the volume itself refuses.
Refuses(p) ==
    /\ \/ At(p, "copy") /\ dir[Partial(p)] # NoFile
       \/ proc[p].at \in {"sync", "check", "install"} /\ dir[Partial(p)] = NoFile
       \/ At(p, "check") /\ dir[Partial(p)] # NoFile /\ StampOf(dir[Partial(p)]) # proc[p].seen
       \/ At(p, "recheck") /\ db.stamp # proc[p].seen
       \/ At(p, "complete") /\ tx.db.jobs = "foreign"
    /\ GiveUp(p)
    /\ UNCHANGED faults

\* Any statement or system call may fail: a full disk, a failed fsync, a lock
\* held for longer than the busy timeout.
Working(p) == proc[p].at \notin {"down", "open", "refused"}
Mishap ==
    /\ faults < IF alone THEN MaxFaults ELSE MaxSharedFaults
    /\ faults' = faults + 1
StepFails(p) ==
    /\ Working(p) /\ Mishap
    /\ GiveUp(p)

Kill(p) ==
    /\ Working(p) /\ Mishap
    /\ tx' = IF tx.by = p THEN NoTx ELSE tx
    /\ Exit(p, "refused")
    /\ UNCHANGED <<db, inode, dir, journal, alone, undo>>

\* Any contents since the last fsync survive, files not fsynced in part.
PowerLoss ==
    /\ alone /\ Mishap
    /\ \E i \in 1..Len(journal), torn \in SUBSET {j \in Used \ {NoFile} : ~inode[j].safe} :
        /\ dir' = journal[i]
        /\ journal' = <<journal[i]>>
        /\ inode' = [j \in Inodes |->
               IF j \in torn THEN [inode[j] EXCEPT !.whole = FALSE, !.safe = TRUE]
               ELSE [inode[j] EXCEPT !.safe = TRUE]]
    /\ tx' = NoTx
    /\ Exit("main", "refused")
    /\ UNCHANGED <<db, alone, undo>>

\* The platform starts the pod again, or rolls it to another image.
Restart ==
    /\ At("main", "refused")
    /\ proc' = [proc EXCEPT !["main"] = Down(@.image)]
    /\ UNCHANGED <<db, tx, inode, dir, journal, alone, undo, faults>>

Roll ==
    /\ ~Working("main") /\ Mishap
    /\ \E image \in Images \ {proc["main"].image} :
        proc' = [proc EXCEPT !["main"] = Down(image)]
    /\ UNCHANGED <<db, tx, inode, dir, journal, alone, undo>>

StartStep(p) ==
    \/ ReadVersion(p) \/ List(p) \/ RemoveListed(p) \/ Removed(p) \/ CopyBegins(p) \/ CopyEnds(p)
    \/ SyncCopy(p) \/ CheckCopy(p) \/ Install(p) \/ SyncDataDir(p)
    \/ Begin(p) \/ Recheck(p) \/ Complete(p) \/ Apply(p) \/ Commit(p) \/ Refuses(p)
StartProgress == Restart \/ \E p \in Procs : StartStep(p)

MigrateNext ==
    \/ StartProgress
    \/ \E p \in Procs : StepFails(p) \/ Kill(p)
    \/ PowerLoss \/ Roll

---------------------------------------------------------------------------

VersionOf(d) == IF d.stamp = 0 /\ d.jobs # "none" THEN 1 ELSE d.stamp
Upto(v) == [i \in 1..v |-> i]

\* gateway.db.v<N>.bak "is either complete or absent" (backup), whatever a
\* kill, a failing step or a power loss interrupted: an operator who restores
\* it gets a database of version N.
BackupWhole ==
    alone => \A v \in Versions :
        LET i == dir[<<v, "bak">>]
        IN  i # NoFile => inode[i].whole /\ VersionOf(inode[i].copy) = v

\* Once a migration has changed the data, the version it started from, or a
\* newer one the volume is at, can be restored even if the power fails now
\* (backup: only the newest copy is kept, and only once it is in place).
WayBack ==
    alone /\ undo > 0 => \A k \in 1..Len(journal) : \E v \in {undo, db.stamp} :
        LET i == journal[k][<<v, "bak">>]
        IN  i # NoFile /\ inode[i].whole /\ inode[i].safe

\* The version stamped is the schema the database has, each migration applied
\* once and in order, with two starts at once and with steps that fail (apply:
\* the version is read again under the lock).
SchemaTrue ==
    db.stamp > 0 => db.applied = Upto(db.stamp) /\ db.jobs = "whole"

\* The gateway runs, unless its image is older than the database or the table
\* is no build's.
Started ==
    \/ At("main", "open")
    \/ proc["main"].image < db.stamp
    \/ db.jobs = "foreign"
=============================================================================
