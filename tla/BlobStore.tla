------------------------------ MODULE BlobStore ------------------------------
(***************************************************************************)
(* The artifacts of jobs on the volume (store/blob.go): written to a       *)
(* temporary file, fsynced, renamed, the directory fsynced; read only      *)
(* through a row; and collected by the sweeper when no row names them.     *)
(*                                                                         *)
(* Every id has a shard directory of its own, which its first artifact     *)
(* creates.  shards holds its contents since its last fsync: a power loss  *)
(* leaves any of them, and a file that was never fsynced torn.  Nothing    *)
(* fsyncs the directory a new shard is in, so that the shard may be absent *)
(* again.  Rows commit durably.                                            *)
(***************************************************************************)
EXTENDS Integers, FiniteSets

CONSTANTS
    NumIds,         \* job ids are 1..NumIds, in the order their names sort
    SweepBatch,     \* ids one sweep looks at (512 in recover.go:340)
    MaxWrites,      \* artifacts written
    MaxStoreFaults  \* failing calls, kills and power losses

ASSUME BlobStoreAssumption ==
    {NumIds, SweepBatch, MaxWrites, MaxStoreFaults} \subseteq Nat \ {0}

Ids == 1..NumIds
Kinds == {"in", "res"}
Files == 1..MaxWrites
Nothing == 0

VARIABLES
    file,     \* what each file written so far holds: all of it, fsynced, older than an hour
    shard,    \* for each id its directory: whether it is there, the file under each
              \* artifact's name, the temporary files
    shards,   \* for each id the contents its directory had since its last fsync
    row,      \* for each id the artifacts its row promises, {} when there is no row
    deleted,  \* ids whose row Delete has removed, and whose artifacts it has yet to
    writer,   \* each Writer: the id and kind it writes, and where it is
    sweeper,  \* where the sweep is, the ids it has still to look at, and its cursor
    mishaps

storeVars == <<file, shard, shards, row, deleted, writer, sweeper, mishaps>>

EmptyShard == [there |-> TRUE, final |-> [k \in Kinds |-> Nothing], tmp |-> {}]
Absent == [EmptyShard EXCEPT !.there = FALSE]
Unused == [at |-> "unused", id |-> Nothing, kind |-> "in"]

StoreInit ==
    /\ file = [f \in Files |-> [whole |-> FALSE, safe |-> FALSE, old |-> FALSE]]
    /\ shard \in [Ids -> {Absent, EmptyShard}]   \* earlier jobs may have left it
    /\ shards = [id \in Ids |-> {shard[id]}]
    /\ row = [id \in Ids |-> {}]
    /\ deleted = {}
    /\ writer = [f \in Files |-> Unused]
    /\ sweeper = [at |-> "idle", todo |-> {}, cursor |-> Nothing]
    /\ mishaps = 0

---------------------------------------------------------------------------

ChangeShard(id, s) ==
    /\ shard' = [shard EXCEPT ![id] = s]
    /\ shards' = [shards EXCEPT ![id] = @ \union {s}]

Move(f, place) == writer' = [writer EXCEPT ![f].at = place]
WriterAt(f, place) == writer[f].at = place
WithoutTmp(f) == [shard[writer[f].id] EXCEPT !.tmp = @ \ {f}]
WithFinal(f) == [WithoutTmp(f) EXCEPT !.final[writer[f].kind] = f]
Emptied(id) == IF shard[id].there THEN EmptyShard ELSE Absent

\* An input comes with a new id; a result from a job that runs, its row there
\* or not, which tries once to store it (finish).
NewId(id) == row[id] = {} /\ \A f \in Files : writer[f].id # id
Runs(f) == WriterAt(f, "run")
Create(id, k) ==
    /\ IF k = "in" THEN NewId(id) ELSE \E f \in Files : writer[f].id = id /\ Runs(f)
    /\ \E f \in Files :
        /\ WriterAt(f, "unused") /\ \A g \in Files : g < f => ~WriterAt(g, "unused")
        /\ writer' = [g \in Files |->
              IF g = f THEN [at |-> "write", id |-> id, kind |-> k]
              ELSE IF writer[g].id = id THEN [writer[g] EXCEPT !.at = "done"] ELSE writer[g]]
        /\ ChangeShard(id, [shard[id] EXCEPT !.there = TRUE, !.tmp = @ \union {f}])
    /\ UNCHANGED <<file, row, deleted, sweeper, mishaps>>

Write(f) ==
    /\ WriterAt(f, "write")
    /\ file' = [file EXCEPT ![f].whole = TRUE]
    /\ Move(f, "sync")
    /\ UNCHANGED <<shard, shards, row, deleted, sweeper, mishaps>>

\* Wrong: the content may be lost after the rename is durable.
SyncFileForgotten(f) ==
    /\ WriterAt(f, "sync")
    /\ Move(f, "rename")
    /\ UNCHANGED <<file, shard, shards, row, deleted, sweeper, mishaps>>

\* Commit, one system call after another.
SyncFile(f) ==
    /\ WriterAt(f, "sync")
    /\ file' = [file EXCEPT ![f].safe = TRUE]
    /\ Move(f, "rename")
    /\ UNCHANGED <<shard, shards, row, deleted, sweeper, mishaps>>

Rename(f) ==
    /\ WriterAt(f, "rename") /\ f \in shard[writer[f].id].tmp
    /\ ChangeShard(writer[f].id, WithFinal(f))
    /\ Move(f, "syncdir")
    /\ UNCHANGED <<file, row, deleted, sweeper, mishaps>>

\* syncDir: the names in the shard last, as long as the shard itself.
SyncShard(f) ==
    /\ WriterAt(f, "syncdir")
    /\ LET id == writer[f].id
       IN  shards' = [shards EXCEPT ![id] = {shard[id]} \union (@ \cap {Absent})]
    /\ Move(f, "stored")
    /\ UNCHANGED <<file, shard, row, deleted, sweeper, mishaps>>

\* Only a commit that returned no error lets the row name the artifact: an
\* input's row is created, a result's row no longer needs the input.
Promise(f) ==
    LET id == writer[f].id
    IN  /\ WriterAt(f, "stored") /\ (writer[f].kind = "res" => row[id] # {})
        /\ row' = [row EXCEPT ![id] = {writer[f].kind}]
        /\ Move(f, IF writer[f].kind = "in" THEN "run" ELSE "dropInput")
        /\ UNCHANGED <<file, shard, shards, deleted, sweeper, mishaps>>

DropInput(f) ==
    /\ WriterAt(f, "dropInput")
    /\ ChangeShard(writer[f].id, [shard[writer[f].id] EXCEPT !.final["in"] = Nothing])
    /\ Move(f, "done")
    /\ UNCHANGED <<file, row, deleted, sweeper, mishaps>>

\* The row went while its result was written: RemoveAll.
Discard(f) ==
    /\ WriterAt(f, "stored") /\ writer[f].kind = "res" /\ row[writer[f].id] = {}
    /\ ChangeShard(writer[f].id, Emptied(writer[f].id))
    /\ Move(f, "done")
    /\ UNCHANGED <<file, row, deleted, sweeper, mishaps>>

\* Whatever call fails, the temporary file is removed; a failing fsync of the
\* directory comes after the rename.  Abort when a write fails or exceeds its
\* limit.  A rename fails when RemoveAll took the temporary file.  A submit
\* then removes every artifact of its id.
CommitFails(f) ==
    /\ \/ /\ writer[f].at \in {"write", "sync", "rename", "syncdir"}
          /\ mishaps < MaxStoreFaults /\ mishaps' = mishaps + 1
       \/ WriterAt(f, "rename") /\ f \notin shard[writer[f].id].tmp /\ UNCHANGED mishaps
    /\ ChangeShard(writer[f].id, IF writer[f].kind = "in" THEN Emptied(writer[f].id) ELSE WithoutTmp(f))
    /\ Move(f, "done")
    /\ UNCHANGED <<file, row, deleted, sweeper>>

\* submit: the row of a stored input cannot be created.
CreateRowFails(f) ==
    /\ WriterAt(f, "stored") /\ writer[f].kind = "in"
    /\ mishaps < MaxStoreFaults /\ mishaps' = mishaps + 1
    /\ ChangeShard(writer[f].id, Emptied(writer[f].id))
    /\ Move(f, "done")
    /\ UNCHANGED <<file, row, deleted, sweeper>>

\* Store.Delete: the row first, then every artifact; what cannot be removed is
\* left to the sweeper.
DeleteRow(id) ==
    /\ row[id] # {}
    /\ row' = [row EXCEPT ![id] = {}]
    /\ deleted' = deleted \union {id}
    /\ UNCHANGED <<file, shard, shards, writer, sweeper, mishaps>>

DeleteArtifacts(id) ==
    /\ id \in deleted
    /\ deleted' = deleted \ {id}
    /\ \/ ChangeShard(id, Emptied(id)) /\ UNCHANGED mishaps
       \/ /\ mishaps < MaxStoreFaults /\ mishaps' = mishaps + 1
          /\ UNCHANGED <<shard, shards>>
    /\ UNCHANGED <<file, row, writer, sweeper>>

---------------------------------------------------------------------------

SweepAt(place) == sweeper.at = place
Old(id) == LET s == shard[id]
               present == (s.tmp \union {s.final[k] : k \in Kinds}) \ {Nothing}
           IN  present # {} /\ \A f \in present : file[f].old

\* SweepTemp: temporary files more than an hour old.
SweepTemp ==
    /\ SweepAt("idle")
    /\ sweeper' = [sweeper EXCEPT !.at = "scan"]
    /\ LET kept(id) == [shard[id] EXCEPT !.tmp = {f \in @ : ~file[f].old}]
       IN  /\ shard' = [id \in Ids |-> kept(id)]
           /\ shards' = [id \in Ids |-> shards[id] \union {kept(id)}]
    /\ UNCHANGED <<file, row, deleted, writer, mishaps>>

\* IDs: the first ids after the cursor that have an artifact; the cursor
\* starts over after a short batch (sweepOrphanBlobs).
HasArtifact(id) == \E k \in Kinds : shard[id].final[k] # Nothing
After(cursor) == {id \in Ids : id > cursor /\ HasArtifact(id)}
Scanned == {id \in After(sweeper.cursor) :
               Cardinality({i \in After(sweeper.cursor) : i <= id}) <= SweepBatch}
CursorForgotten(ids) == Nothing   \* wrong: every sweep looks at the same ids
NextCursor(ids) ==
    IF Cardinality(ids) < SweepBatch THEN Nothing
    ELSE CHOOSE id \in ids : \A i \in ids : i <= id
ScanIds ==
    /\ SweepAt("scan")
    /\ sweeper' = [at |-> "orphans", todo |-> Scanned, cursor |-> NextCursor(Scanned)]
    /\ UNCHANGED <<file, shard, shards, row, deleted, writer, mishaps>>

\* The first id left: kept when a row may name it or something is recent.
First(ids) == CHOOSE id \in ids : \A i \in ids : id <= i
SkipId ==
    /\ SweepAt("orphans") /\ sweeper.todo # {}
    /\ LET id == First(sweeper.todo)
       IN  /\ \/ row[id] # {} \/ ~Old(id)
              \/ mishaps < MaxStoreFaults   \* Exists, or a removal, fails
           /\ mishaps' = IF row[id] # {} \/ ~Old(id) THEN mishaps ELSE mishaps + 1
           /\ sweeper' = [sweeper EXCEPT !.todo = @ \ {id}]
    /\ UNCHANGED <<file, shard, shards, row, deleted, writer>>

RemoveOrphan ==
    /\ SweepAt("orphans") /\ sweeper.todo # {}
    /\ LET id == First(sweeper.todo)
       IN  /\ row[id] = {} /\ Old(id)
           /\ ChangeShard(id, Emptied(id))
           /\ sweeper' = [sweeper EXCEPT !.todo = @ \ {id}]
    /\ UNCHANGED <<file, row, deleted, writer, mishaps>>

SweepEnds ==
    /\ SweepAt("orphans") /\ sweeper.todo = {}
    /\ sweeper' = [sweeper EXCEPT !.at = "idle"]
    /\ UNCHANGED <<file, shard, shards, row, deleted, writer, mishaps>>

---------------------------------------------------------------------------

\* An hour passes for every file that is not being written or about to be
\* named by a row: the longest upstream timeout bounds both (recover.go:212).
Age ==
    /\ file' = [f \in Files |-> [file[f] EXCEPT !.old = @ \/ writer[f].at \in {"run", "done"}]]
    /\ file' # file
    /\ UNCHANGED <<shard, shards, row, deleted, writer, sweeper, mishaps>>

\* The next process runs a job that has a row and its input again.
Stopped ==
    /\ writer' = [f \in Files |->
          IF WriterAt(f, "unused") THEN Unused
          ELSE LET id == writer[f].id
                   again == "in" \in row[id] /\ shard'[id].final["in"] = f
               IN  [writer[f] EXCEPT !.at = IF again THEN "run" ELSE "done"]]
    /\ sweeper' = [at |-> "idle", todo |-> {}, cursor |-> Nothing]
    /\ deleted' = {}

KillStore ==
    /\ mishaps < MaxStoreFaults
    /\ mishaps' = mishaps + 1
    /\ UNCHANGED <<file, shard, shards, row>>
    /\ Stopped

StorePowerLoss ==
    /\ mishaps < MaxStoreFaults
    /\ mishaps' = mishaps + 1
    /\ shard' \in [Ids -> UNION {shards[id] : id \in Ids}] /\ \A id \in Ids : shard'[id] \in shards[id]
    /\ shards' = [id \in Ids |-> {shard'[id]}]
    /\ \E torn \in SUBSET {f \in Files : ~file[f].safe} :
        file' = [f \in Files |->
            IF f \in torn THEN [file[f] EXCEPT !.whole = FALSE] ELSE file[f]]
    /\ Stopped
    /\ UNCHANGED row

Writing(f) ==
    Write(f) \/ SyncFile(f) \/ Rename(f) \/ SyncShard(f) \/ Promise(f) \/ DropInput(f) \/ Discard(f) \/ CommitFails(f)
    \/ CreateRowFails(f)
Stores == (\E f \in Files : Writing(f)) \/ \E id \in Ids : DeleteArtifacts(id)
Sweeping == SweepTemp \/ ScanIds \/ SkipId \/ RemoveOrphan \/ SweepEnds

StoreNext ==
    \/ \E id \in Ids : DeleteRow(id) \/ \E k \in Kinds : Create(id, k)
    \/ Stores \/ Sweeping \/ Age \/ KillStore \/ StorePowerLoss

---------------------------------------------------------------------------

\* "A reader therefore never observes a partial file" (BlobStore): what is
\* under an artifact's name is complete, after a power loss too.  And what a
\* row names is there and stays there, whatever fails or stops, as long as its
\* shard is: the row was written because Commit returned.
ArtifactsWhole ==
    \A id \in Ids, k \in Kinds :
        /\ shard[id].final[k] # Nothing => file[shard[id].final[k]].whole
        /\ k \in row[id] => \A s \in shards[id] : s.there =>
               LET f == s.final[k]
               IN  f # Nothing /\ file[f].whole /\ file[f].safe

\* "Commit fsyncs the content, renames it into place, and fsyncs the directory
\* so the rename itself is durable.  After Commit the blob is visible and
\* complete, or it does not exist at all" (Commit): what a row names is there.
CommitLasts == \A id \in Ids, k \in Kinds : k \in row[id] => shard[id].final[k] # Nothing

\* What a crash or a failed removal leaves on the volume is collected, however
\* many live artifacts sort before it (IDs: the cursor sweeps the whole store;
\* SweepTemp).
LeftoversSwept ==
    <>[](\A id \in Ids : shard[id].tmp = {} /\ (row[id] = {} => ~HasArtifact(id)))
=============================================================================
