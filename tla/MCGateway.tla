------------------------------ MODULE MCGateway ------------------------------
(***************************************************************************)
(* A gateway process on its volume, in three scenes TLC explores side by   *)
(* side: its start (Migrate), the artifacts it stores (BlobStore), and its *)
(* service up to its end (Process, with its calls, Upstream).  No step of  *)
(* one scene reads the state of another.                                   *)
(***************************************************************************)
EXTENDS Migrate, BlobStore, Process

VARIABLE scene

gatewayVars == <<scene, migrateVars, storeVars, allVars>>

MCRecovered == <<"di">>

Init ==
    /\ scene \in {"start", "store", "serve"}
    /\ MigrateInit /\ StoreInit /\ ProcessInit
    /\ \A id \in Ids : shard[id] = Absent   \* one that stays is as one that was there
    /\ scene # "start" => alone /\ db = Fresh /\ proc["main"] = proc["second"]
    /\ scene # "start" => \A i \in Images : proc["main"].image <= i

Next ==
    \/ scene = "start" /\ MigrateNext /\ UNCHANGED <<scene, storeVars, allVars>>
    \/ scene = "store" /\ StoreNext /\ UNCHANGED <<scene, migrateVars, allVars>>
    \/ scene = "serve" /\ ProcessNext /\ UNCHANGED <<scene, migrateVars, storeVars>>

\* Starts: what can run does, and the platform starts a pod that ended again.
\* Store: system calls return, the sweep's ticker and the clock go on.
\* Service: see Progress; a select on an ended context and a ticker hears both.
\* The scene never changes, so that fairness of a disjunction is fairness of
\* the part of it that is the scene's.
Fairness ==
    /\ WF_gatewayVars(\/ scene = "start" /\ StartProgress /\ UNCHANGED <<scene, storeVars, allVars>>
                      \/ scene = "store" /\ Stores /\ UNCHANGED <<scene, migrateVars, allVars>>
                      \/ scene = "serve" /\ Progress /\ UNCHANGED <<scene, migrateVars, storeVars>>)
    /\ WF_gatewayVars(\/ scene = "store" /\ Sweeping /\ UNCHANGED <<scene, migrateVars, allVars>>
                      \/ scene = "serve" /\ GraceEnds /\ UNCHANGED <<scene, migrateVars, storeVars>>)
    /\ WF_gatewayVars(scene = "store" /\ Age /\ UNCHANGED <<scene, migrateVars, allVars>>)
    /\ SF_gatewayVars(scene = "serve" /\ DrainGivesUp /\ UNCHANGED <<scene, migrateVars, storeVars>>)

\* Whatever a start was cut short in, the next ones get past it (migrate: "the
\* next start finds the old version intact and tries again").
StartedAgain == <>[](scene = "start" => Started)

Spec == Init /\ [][Next]_gatewayVars /\ Fairness
=============================================================================
