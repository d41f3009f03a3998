------------------------ MODULE ByoClusterController ------------------------
(***************************************************************************)
(* The ByoCluster controller of the manager process. A reconcile reads the *)
(* ByoCluster and, when it is being deleted, the list of its ByoMachines;  *)
(* what it changes goes out as one patch of metadata and spec and one of   *)
(* the status.                                                             *)
(***************************************************************************)
EXTENDS ByohApi

CONSTANT SameName   \* the ByoCluster has the name of its Cluster

ASSUME ClusterAssumption == SameName \in BOOLEAN

VARIABLES
    byoCluster,   \* the ByoCluster object
    bc,           \* the reconcile in progress: what it read and what it made of it
    bcFaults      \* how many of its requests failed so far

clusterVars == <<byoCluster, bc, bcFaults>>

ByoCluster == [phase : {"live", "deleting", "gone"},
               finalizer : BOOLEAN,
               port : BOOLEAN,        \* Spec.ControlPlaneEndpoint.Port is set
               ready : BOOLEAN]       \* Status.Ready

NewCluster == [phase |-> "live", finalizer |-> FALSE, port |-> FALSE, ready |-> FALSE]

BcState == [pc : {"idle", "object", "status"}, read : ByoCluster, new : ByoCluster]

BcIdle == [pc |-> "idle", read |-> NewCluster, new |-> NewCluster]

ClusterInit == byoCluster = NewCluster /\ bc = BcIdle /\ bcFaults = 0

\* ByoMachines carry the name of their Cluster; the controller selects them
\* by the name of the ByoCluster.
GetByoMachinesInCluster == {m \in Machines : SameName /\ Exists(MachView(m))}

\* A wrong reconcileDelete, which does not wait for the ByoMachines.
deleteAtOnce(c) == [c EXCEPT !.finalizer = FALSE]

\* ByoMachines that remain: look again in ten seconds.
reconcileClusterDelete(c) ==
    IF GetByoMachinesInCluster = {} THEN [c EXCEPT !.finalizer = FALSE] ELSE c

reconcileClusterNormal(c) == [c EXCEPT !.finalizer = TRUE, !.port = TRUE, !.ready = TRUE]

\* A wrong Reconcile, which does not look at the deletion timestamp.
ReconcileAsNew ==
    /\ bc.pc = "idle"
    /\ byoCluster.phase # "gone"
    /\ ~clusterPaused
    /\ reconcileClusterNormal(byoCluster) # byoCluster
    /\ bc' = [pc |-> "object", read |-> byoCluster, new |-> reconcileClusterNormal(byoCluster)]
    /\ UNCHANGED <<byoCluster, bcFaults>>

\* A reconcile that changes nothing sends nothing.
ClusterReconcile ==
    LET new == IF byoCluster.phase = "deleting"
                 THEN reconcileClusterDelete(byoCluster)
                 ELSE reconcileClusterNormal(byoCluster)
    IN /\ bc.pc = "idle"
       /\ byoCluster.phase # "gone"
       /\ ~clusterPaused
       /\ new # byoCluster
       /\ bc' = [pc |-> "object", read |-> byoCluster, new |-> new]
       /\ UNCHANGED <<byoCluster, bcFaults>>

\* The API server refuses a new finalizer on an object that is being deleted,
\* and drops the object with its last finalizer. The status goes out whether
\* or not this request failed.
patchClusterObject ==
    /\ bc.pc = "object"
    /\ LET merged == [byoCluster EXCEPT
                        !.finalizer = Merge(@, bc.read.finalizer, bc.new.finalizer),
                        !.port = Merge(@, bc.read.port, bc.new.port)]
       IN byoCluster' = CASE byoCluster.phase = "gone" -> byoCluster
                          [] byoCluster.phase = "live" -> merged
                          [] merged.finalizer /\ ~byoCluster.finalizer -> byoCluster
                          [] OTHER -> [merged EXCEPT !.phase =
                                         IF merged.finalizer THEN @ ELSE "gone"]
    /\ bc' = IF bc.read.ready = bc.new.ready THEN BcIdle ELSE [bc EXCEPT !.pc = "status"]
    /\ bcFaults' = bcFaults

patchClusterStatus ==
    /\ bc.pc = "status"
    /\ byoCluster' = IF byoCluster.phase = "gone" THEN byoCluster
                     ELSE [byoCluster EXCEPT !.ready = Merge(@, bc.read.ready, bc.new.ready)]
    /\ bc' = BcIdle
    /\ bcFaults' = bcFaults

ClusterRequest == patchClusterObject \/ patchClusterStatus

\* A request that never reaches the API server ends the reconcile with an
\* error (as does a manager that stops), and it starts over.
ClusterRequestFails ==
    /\ bc.pc # "idle"
    /\ "clusterApi" \in FaultKinds /\ bcFaults < MaxFaults
    /\ bcFaults' = bcFaults + 1
    /\ bc' = BcIdle
    /\ byoCluster' = byoCluster

\* A user deletes the ByoCluster, or Cluster API does; one that was never
\* reconciled goes at once, and is not deleted under its ByoMachines.
DeleteCluster ==
    /\ byoCluster.phase = "live"
    /\ byoCluster.finalizer \/ \A m \in Machines : ~Exists(mach[m])
    /\ byoCluster' = [byoCluster EXCEPT !.phase = IF byoCluster.finalizer THEN "deleting"
                                                  ELSE "gone"]
    /\ UNCHANGED <<bc, bcFaults>>

============================================================================
