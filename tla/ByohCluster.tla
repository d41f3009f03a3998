---------------------------- MODULE ByohCluster ----------------------------
(***************************************************************************)
(* Byoh under its ByoCluster. Cluster API takes the infrastructure for     *)
(* ready when the ByoCluster is, and creates no Machine for a ByoCluster   *)
(* that is being deleted. The ByoMachine controller returns without an     *)
(* error, and without being queued again, when it cannot find the          *)
(* ByoCluster: a ByoMachine that outlives it is never reconciled.          *)
(***************************************************************************)
EXTENDS Byoh, ByoClusterController

cvars == <<vars, clusterVars>>

CInit == Init /\ ClusterInit

ReconcileInCluster(m) == byoCluster.phase # "gone" /\ Reconcile(m)

CreateMachineInCluster(m) == byoCluster.phase = "live" /\ CreateMachine(m)

InfrastructureReadyInCluster == byoCluster.ready /\ InfrastructureReady

CEnvironment ==
    \/ Refresh
    \/ PauseCluster
    \/ UnpauseCluster
    \/ InfrastructureReadyInCluster
    \/ \E m \in Machines : \/ CreateMachineInCluster(m)
                           \/ DataSecretReady(m)
                           \/ DeleteMachine(m)
                           \/ CollectConfig(m)

CNext ==
    \/ BmStep /\ UNCHANGED <<hr, ic, agent, clusterVars>>
    \/ \E m \in Machines : ReconcileInCluster(m) /\ UNCHANGED <<hr, ic, agent, clusterVars>>
    \/ HrNext /\ UNCHANGED <<bm, ic, agent, clusterVars>>
    \/ IcNext /\ UNCHANGED <<bm, hr, agent, clusterVars>>
    \/ AgentNext /\ UNCHANGED <<bm, hr, ic, clusterVars>>
    \/ CEnvironment /\ UNCHANGED <<bm, hr, ic, agent, clusterVars>>
    \/ ClusterReconcile /\ UNCHANGED vars
    \/ ClusterRequest /\ UNCHANGED vars
    \/ DeleteCluster /\ UNCHANGED vars
    \/ ClusterRequestFails /\ UNCHANGED vars

CSpec == CInit /\ [][CNext]_cvars

\* As in Byoh; the ByoCluster is queued by its own events and those of its
\* Cluster, and Cluster API deletes the Machines of a Cluster being deleted.
CFairness ==
    /\ WF_cvars(BmStep /\ UNCHANGED <<hr, ic, agent, clusterVars>>)
    /\ WF_cvars(HrNext /\ UNCHANGED <<bm, ic, agent, clusterVars>>)
    /\ WF_cvars(IcNext /\ UNCHANGED <<bm, hr, agent, clusterVars>>)
    /\ WF_cvars(Refresh /\ UNCHANGED <<bm, hr, ic, agent, clusterVars>>)
    /\ WF_cvars(UnpauseCluster /\ UNCHANGED <<bm, hr, ic, agent, clusterVars>>)
    /\ WF_cvars(InfrastructureReadyInCluster /\ UNCHANGED <<bm, hr, ic, agent, clusterVars>>)
    /\ WF_cvars((ClusterReconcile \/ ClusterRequest) /\ UNCHANGED vars)
    /\ \A m \in Machines :
         /\ SF_cvars(ReconcileInCluster(m) /\ UNCHANGED <<hr, ic, agent, clusterVars>>)
         /\ WF_cvars(DataSecretReady(m) /\ UNCHANGED <<bm, hr, ic, agent, clusterVars>>)
         /\ WF_cvars(byoCluster.phase = "deleting" /\ DeleteMachine(m)
                       /\ UNCHANGED <<bm, hr, ic, agent, clusterVars>>)
    /\ \A h \in Hosts : WF_cvars(AgentStep(h) /\ UNCHANGED <<bm, hr, ic, clusterVars>>)

CFairSpec == CSpec /\ CFairness

(***************************************************************************)
(* Properties                                                              *)
(***************************************************************************)
\* ClusterFinalizer: the ByoCluster stays until its last ByoMachine is gone,
\* which is what lets the ByoMachine controller give the hosts back.
ClusterOutlivesMachines ==
    byoCluster.phase = "gone" => \A m \in Machines : ~Exists(mach[m])

\* A ByoCluster under deletion goes in the end: it waits for its ByoMachines,
\* they wait for the ByoMachine controller to mark their hosts, and that
\* controller needs the ByoCluster; nobody waits in a circle.
ClusterGone == byoCluster.phase = "deleting" ~> byoCluster.phase = "gone"

============================================================================
