--------------------------- MODULE ClusterProofs ---------------------------
(***************************************************************************)
(* Proofs about ByohCluster. The composition takes only steps of Byoh, so  *)
(* what is proved of Byoh holds under a ByoCluster; and the finalizer of   *)
(* the ByoCluster does what it is there for where the controller lists the *)
(* ByoMachines as they are.                                                *)
(***************************************************************************)
EXTENDS ByohCluster, ReservationProofs

(***************************************************************************)
(* Byoh under a ByoCluster is Byoh.                                        *)
(***************************************************************************)
\* Every step of the composition is a step of Byoh or leaves Byoh alone.
LEMMA StepOfByoh == [CNext]_cvars => [Next]_vars
<1> SUFFICES ASSUME [CNext]_cvars PROVE [Next]_vars
  OBVIOUS
<1>1. CASE BmStep /\ UNCHANGED <<hr, ic, agent, clusterVars>>
  BY <1>1 DEF Next, BmNext
<1>2. CASE \E m \in Machines : ReconcileInCluster(m) /\ UNCHANGED <<hr, ic, agent, clusterVars>>
  BY <1>2 DEF Next, BmNext, ReconcileInCluster
<1>3. CASE CEnvironment /\ UNCHANGED <<bm, hr, ic, agent, clusterVars>>
  BY <1>3 DEF Next, Environment, CEnvironment, InfrastructureReadyInCluster,
              CreateMachineInCluster
<1> QED BY <1>1, <1>2, <1>3 DEF CNext, Next, cvars

\* The ByoCluster controller changes which of the behaviours of Byoh happen,
\* and adds none.
THEOREM ClusterRefines == CSpec => Spec
<1>1. CInit => Init
  BY DEF CInit
<1> QED BY <1>1, StepOfByoh, PTL DEF CSpec, Spec

\* The labels and the bootstrap secret of a host agree under a ByoCluster too.
THEOREM ClusterReservationSafe == CSpec => []ReservationCoherent
BY ClusterRefines, ReservationSafe, PTL

(***************************************************************************)
(* The finalizer of the ByoCluster.                                        *)
(***************************************************************************)
\* No ByoMachine is on the API server.
NoMachines == \A m \in Machines : ~Exists(mach[m])

\* The reconcile in progress is about to take the finalizer away.
Letting == bc.pc = "object" /\ bc.read.finalizer /\ ~bc.new.finalizer

\* The inductive invariant: a ByoCluster under deletion has its finalizer, and
\* a reconcile on its way to remove it, like a ByoCluster that is gone, leaves
\* no ByoMachine behind. Types included.
ClusterInv ==
    /\ byoCluster \in ByoCluster /\ bc \in BcState
    /\ byoCluster.phase = "deleting" => byoCluster.finalizer
    /\ Letting => byoCluster.phase # "live" /\ NoMachines
    /\ byoCluster.phase = "gone" => NoMachines

\* No step brings a ByoMachine once the ByoCluster is being deleted: none but
\* CreateMachine makes one, and the API server writes to none that is gone.
LEMMA NoNewMachines ==
    ASSUME TypeOK, NoMachines, byoCluster.phase # "live", [CNext]_cvars
    PROVE  NoMachines'
<1> USE DEF NoMachines
<1>1. CASE UNCHANGED mach
  BY <1>1
<1>2. CASE \E m \in Machines : DeleteMachine(m)
  BY <1>2 DEF DeleteMachine, Exists
<1>3. ASSUME NEW o, NEW new, NEW next, PatchMachine(o, new, next)
      PROVE  NoMachines'
  <2>1. CASE bm.m \in Machines
    BY <1>3, <2>1 DEF PatchMachine
  <2>2. CASE bm.m \notin Machines
    <3>1. mach' = mach \/ mach' = [mach EXCEPT ![bm.m] = new]
      BY <1>3 DEF PatchMachine
    <3> QED BY <2>2, <3>1 DEF TypeOK, ApiTypeOK
  <2> QED BY <2>1, <2>2
<1>4. CASE BmStep \/ \E m \in Machines : ReconcileInCluster(m)
  <2>1. CASE patchMachineConditions \/ patchMachineObject \/ patchMachineStatus
    BY <1>3, <2>1 DEF patchMachineConditions, patchMachineObject, patchMachineStatus
  <2>2. CASE \E m \in Machines : ReconcileInCluster(m)
    BY <1>1, <2>2 DEF ReconcileInCluster, Reconcile, apiVars
  <2>3. CASE createInstallerConfig \/ updateNodeProviderID
    BY <1>1, <2>3 DEF createInstallerConfig, updateNodeProviderID
  <2>4. CASE \/ setPausedConditionForByoHost \/ unsetPausedConditionForByoHost
             \/ markHostForCleanup \/ attachByoHost \/ attachByoHostStatus
             \/ setInstallationSecretForByoHost \/ setUninstallationSecretForByoHost
    <3>1. \E o, new, ok, failed : PatchHost(o, new, ok, failed)
      BY <2>4, Zenon DEF setPausedConditionForByoHost, unsetPausedConditionForByoHost,
              markHostForCleanup, attachByoHost, attachByoHostStatus,
              setInstallationSecretForByoHost, setUninstallationSecretForByoHost
    <3> QED BY <1>1, <3>1 DEF PatchHost
  <2> QED BY <1>4, <2>1, <2>2, <2>3, <2>4 DEF BmStep
<1>5. CASE HrNext \/ IcNext
  BY <1>1, <1>5 DEF HrNext, HrStep, deleteUninstallSecret, clearUninstallReference,
                    HostReconcile, IcNext, IcStep, ConfigReconcile, storeInstallSecret,
                    storeUninstallSecret, patchConfig, deleteConfig, apiVars
<1>6. CASE AgentNext
  <2>1. PICK h \in Hosts : AgentStep(h) \/ AgentCrash(h)
    BY <1>6 DEF AgentNext
  <2>2. CASE AgentReconcile(h) \/ getBootstrapScript(h) \/ AgentCrash(h)
    BY <1>1, <2>2 DEF AgentReconcile, getBootstrapScript, AgentCrash, OnHost
  <2>3. CASE patchHostConditions(h) \/ patchHostObject(h) \/ patchHostStatus(h)
    BY <1>1, <2>3 DEF patchHostConditions, patchHostObject, patchHostStatus, PatchAgentHost
  <2>4. CASE \/ executeInstallerController(h) \/ bootstrapK8sNode(h) \/ resetNode(h)
             \/ executeUninstallScript(h) \/ removeAnnotations(h)
    BY <1>1, <2>4 DEF executeInstallerController, bootstrapK8sNode, resetNode,
                      executeUninstallScript, removeAnnotations, OnHost
  <2> QED BY <2>1, <2>2, <2>3, <2>4 DEF AgentStep
<1>7. CASE CEnvironment
  <2>1. CASE Refresh \/ PauseCluster \/ UnpauseCluster \/ InfrastructureReadyInCluster
    BY <1>1, <2>1 DEF Refresh, RefreshHost, RefreshMachine, PauseCluster, UnpauseCluster,
                      InfrastructureReadyInCluster, InfrastructureReady
  <2>2. CASE \E m \in Machines : DataSecretReady(m) \/ CollectConfig(m)
    BY <1>1, <2>2 DEF DataSecretReady, CollectConfig
  <2> QED BY <1>2, <1>7, <2>1, <2>2 DEF CEnvironment, CreateMachineInCluster
<1> QED BY <1>1, <1>4, <1>5, <1>6, <1>7 DEF CNext, cvars, vars, apiVars

\* The ByoCluster controller and the deletion of the ByoCluster keep the
\* invariant: what the finalizer is removed on was read in this very state.
LEMMA ClusterSteps ==
    ASSUME SameName, "ByoMachine" \notin Stale, ClusterInv, UNCHANGED vars,
           ClusterReconcile \/ ClusterRequest \/ ClusterRequestFails \/ DeleteCluster
    PROVE  ClusterInv'
<1>1. NoMachines' = NoMachines
  BY DEF vars, apiVars, NoMachines
<1>2. CASE ClusterReconcile
  <2>1. \A c \in ByoCluster : /\ reconcileClusterDelete(c) \in ByoCluster
                              /\ reconcileClusterNormal(c) \in ByoCluster
                              /\ reconcileClusterNormal(c).finalizer
                              /\ \/ reconcileClusterDelete(c) = c
                                 \/ NoMachines
    BY DEF reconcileClusterDelete, reconcileClusterNormal, GetByoMachinesInCluster, MachView,
           NoMachines, ByoCluster
  <2>2. bc' \in BcState
    BY <1>2, <2>1 DEF ClusterReconcile, ClusterInv, BcState
  <2>3. Letting' => byoCluster.phase = "deleting" /\ NoMachines
    BY <1>2, <2>1 DEF ClusterReconcile, ClusterInv, Letting
  <2> QED BY <1>1, <1>2, <2>2, <2>3 DEF ClusterReconcile, ClusterInv
<1>3. CASE patchClusterObject
  <2> DEFINE merged == [byoCluster EXCEPT
                          !.finalizer = Merge(@, bc.read.finalizer, bc.new.finalizer),
                          !.port = Merge(@, bc.read.port, bc.new.port)]
  <2>1. /\ merged \in ByoCluster /\ merged.phase = byoCluster.phase
        /\ merged.finalizer = Merge(byoCluster.finalizer, bc.read.finalizer, bc.new.finalizer)
    BY DEF ClusterInv, BcState, ByoCluster, Merge
  <2>2. byoCluster.finalizer /\ ~merged.finalizer => Letting
    BY <1>3, <2>1 DEF patchClusterObject, ClusterInv, BcState, ByoCluster, Merge, Letting
  <2>3. ~Letting' /\ bc' \in BcState
    BY <1>3 DEF patchClusterObject, ClusterInv, BcState, BcIdle, NewCluster, ByoCluster, Letting
  <2>4. CASE byoCluster.phase = "gone"
    BY <1>1, <1>3, <2>3, <2>4 DEF patchClusterObject, ClusterInv
  <2>5. CASE byoCluster.phase = "live"
    BY <1>3, <2>1, <2>3, <2>5 DEF patchClusterObject, ClusterInv
  <2>6. CASE byoCluster.phase = "deleting"
    <3>1. byoCluster.finalizer
      BY <2>6 DEF ClusterInv
    <3>2. byoCluster' = [merged EXCEPT !.phase = IF merged.finalizer THEN @ ELSE "gone"]
      BY <1>3, <2>6, <3>1 DEF patchClusterObject
    <3>3. ~merged.finalizer => NoMachines
      BY <2>2, <3>1 DEF ClusterInv
    <3> HIDE DEF merged
    <3> QED BY <1>1, <2>1, <2>3, <2>6, <3>2, <3>3 DEF ClusterInv, ByoCluster
  <2> QED BY <2>4, <2>5, <2>6 DEF ClusterInv, ByoCluster
<1>4. CASE patchClusterStatus
  BY <1>1, <1>4 DEF patchClusterStatus, ClusterInv, BcState, BcIdle, NewCluster, ByoCluster,
                    Merge, Letting
<1>5. CASE ClusterRequestFails
  BY <1>1, <1>5 DEF ClusterRequestFails, ClusterInv, BcState, BcIdle, NewCluster, ByoCluster,
                    Letting
<1>6. CASE DeleteCluster
  BY <1>1, <1>6 DEF DeleteCluster, ClusterInv, ByoCluster, Letting, NoMachines
<1> QED BY <1>2, <1>3, <1>4, <1>5, <1>6 DEF ClusterRequest

\* The invariant holds throughout, where the ByoCluster has the name of its
\* Cluster and the manager's copies of the ByoMachines do not lag.
THEOREM ClusterInvariant ==
    ASSUME SameName, "ByoMachine" \notin Stale
    PROVE  CSpec => []ClusterInv
<1>1. CInit => ClusterInv
  BY DEF CInit, ClusterInit, Init, ApiInit, ClusterInv, NewCluster, BcIdle, ByoCluster,
         BcState, Letting
<1>2. TypeOK /\ ClusterInv /\ [CNext]_cvars => ClusterInv'
  <2> SUFFICES ASSUME TypeOK, ClusterInv, [CNext]_cvars PROVE ClusterInv'
    OBVIOUS
  <2>1. CASE UNCHANGED clusterVars
    BY <2>1, NoNewMachines DEF ClusterInv, clusterVars, Letting
  <2> QED BY <2>1, ClusterSteps DEF CNext, cvars
<1> QED BY <1>1, <1>2, ClusterRefines, TypeCorrect, PTL DEF CSpec

\* ClusterFinalizer keeps the ByoCluster until its last ByoMachine is gone, for
\* any number of hosts, ByoMachines, faults and failed requests.
THEOREM ClusterOutlives ==
    ASSUME SameName, "ByoMachine" \notin Stale
    PROVE  CSpec => []ClusterOutlivesMachines
<1>1. ClusterInv => ClusterOutlivesMachines
  BY DEF ClusterInv, ClusterOutlivesMachines, NoMachines
<1> QED BY <1>1, ClusterInvariant, PTL

============================================================================
