------------------------------ MODULE ByohApi ------------------------------
(***************************************************************************)
(* The management cluster's API server as the BYOH controllers and the     *)
(* host agents see it: the ByoHost, ByoMachine and K8sInstallerConfig      *)
(* objects, the secrets they refer to, the informer cache of the manager   *)
(* process, the work queue of each agent, and the calls that change them.  *)
(* Every component module extends this one.                                *)
(***************************************************************************)
EXTENDS Naturals

CONSTANTS
    Hosts,          \* the registered ByoHosts
    Machines,       \* the ByoMachines created over the lifetime of the system
    None,           \* the nil reference
    WithInstaller,  \* the ByoMachines whose Spec.InstallerRef is set
    SkipInstall,    \* the hosts whose agent runs with --skip-installation
    Stale,          \* the kinds of object the manager reads from a lagging cache
    FaultKinds,     \* the kinds of fault that may happen
    MaxFaults       \* how many faults a behaviour may hold

ASSUME ByohAssumption ==
    /\ None \notin Machines
    /\ None \notin Hosts
    /\ WithInstaller \subseteq Machines
    /\ SkipInstall \subseteq Hosts
    /\ Stale \subseteq {"ByoHost", "ByoMachine"}
    /\ FaultKinds \subseteq {"managerApi", "agentApi", "script", "managerCrash",
                            "agentCrash", "pause", "clusterApi"}
    /\ MaxFaults \in Nat

VARIABLES
    host,             \* the ByoHost objects
    mach,             \* the ByoMachine objects
    gate,             \* what Cluster API has ready for the ByoMachines
    clusterPaused,    \* Cluster.Spec.Paused
    config,           \* the K8sInstallerConfig of each ByoMachine
    installSecret,    \* the byoh-install-<machine> secrets that exist
    uninstallSecret,  \* the byoh-uninstall-<machine> secrets that exist
    hostCache,        \* the manager's cached copy of every ByoHost
    machCache,        \* the manager's cached copy of every ByoMachine
    queued,           \* the agent's work queue holds its host
    faults,           \* the number of faults so far
    node              \* the software on each host: components, cluster membership

apiVars == <<host, mach, gate, clusterPaused, config, installSecret,
             uninstallSecret, hostCache, machCache, queued, faults, node>>

(***************************************************************************)
(* Objects                                                                 *)
(***************************************************************************)
Owner == Machines \cup {None}

\* A secret reference is named by the ByoMachine the secret was made for.
ByoHost == [attached : Owner,               \* AttachedByoMachineLabel
            cluster : BOOLEAN,              \* ClusterNameLabel is present
            bootstrapSecret : Owner,
            installationSecret : Owner,
            uninstallationSecret : Owner,
            machineRef : Owner,
            cleanup : BOOLEAN,              \* HostCleanupAnnotation
            paused : BOOLEAN,               \* PausedAnnotation
            installed : BOOLEAN,            \* K8sComponentsInstallationSucceeded
            bootstrapped : BOOLEAN]         \* K8sNodeBootstrapSucceeded

NewHost == [attached |-> None, cluster |-> FALSE, bootstrapSecret |-> None,
            installationSecret |-> None, uninstallationSecret |-> None,
            machineRef |-> None, cleanup |-> FALSE, paused |-> FALSE,
            installed |-> FALSE, bootstrapped |-> FALSE]

\* The status of the condition BYOHostReady: Unset, True, or the reason it is False.
Reasons == {"Unset", "True", "ClusterOrResourcePaused",
            "WaitingForClusterInfrastructure", "WaitingForBootstrapDataSecret",
            "BYOHostsUnavailable", "InstallationSecretNotAvailable"}

\* The ByoMachine whose components are installed on a host, and the one whose
\* bootstrap data made it a node of the workload cluster.
Node == [components : Owner, joined : Owner]

NewNode == [components |-> None, joined |-> None]

ByoMachine == [phase : {"absent", "live", "deleting", "gone"},
               finalizer : BOOLEAN,
               reason : Reasons,
               hostInfo : BOOLEAN,      \* Status.HostInfo is copied from the host
               providerID : BOOLEAN,    \* Spec.ProviderID is set
               ready : BOOLEAN]

NewMachine == [phase |-> "absent", finalizer |-> FALSE, reason |-> "Unset",
               hostInfo |-> FALSE, providerID |-> FALSE, ready |-> FALSE]

Exists(m) == m.phase \in {"live", "deleting"}

\* What Cluster API removes some time after the ByoMachine is gone (its
\* bootstrap secret, its Node in the workload cluster) may still be found.
Found(m) == IF mach[m].phase = "gone" THEN BOOLEAN ELSE {TRUE}

(***************************************************************************)
(* Calls                                                                   *)
(***************************************************************************)
Fault(kind) == kind \in FaultKinds /\ faults < MaxFaults /\ faults' = faults + 1

\* A call succeeds, fails, or takes effect while its answer is lost.
Outcomes == {"ok", "failed", "lost"}

Call(o, client) == IF o = "ok" THEN faults' = faults ELSE Fault(client)

\* A merge patch carries the fields that differ between the copy the caller
\* read and the copy it changed, and no resource version.
Merge(current, before, after) == IF before = after THEN current ELSE after

\* patch.Helper sends up to three requests, each of them whether or not the
\* one before it failed: conditions, then metadata and spec, then status.
PatchConditions(c, b, a) ==
    [c EXCEPT !.installed = Merge(@, b.installed, a.installed),
              !.bootstrapped = Merge(@, b.bootstrapped, a.bootstrapped)]

PatchObject(c, b, a) ==
    [c EXCEPT !.attached = Merge(@, b.attached, a.attached),
              !.cluster = Merge(@, b.cluster, a.cluster),
              !.bootstrapSecret = Merge(@, b.bootstrapSecret, a.bootstrapSecret),
              !.installationSecret = Merge(@, b.installationSecret, a.installationSecret),
              !.uninstallationSecret = Merge(@, b.uninstallationSecret, a.uninstallationSecret),
              !.cleanup = Merge(@, b.cleanup, a.cleanup),
              !.paused = Merge(@, b.paused, a.paused)]

PatchStatus(c, b, a) == [c EXCEPT !.machineRef = Merge(@, b.machineRef, a.machineRef)]

\* A request that changes host h to `new` with outcome o. The watch of the
\* agent queues its host unless the new object is paused.
WriteHost(h, new, o, client) ==
    /\ Call(o, client)
    /\ host' = IF o = "failed" THEN host ELSE [host EXCEPT ![h] = new]
    /\ queued' = [queued EXCEPT ![h] = @ \/ (host'[h] # host[h] /\ ~host'[h].paused)]

(***************************************************************************)
(* Cached reads: mgr.GetClient() answers Get and List from the informers.  *)
(***************************************************************************)
HostView(h) == IF "ByoHost" \in Stale THEN hostCache[h] ELSE host[h]

MachView(m) == IF "ByoMachine" \in Stale THEN machCache[m] ELSE mach[m]

RefreshHost(h) ==
    /\ "ByoHost" \in Stale
    /\ hostCache[h] # host[h]
    /\ hostCache' = [hostCache EXCEPT ![h] = host[h]]
    /\ UNCHANGED <<host, mach, gate, clusterPaused, config, installSecret,
                   uninstallSecret, machCache, queued, faults, node>>

RefreshMachine(m) ==
    /\ "ByoMachine" \in Stale
    /\ machCache[m] # mach[m]
    /\ machCache' = [machCache EXCEPT ![m] = mach[m]]
    /\ UNCHANGED <<host, mach, gate, clusterPaused, config, installSecret,
                   uninstallSecret, hostCache, queued, faults, node>>

Refresh == \/ \E h \in Hosts : RefreshHost(h)
           \/ \E m \in Machines : RefreshMachine(m)

(***************************************************************************)
(* The rest of Cluster API and the operator.                               *)
(***************************************************************************)
CreateMachine(m) ==
    /\ mach[m].phase = "absent"
    /\ mach' = [mach EXCEPT ![m].phase = "live"]
    /\ UNCHANGED <<host, gate, clusterPaused, config, installSecret,
                   uninstallSecret, hostCache, machCache, queued, faults, node>>

\* Cluster.Status.InfrastructureReady
InfrastructureReady ==
    /\ ~gate.infrastructure
    /\ gate' = [gate EXCEPT !.infrastructure = TRUE]
    /\ UNCHANGED <<host, mach, clusterPaused, config, installSecret,
                   uninstallSecret, hostCache, machCache, queued, faults, node>>

\* Machine.Spec.Bootstrap.DataSecretName is set.
DataSecretReady(m) ==
    /\ mach[m].phase = "live"
    /\ m \notin gate.data
    /\ gate' = [gate EXCEPT !.data = @ \cup {m}]
    /\ UNCHANGED <<host, mach, clusterPaused, config, installSecret,
                   uninstallSecret, hostCache, machCache, queued, faults, node>>

\* A delete sets the deletion timestamp; without a finalizer it removes the object.
DeleteMachine(m) ==
    /\ mach[m].phase = "live"
    /\ mach' = [mach EXCEPT ![m].phase = IF mach[m].finalizer THEN "deleting" ELSE "gone"]
    /\ UNCHANGED <<host, gate, clusterPaused, config, installSecret,
                   uninstallSecret, hostCache, machCache, queued, faults, node>>

PauseCluster ==
    /\ ~clusterPaused
    /\ Fault("pause")
    /\ clusterPaused' = TRUE
    /\ UNCHANGED <<host, mach, gate, config, installSecret, uninstallSecret,
                   hostCache, machCache, queued, node>>

UnpauseCluster ==
    /\ clusterPaused
    /\ clusterPaused' = FALSE
    /\ UNCHANGED <<host, mach, gate, config, installSecret, uninstallSecret,
                   hostCache, machCache, queued, faults, node>>

\* The garbage collector deletes the config owned by a ByoMachine that is
\* gone; its finalizer keeps it until its controller has seen the deletion.
CollectConfig(m) ==
    /\ mach[m].phase = "gone"
    /\ config[m] \in {"waiting", "ready"}
    /\ config' = [config EXCEPT ![m] = "deleting"]
    /\ UNCHANGED <<host, mach, gate, clusterPaused, installSecret, uninstallSecret,
                   hostCache, machCache, queued, faults, node>>

ApiInit ==
    /\ host = [h \in Hosts |-> NewHost]
    /\ mach = [m \in Machines |-> NewMachine]
    /\ gate = [infrastructure |-> FALSE, data |-> {}]
    /\ clusterPaused = FALSE
    /\ config = [m \in Machines |-> "absent"]
    /\ installSecret = {}
    /\ uninstallSecret = {}
    /\ hostCache = [h \in Hosts |-> NewHost]
    /\ machCache = [m \in Machines |-> NewMachine]
    /\ queued = [h \in Hosts |-> TRUE]
    /\ faults = 0
    /\ node = [h \in Hosts |-> NewNode]

ApiTypeOK ==
    /\ host \in [Hosts -> ByoHost]
    /\ mach \in [Machines -> ByoMachine]
    /\ gate \in [infrastructure : BOOLEAN, data : SUBSET Machines]
    /\ clusterPaused \in BOOLEAN
    /\ config \in [Machines -> {"absent", "waiting", "ready", "deleting"}]
    /\ installSecret \subseteq Machines
    /\ uninstallSecret \subseteq Machines
    /\ hostCache \in [Hosts -> ByoHost]
    /\ machCache \in [Machines -> ByoMachine]
    /\ queued \in [Hosts -> BOOLEAN]
    /\ faults \in Nat
    /\ node \in [Hosts -> Node]

============================================================================
