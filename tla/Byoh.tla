-------------------------------- MODULE Byoh --------------------------------
(***************************************************************************)
(* The life of the hosts of a capacity pool: the three controllers of the  *)
(* manager process, the agent on every host, and what Cluster API and the  *)
(* operator do around them.                                                *)
(***************************************************************************)
EXTENDS ByoMachineController, ByoHostController, K8sInstallerConfigController, HostAgent

vars == <<apiVars, bm, hr, ic, agent>>

Init ==
    /\ ApiInit
    /\ bm = Idle
    /\ hr = HrIdle
    /\ ic = IcIdle
    /\ agent = [h \in Hosts |-> AgentIdle]

\* The manager process stops wherever its controllers are; its caches are
\* filled from the API server before they start again.
ManagerCrash ==
    /\ Fault("managerCrash")
    /\ bm' = Idle /\ hr' = HrIdle /\ ic' = IcIdle
    /\ hostCache' = IF "ByoHost" \in Stale THEN host ELSE hostCache
    /\ machCache' = IF "ByoMachine" \in Stale THEN mach ELSE machCache
    /\ UNCHANGED <<host, mach, gate, clusterPaused, config, installSecret,
                   uninstallSecret, queued, node, agent>>

Environment ==
    \/ Refresh
    \/ PauseCluster
    \/ UnpauseCluster
    \/ InfrastructureReady
    \/ \E m \in Machines : \/ CreateMachine(m)
                           \/ DataSecretReady(m)
                           \/ DeleteMachine(m)
                           \/ CollectConfig(m)

Next ==
    \/ BmNext /\ UNCHANGED <<hr, ic, agent>>
    \/ HrNext /\ UNCHANGED <<bm, ic, agent>>
    \/ IcNext /\ UNCHANGED <<bm, hr, agent>>
    \/ AgentNext /\ UNCHANGED <<bm, hr, ic>>
    \/ Environment /\ UNCHANGED <<bm, hr, ic, agent>>
    \/ ManagerCrash

Spec == Init /\ [][Next]_vars

(***************************************************************************)
(* Fairness: a started reconcile goes on; a ByoMachine is reconciled again *)
(* (every wait of its controller ends with an event, an error or a         *)
(* RequeueAfter that queues it); a queued agent runs; watches deliver;     *)
(* Cluster API opens the gates, and a paused cluster is resumed. Nobody    *)
(* has to create or delete a ByoMachine.                                   *)
(***************************************************************************)
Fairness ==
    /\ WF_vars(BmStep /\ UNCHANGED <<hr, ic, agent>>)
    /\ WF_vars(HrNext /\ UNCHANGED <<bm, ic, agent>>)
    /\ WF_vars(IcNext /\ UNCHANGED <<bm, hr, agent>>)
    /\ WF_vars(Refresh /\ UNCHANGED <<bm, hr, ic, agent>>)
    /\ WF_vars(UnpauseCluster /\ UNCHANGED <<bm, hr, ic, agent>>)
    /\ WF_vars(InfrastructureReady /\ UNCHANGED <<bm, hr, ic, agent>>)
    /\ \A m \in Machines :
         /\ SF_vars(Reconcile(m) /\ UNCHANGED <<hr, ic, agent>>)
         /\ WF_vars(DataSecretReady(m) /\ UNCHANGED <<bm, hr, ic, agent>>)
    /\ \A h \in Hosts : WF_vars(AgentStep(h) /\ UNCHANGED <<bm, hr, ic>>)

FairSpec == Spec /\ Fairness

(***************************************************************************)
(* Properties                                                              *)
(***************************************************************************)
\* Every variable keeps its type; in particular a reference held by an object,
\* a cached copy or a reconcile in progress always names a ByoMachine or none.
TypeOK ==
    /\ ApiTypeOK
    /\ bm \in Scope
    /\ hr \in HrState
    /\ ic \in IcState
    /\ agent \in [Hosts -> AgentState]

\* The labels and the bootstrap secret of a copy of a ByoHost agree.
Coherent(b) == /\ b.cluster = (b.attached # None)
               /\ b.bootstrapSecret = b.attached

\* The cluster label, the attached label and the bootstrap secret that
\* attachByoHost sets and removeAnnotations removes never disagree on the API
\* server, whatever merge patches of stale copies, failed requests and crashes
\* come between: the list of free hosts (cluster label) and the lookup of an
\* attached host (attached label) are about the same reservation.
ReservationCoherent == \A h \in Hosts : Coherent(host[h])

\* "should execute bootstrap secret only once": while a host reports a
\* successful bootstrap and is not marked for cleanup, no step installs,
\* bootstraps, resets or uninstalls anything on it.
BootstrapOnce ==
    [][\A h \in Hosts : host[h].bootstrapped /\ ~host[h].cleanup
                          => node'[h] = node[h]]_vars

\* A host only ever refers to the installation secret of the ByoMachine it is
\* attached to: none survives the release of the host into its next use.
OwnInstallationSecret ==
    \A h \in Hosts : host[h].installationSecret \in {None, host[h].attached}

\* MachineFinalizer: a ByoMachine under deletion leaves the API server only
\* after every host attached to it is marked for cleanup.
ReleasedBeforeGone ==
    [][\A m \in Machines : mach[m].phase = "deleting" /\ mach'[m].phase = "gone"
         => \A h \in Hosts : host[h].attached = m => host[h].cleanup]_vars

\* K8sNodeBootstrapSucceeded tells the truth where no request of an agent
\* fails: a host that reports a successful bootstrap and is not being cleaned
\* up is a node made from the bootstrap data of the ByoMachine that has it.
NodeServesOwner ==
    \A h \in Hosts : host[h].bootstrapped /\ ~host[h].cleanup
                       => node[h].joined = host[h].attached

\* The reservation protocol is the one of HostPool.
Pool == INSTANCE HostPool
            WITH pool <- [h \in Hosts |-> [owner |-> host[h].attached,
                                           releasing |-> host[h].cleanup]]

\* The pool of hosts behaves as HostPool: no host is taken from the machine
\* that has it, none is marked without an owner, no machine gets two.
ImplementsHostPool == Pool!Spec

\* A host whose ByoMachine is being deleted is eventually given back.
HostReturned ==
    \A h \in Hosts, m \in Machines :
        mach[m].phase = "deleting" /\ host[h].attached = m ~> host[h].attached # m

\* A ByoMachine that has a host eventually becomes ready, unless it is deleted.
Provisioned ==
    \A h \in Hosts, m \in Machines :
        mach[m].phase = "live" /\ host[h].attached = m
            ~> mach[m].phase # "live" \/ mach[m].ready

\* The finalizer is there so that a ByoMachine never goes while a host is
\* still attached to it and not marked for cleanup.
NoOrphanedHost ==
    \A h \in Hosts, m \in Machines :
        mach[m].phase = "gone" /\ host[h].attached = m => host[h].cleanup

\* A ready ByoMachine's host carries the uninstallation secret made for it.
FreshUninstallSecret ==
    \A h \in Hosts, m \in WithInstaller :
        mach[m].ready /\ host[h].attached = m => host[h].uninstallationSecret = m

============================================================================
