----------------------- MODULE ByoMachineController -----------------------
(***************************************************************************)
(* ByoMachineReconciler: claims a host of the capacity pool for a          *)
(* ByoMachine, hands it its secrets, and releases it when the ByoMachine   *)
(* is deleted. The controller has one worker, so one ByoMachine is         *)
(* reconciled at a time. A reconcile is a sequence of steps: the first     *)
(* reads the caches, and each further one is a request to the API server   *)
(* with the local work and the cached reads that follow it.                *)
(***************************************************************************)
EXTENDS ByohApi

VARIABLE bm   \* the reconcile in progress: its byoMachineScope and its step

(***************************************************************************)
(* The scope of a reconcile: the ByoMachine as read (mach) and as changed  *)
(* in memory (after), whose difference the deferred patch sends, and the   *)
(* host as the controller holds it.                                        *)
(***************************************************************************)
BmSteps == {"idle", "pause", "mark", "resume", "create", "attachObject",
            "attachStatus", "install", "uninstall", "provider",
            "patchConditions", "patchObject", "patchStatus"}

Scope == [pc : BmSteps, m : Owner, h : Hosts \cup {None}, host : ByoHost,
          mach : ByoMachine, after : ByoMachine, failed : BOOLEAN]

Idle == [pc |-> "idle", m |-> None, h |-> None, host |-> NewHost,
         mach |-> NewMachine, after |-> NewMachine, failed |-> FALSE]

newByoMachineScope(m, h) ==
    [pc |-> "idle", m |-> m, h |-> h,
     host |-> IF h = None THEN NewHost ELSE HostView(h),
     mach |-> MachView(m), after |-> MachView(m), failed |-> FALSE]

Goto(s, step) == [s EXCEPT !.pc = step]

\* The deferred patch of the ByoMachine: conditions, object, status, and no
\* request for a part that did not change.
AfterObject(s) ==
    IF s.after.hostInfo # s.mach.hostInfo \/ s.after.ready # s.mach.ready
    THEN Goto(s, "patchStatus") ELSE Idle

AfterConditions(s) ==
    IF s.after.finalizer # s.mach.finalizer \/ s.after.providerID # s.mach.providerID
    THEN Goto(s, "patchObject") ELSE AfterObject(s)

\* The reconcile returns, with or without an error: both run the deferred patch.
Return(s) ==
    IF s.after.reason # s.mach.reason
    THEN Goto(s, "patchConditions") ELSE AfterConditions(s)

MarkFalse(s, reason) == [s EXCEPT !.after.reason = reason]

RemoveFinalizer(s) == [s EXCEPT !.after.finalizer = FALSE]

AddFinalizer(s) == [s EXCEPT !.after.finalizer = TRUE]

(***************************************************************************)
(* reconcileNormal, from each point on to its next request: the scopes the *)
(* controller may go on with. A patch that changes nothing sends none.     *)
(***************************************************************************)
\* The two secrets. A config that is not ready requeues the ByoMachine.
AfterInstall(s) ==
    IF s.m \notin WithInstaller \/ s.host.uninstallationSecret # None
    THEN Goto(s, "provider")
    ELSE IF config[s.m] = "ready" THEN Goto(s, "uninstall") ELSE Return(s)

WithHost(s) ==
    LET copied == [s EXCEPT !.after.hostInfo = TRUE]
    IN  IF s.m \notin WithInstaller \/ s.host.installationSecret # None
        THEN AfterInstall(copied)
        ELSE IF config[s.m] = "ready" THEN Goto(copied, "install") ELSE Return(copied)

\* A wrong ListHosts, whose selector lets attached hosts through.
ListAllHosts(s) ==
    IF Hosts = {} THEN {Return(MarkFalse(s, "BYOHostsUnavailable"))}
    ELSE {Goto([s EXCEPT !.h = h, !.host = HostView(h)], "attachObject") : h \in Hosts}

\* attachByoHost takes the first of the listed hosts, whichever that is.
ListHosts(s) ==
    LET free == {h \in Hosts : ~HostView(h).cluster}
    IN  IF free = {} THEN {Return(MarkFalse(s, "BYOHostsUnavailable"))}
        ELSE {Goto([s EXCEPT !.h = h, !.host = HostView(h)], "attachObject") : h \in free}

AfterConfig(s) ==
    CASE ~gate.infrastructure -> {Return(MarkFalse(s, "WaitingForClusterInfrastructure"))}
      [] gate.infrastructure /\ s.m \notin gate.data ->
           {Return(MarkFalse(s, "WaitingForBootstrapDataSecret"))}
      [] OTHER -> IF s.h = None THEN ListHosts(s) ELSE {WithHost(s)}

AfterResume(s) ==
    IF s.m \in WithInstaller /\ config[s.m] = "absent"
    THEN {Goto(s, "create")} ELSE AfterConfig(s)

reconcileNormal(s) ==
    IF s.h # None /\ s.host.paused THEN {Goto(s, "resume")} ELSE AfterResume(s)

\* A wrong reconcileDelete, which leaves the host as it is.
reconcileDeleteUnmarked(s) == {Return(RemoveFinalizer(s))}

reconcileDelete(s) ==
    IF s.h # None /\ ~s.host.cleanup THEN {Goto(s, "mark")}
    ELSE {Return(RemoveFinalizer(s))}

reconcilePaused(s) ==
    IF s.h # None /\ ~s.host.paused THEN {Goto(s, "pause")}
    ELSE {Return(MarkFalse(s, "ClusterOrResourcePaused"))}

\* A wrong FetchAttachedByoHost, which never finds the host of a ByoMachine.
FetchNoHost(m) == {None}

\* Lists by the attached label and takes the first item, whichever that is.
FetchAttachedByoHost(m) ==
    LET attached == {h \in Hosts : HostView(h).attached = m}
    IN  IF attached = {} THEN {None} ELSE attached

Reconcile(m) ==
    /\ bm.pc = "idle"
    /\ Exists(MachView(m))
    /\ \E h \in FetchAttachedByoHost(m) :
         LET s == newByoMachineScope(m, h)
         IN  bm' \in CASE clusterPaused -> reconcilePaused(s)
                       [] ~clusterPaused /\ s.mach.phase = "deleting" -> reconcileDelete(s)
                       [] OTHER -> reconcileNormal(AddFinalizer(s))
    /\ UNCHANGED apiVars

(***************************************************************************)
(* The requests.                                                           *)
(***************************************************************************)
\* A request that changes the host in the scope, and the scopes after it.
PatchHost(o, new, ok, failed) ==
    /\ WriteHost(bm.h, new, o, "managerApi")
    /\ bm' \in IF o = "ok" THEN ok ELSE {failed}
    /\ UNCHANGED <<mach, gate, clusterPaused, config, installSecret,
                   uninstallSecret, hostCache, machCache, node>>

\* Paused: the error of the patch is only logged.
setPausedConditionForByoHost ==
    /\ bm.pc = "pause"
    /\ \E o \in Outcomes :
         LET after == [bm.host EXCEPT !.paused = TRUE]
             s == Return(MarkFalse(bm, "ClusterOrResourcePaused"))
         IN  PatchHost(o, PatchObject(host[bm.h], bm.host, after), {s}, s)

\* Not paused and not deleted: the annotation of the attached host is removed.
unsetPausedConditionForByoHost ==
    /\ bm.pc = "resume"
    /\ \E o \in Outcomes :
         LET after == [bm.host EXCEPT !.paused = FALSE]
         IN  PatchHost(o, PatchObject(host[bm.h], bm.host, after),
                       AfterResume([bm EXCEPT !.host = after]), Return(bm))

\* A wrong markHostForCleanup, whose caller ignores the error of the patch.
markHostIgnoringError ==
    /\ bm.pc = "mark"
    /\ \E o \in Outcomes :
         LET after == [bm.host EXCEPT !.cleanup = TRUE]
             s == Return(RemoveFinalizer(bm))
         IN  PatchHost(o, PatchObject(host[bm.h], bm.host, after), {s}, s)

\* The finalizer goes as soon as the host is marked.
markHostForCleanup ==
    /\ bm.pc = "mark"
    /\ \E o \in Outcomes :
         LET after == [bm.host EXCEPT !.cleanup = TRUE]
         IN  PatchHost(o, PatchObject(host[bm.h], bm.host, after),
                       {Return(RemoveFinalizer(bm))}, Return(bm))

createInstallerConfig ==
    /\ bm.pc = "create"
    /\ \E o \in Outcomes :
         /\ Call(o, "managerApi")
         /\ config' = IF o = "failed" THEN config ELSE [config EXCEPT ![bm.m] = "waiting"]
         /\ bm' \in IF o = "ok" THEN AfterConfig(bm) ELSE {Return(bm)}
    /\ UNCHANGED <<host, mach, gate, clusterPaused, installSecret, uninstallSecret,
                   hostCache, machCache, queued, node>>

\* A wrong claim, which labels the host with its own name.
ClaimedByHostName(s) == [s.host EXCEPT !.attached = s.h, !.cluster = TRUE,
                                       !.bootstrapSecret = s.m, !.machineRef = s.m]

Claimed(s) == [s.host EXCEPT !.attached = s.m, !.cluster = TRUE,
                             !.bootstrapSecret = s.m, !.machineRef = s.m]

attachByoHost ==
    /\ bm.pc = "attachObject"
    /\ \E o \in Outcomes :
         PatchHost(o, PatchObject(host[bm.h], bm.host, Claimed(bm)),
                   {Goto(bm, "attachStatus")},
                   Goto([bm EXCEPT !.failed = TRUE], "attachStatus"))

\* A wrong attachByoHost, which does not say that the secret is missing.
attachByoHostSilently ==
    /\ bm.pc = "attachStatus"
    /\ \E o \in Outcomes :
         PatchHost(o, PatchStatus(host[bm.h], bm.host, Claimed(bm)),
                   {IF bm.failed THEN Return(bm)
                    ELSE WithHost([bm EXCEPT !.host = Claimed(bm)])},
                   Return(bm))

\* The second request of the same patch. After a failure of either the host
\* is not in the scope, and the reason is not set.
attachByoHostStatus ==
    /\ bm.pc = "attachStatus"
    /\ \E o \in Outcomes :
         LET attached == MarkFalse([bm EXCEPT !.host = Claimed(bm)],
                                   "InstallationSecretNotAvailable")
         IN  PatchHost(o, PatchStatus(host[bm.h], bm.host, Claimed(bm)),
                       {IF bm.failed THEN Return(bm) ELSE WithHost(attached)},
                       Return(bm))

setInstallationSecretForByoHost ==
    /\ bm.pc = "install"
    /\ \E o \in Outcomes :
         LET after == [bm.host EXCEPT !.installationSecret = bm.m]
         IN  PatchHost(o, PatchObject(host[bm.h], bm.host, after),
                       {AfterInstall([bm EXCEPT !.host = after])}, Return(bm))

setUninstallationSecretForByoHost ==
    /\ bm.pc = "uninstall"
    /\ \E o \in Outcomes :
         LET after == [bm.host EXCEPT !.uninstallationSecret = bm.m]
         IN  PatchHost(o, PatchObject(host[bm.h], bm.host, after),
                       {Goto([bm EXCEPT !.host = after], "provider")}, Return(bm))

\* The Node named after the host must exist in the workload cluster.
updateNodeProviderID ==
    /\ bm.pc = "provider"
    /\ LET joined == node[bm.h].joined
       IN  \E o \in Outcomes, found \in IF joined = None THEN {FALSE} ELSE Found(joined) :
             /\ Call(o, "managerApi")
             /\ bm' = IF o = "ok" /\ found
                      THEN Return([bm EXCEPT !.after.providerID = TRUE,
                                             !.after.ready = TRUE,
                                             !.after.reason = "True"])
                      ELSE Return(bm)
    /\ UNCHANGED <<host, mach, gate, clusterPaused, config, installSecret,
                   uninstallSecret, hostCache, machCache, queued, node>>

(***************************************************************************)
(* The deferred patch of the ByoMachine. The API server rejects a write to *)
(* an object that is gone, and removes an object being deleted with its    *)
(* last finalizer.                                                         *)
(***************************************************************************)
PatchMachine(o, new, next) ==
    /\ Call(o, "managerApi")
    /\ mach' = IF o = "failed" \/ ~Exists(mach[bm.m]) THEN mach
               ELSE [mach EXCEPT ![bm.m] = new]
    /\ bm' = next
    /\ UNCHANGED <<host, gate, clusterPaused, config, installSecret,
                   uninstallSecret, hostCache, machCache, queued, node>>

patchMachineConditions ==
    /\ bm.pc = "patchConditions"
    /\ \E o \in Outcomes :
         PatchMachine(o, [mach[bm.m] EXCEPT !.reason = bm.after.reason], AfterConditions(bm))

patchMachineObject ==
    /\ bm.pc = "patchObject"
    /\ LET finalizer == Merge(mach[bm.m].finalizer, bm.mach.finalizer, bm.after.finalizer)
           new == [mach[bm.m] EXCEPT
                     !.finalizer = finalizer,
                     !.providerID = Merge(@, bm.mach.providerID, bm.after.providerID),
                     !.phase = IF @ = "deleting" /\ ~finalizer THEN "gone" ELSE @]
       IN  \E o \in Outcomes : PatchMachine(o, new, AfterObject(bm))

patchMachineStatus ==
    /\ bm.pc = "patchStatus"
    /\ LET new == [mach[bm.m] EXCEPT
                     !.hostInfo = Merge(@, bm.mach.hostInfo, bm.after.hostInfo),
                     !.ready = Merge(@, bm.mach.ready, bm.after.ready)]
       IN  \E o \in Outcomes : PatchMachine(o, new, Idle)

BmStep ==
    \/ setPausedConditionForByoHost
    \/ unsetPausedConditionForByoHost
    \/ markHostForCleanup
    \/ createInstallerConfig
    \/ attachByoHost
    \/ attachByoHostStatus
    \/ setInstallationSecretForByoHost
    \/ setUninstallationSecretForByoHost
    \/ updateNodeProviderID
    \/ patchMachineConditions
    \/ patchMachineObject
    \/ patchMachineStatus

BmNext == BmStep \/ \E m \in Machines : Reconcile(m)

============================================================================
