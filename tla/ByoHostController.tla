------------------------ MODULE ByoHostController ------------------------
(***************************************************************************)
(* ByoHostReconciler: after the agent has cleaned a host up, the manager   *)
(* deletes the uninstallation secret (which has no owner) and then the     *)
(* reference to it. One worker; two requests.                              *)
(***************************************************************************)
EXTENDS ByohApi

VARIABLE hr   \* the reconcile in progress: the host and its copy as read

HrState == [pc : {"idle", "delete", "clear"}, h : Hosts \cup {None}, before : ByoHost]

HrIdle == [pc |-> "idle", h |-> None, before |-> NewHost]

\* "absence of the annotation combined with no machineRef": cleaned up.
CleanedUp(b) == b.uninstallationSecret # None /\ b.machineRef = None /\ ~b.cleanup

HostReconcile(h) ==
    /\ hr.pc = "idle"
    /\ CleanedUp(HostView(h))
    /\ hr' = [pc |-> "delete", h |-> h, before |-> HostView(h)]
    /\ UNCHANGED apiVars

\* A secret that does not exist is passed over; another error ends the reconcile.
deleteUninstallSecret ==
    /\ hr.pc = "delete"
    /\ \E o \in Outcomes :
         /\ Call(o, "managerApi")
         /\ uninstallSecret' = IF o = "failed" THEN uninstallSecret
                               ELSE uninstallSecret \ {hr.before.uninstallationSecret}
         /\ hr' = IF o = "ok" THEN [hr EXCEPT !.pc = "clear"] ELSE HrIdle
    /\ UNCHANGED <<host, mach, gate, clusterPaused, config, installSecret,
                   hostCache, machCache, queued, node>>

clearUninstallReference ==
    /\ hr.pc = "clear"
    /\ \E o \in Outcomes :
         LET after == [hr.before EXCEPT !.uninstallationSecret = None]
         IN  WriteHost(hr.h, PatchObject(host[hr.h], hr.before, after), o, "managerApi")
    /\ hr' = HrIdle
    /\ UNCHANGED <<mach, gate, clusterPaused, config, installSecret,
                   uninstallSecret, hostCache, machCache, node>>

HrStep == deleteUninstallSecret \/ clearUninstallReference

HrNext == HrStep \/ \E h \in Hosts : HostReconcile(h)

============================================================================
