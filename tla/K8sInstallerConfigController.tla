------------------ MODULE K8sInstallerConfigController ------------------
(***************************************************************************)
(* K8sInstallerConfigReconciler: renders the install and uninstall scripts *)
(* for a ByoMachine into two secrets and reports the config ready. One     *)
(* worker; three requests.                                                 *)
(***************************************************************************)
EXTENDS ByohApi

VARIABLE ic   \* the reconcile in progress: the ByoMachine that owns the config

IcIdle == [pc |-> "idle", m |-> None]

IcState == [pc : {"install", "uninstall", "patch"}, m : Machines] \cup {IcIdle}

\* The config is reconciled when its ByoMachine waits for the secret. The
\* installer of an empty HostInfo is an error, so nothing is stored before
\* the ByoMachine has it.
ConfigReconcile(m) ==
    /\ ic.pc = "idle"
    /\ config[m] = "waiting"
    /\ ~clusterPaused
    /\ Exists(MachView(m))
    /\ MachView(m).reason = "InstallationSecretNotAvailable"
    /\ MachView(m).hostInfo
    /\ ic' = [pc |-> "install", m |-> m]
    /\ UNCHANGED apiVars

\* storeInstallationData, first half: the secret is created, or updated if it exists.
storeInstallSecret ==
    /\ ic.pc = "install"
    /\ \E o \in Outcomes :
         /\ Call(o, "managerApi")
         /\ installSecret' = IF o = "failed" THEN installSecret
                             ELSE installSecret \cup {ic.m}
         /\ ic' = IF o = "ok" THEN [ic EXCEPT !.pc = "uninstall"] ELSE IcIdle
    /\ UNCHANGED <<host, mach, gate, clusterPaused, config, uninstallSecret,
                   hostCache, machCache, queued, node>>

storeUninstallSecret ==
    /\ ic.pc = "uninstall"
    /\ \E o \in Outcomes :
         /\ Call(o, "managerApi")
         /\ uninstallSecret' = IF o = "failed" THEN uninstallSecret
                               ELSE uninstallSecret \cup {ic.m}
         /\ ic' = IF o = "ok" THEN [ic EXCEPT !.pc = "patch"] ELSE IcIdle
    /\ UNCHANGED <<host, mach, gate, clusterPaused, config, installSecret,
                   hostCache, machCache, queued, node>>

\* The deferred patch stores both references and ready.
patchConfig ==
    /\ ic.pc = "patch"
    /\ \E o \in Outcomes :
         /\ Call(o, "managerApi")
         /\ config' = IF o # "failed" /\ config[ic.m] = "waiting"
                      THEN [config EXCEPT ![ic.m] = "ready"] ELSE config
    /\ ic' = IcIdle
    /\ UNCHANGED <<host, mach, gate, clusterPaused, installSecret, uninstallSecret,
                   hostCache, machCache, queued, node>>

\* reconcileDelete removes the finalizer; the garbage collector then deletes
\* the installation secret, which the config owns.
deleteConfig(m) ==
    /\ ic.pc = "idle"
    /\ config[m] = "deleting"
    /\ \E o \in Outcomes :
         /\ Call(o, "managerApi")
         /\ config' = IF o = "failed" THEN config ELSE [config EXCEPT ![m] = "absent"]
         /\ installSecret' = IF o = "failed" THEN installSecret ELSE installSecret \ {m}
    /\ UNCHANGED <<host, mach, gate, clusterPaused, uninstallSecret,
                   hostCache, machCache, queued, node, ic>>

IcStep == storeInstallSecret \/ storeUninstallSecret \/ patchConfig

IcNext == IcStep \/ \E m \in Machines : ConfigReconcile(m) \/ deleteConfig(m)

============================================================================
