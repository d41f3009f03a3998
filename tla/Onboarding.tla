----------------------------- MODULE Onboarding -----------------------------
(***************************************************************************)
(* byohctl onboard: authenticate, save the tenant's kubeconfig, check the  *)
(* region (rolling back when it is not available), save it, and install    *)
(* the agent package, whose after-install script starts the service.       *)
(***************************************************************************)
EXTENDS HostFleet

Goto(h, pc) == [ctl EXCEPT ![h].pc = pc]

Exit(h) == [ctl EXCEPT ![h] = CtlIdle]

\* A host on which the service is known is refused.
runOnboard(h, region) ==
    /\ ctl[h].pc = "idle"
    /\ disk[h].unit = "none"
    /\ ctl' = [ctl EXCEPT ![h] = [CtlIdle EXCEPT !.cmd = "onboard", !.pc = "save",
                                                 !.region = region]]
    /\ UNCHANGED <<objects, disk, agentUp, faults>>

\* GetToken, PrepareAgentDirectory and SaveKubeConfig: any error ends the
\* command and leaves what there was.
SaveKubeConfig(h) ==
    /\ ctl[h].pc = "save"
    /\ \/ /\ disk' = [disk EXCEPT ![h].config = TRUE]
          /\ ctl' = Goto(h, "region")
          /\ faults' = faults
       \/ /\ Fault("onboard")
          /\ ctl' = Exit(h)
          /\ disk' = disk
    /\ UNCHANGED <<objects, agentUp>>

\* A wrong CheckRegionAvailability, which goes on when it cannot find out.
CheckRegionLeniently(h) ==
    /\ ctl[h].pc = "region"
    /\ ctl' = Goto(h, "label")
    /\ UNCHANGED <<objects, disk, agentUp, faults>>

\* An error and an unavailable region both delete the whole ~/.byoh; when the
\* deletion fails too (the last case, after either), that is only logged.
CheckRegionAvailability(h) ==
    /\ ctl[h].pc = "region"
    /\ \/ /\ ctl[h].region \in Available
          /\ ctl' = Goto(h, "label")
          /\ UNCHANGED <<disk, faults>>
       \/ /\ ctl[h].region \notin Available
          /\ disk' = [disk EXCEPT ![h].config = FALSE, ![h].region = None]
          /\ ctl' = Exit(h)
          /\ faults' = faults
       \/ /\ ctl[h].region \in Available
          /\ Fault("onboard")
          /\ disk' = [disk EXCEPT ![h].config = FALSE, ![h].region = None]
          /\ ctl' = Exit(h)
       \/ /\ Fault("rollback")
          /\ ctl' = Exit(h)
          /\ disk' = disk
    /\ UNCHANGED <<objects, agentUp>>

SaveRegion(h) ==
    /\ ctl[h].pc = "label"
    /\ \/ /\ disk' = [disk EXCEPT ![h].region = ctl[h].region]
          /\ ctl' = [ctl EXCEPT ![h].pc = "packages", ![h].region = None]
          /\ faults' = faults
       \/ /\ Fault("onboard")
          /\ ctl' = Exit(h)
          /\ disk' = disk
    /\ UNCHANGED <<objects, agentUp>>

\* SetupAgent up to the install: an apt lock, a package that cannot be
\* installed or a bundle that cannot be pulled ends the command.
ensureRequiredPackages(h) ==
    /\ ctl[h].pc = "packages"
    /\ \/ ctl' = Goto(h, "dpkg") /\ faults' = faults
       \/ ctl' = Exit(h) /\ Fault("onboard")
    /\ UNCHANGED <<objects, disk, agentUp>>

\* A wrong installation, which tidies ~/.byoh up after a failure.
installThenTidy(h) ==
    /\ ctl[h].pc = "dpkg"
    /\ \/ /\ disk' = [disk EXCEPT ![h].unit = "installed", ![h].label = disk[h].region]
          /\ agentUp' = [agentUp EXCEPT ![h] = "starting"]
          /\ faults' = faults
       \/ /\ Fault("onboard")
          /\ disk' = [disk EXCEPT ![h].unit = "broken", ![h].config = FALSE]
          /\ agentUp' = agentUp
    /\ ctl' = Exit(h)
    /\ UNCHANGED objects

\* dpkg -i: the after-install script puts the region file into the service's
\* environment and starts the service. When dpkg fails it may have unpacked
\* the package, and nothing is rolled back.
installDebianPackage(h) ==
    /\ ctl[h].pc = "dpkg"
    /\ \/ /\ disk' = [disk EXCEPT ![h].unit = "installed", ![h].label = disk[h].region]
          /\ agentUp' = [agentUp EXCEPT ![h] = "starting"]
          /\ faults' = faults
       \/ /\ Fault("onboard")
          /\ \E unit \in {"none", "broken"} : disk' = [disk EXCEPT ![h].unit = unit]
          /\ agentUp' = agentUp
    /\ ctl' = Exit(h)
    /\ UNCHANGED objects

OnboardStep(h) ==
    \/ SaveKubeConfig(h)
    \/ CheckRegionAvailability(h)
    \/ SaveRegion(h)
    \/ ensureRequiredPackages(h)
    \/ installDebianPackage(h)

============================================================================
