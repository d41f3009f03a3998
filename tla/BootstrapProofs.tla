-------------------------- MODULE BootstrapProofs --------------------------
(***************************************************************************)
(* A host is bootstrapped once: for any number of hosts, machines and      *)
(* faults, and for caches of any age. Two facts carry the proof: only the  *)
(* agent of a host writes its conditions or takes its cleanup annotation   *)
(* away, and it does neither between its read of the host and its patch.   *)
(***************************************************************************)
EXTENDS ByohProofs

\* Between its read and its patch an agent that may install or bootstrap has a
\* host that is not bootstrapped, and one that may reset or uninstall has a
\* host that is marked for cleanup.
BootstrapInv ==
    \A h \in Hosts :
        /\ agent[h].pc \in {"fetch", "install", "boot"} => ~host[h].bootstrapped
        /\ agent[h].pc \in {"reset", "uninstall"} => host[h].cleanup

\* What the manager may do to a host.
ManagerWrite == \A h \in Hosts : /\ host'[h].bootstrapped = host[h].bootstrapped
                                 /\ host[h].cleanup => host'[h].cleanup

\* A request of the manager writes no condition, and a change of the cleanup
\* annotation in it is its addition.
LEMMA WriteKeeps ==
    ASSUME TypeOK, NEW h, NEW b \in ByoHost, NEW a \in ByoHost,
           a.cleanup = b.cleanup \/ a.cleanup = TRUE,
           NEW o, NEW client,
           \/ WriteHost(h, PatchObject(host[h], b, a), o, client)
           \/ WriteHost(h, PatchStatus(host[h], b, a), o, client)
    PROVE  ManagerWrite
<1>1. ASSUME NEW c \in ByoHost
      PROVE  /\ PatchObject(c, b, a).bootstrapped = c.bootstrapped
             /\ PatchStatus(c, b, a).bootstrapped = c.bootstrapped
             /\ PatchStatus(c, b, a).cleanup = c.cleanup
             /\ PatchObject(c, b, a).cleanup = Merge(c.cleanup, b.cleanup, a.cleanup)
  BY DEF PatchObject, PatchStatus, ByoHost
<1>2. ASSUME NEW c \in ByoHost, c.cleanup
      PROVE  PatchObject(c, b, a).cleanup
  BY <1>1, <1>2 DEF Merge
<1>3. ASSUME NEW g \in Hosts
      PROVE  /\ host'[g].bootstrapped = host[g].bootstrapped
             /\ host[g].cleanup => host'[g].cleanup
  <2>1. host[g] \in ByoHost
    BY DEF TypeOK, ApiTypeOK
  <2>2. host'[g] \in {host[g], PatchObject(host[g], b, a), PatchStatus(host[g], b, a)}
    BY DEF WriteHost, TypeOK, ApiTypeOK
  <2> QED BY <1>1, <1>2, <2>1, <2>2
<1> QED BY <1>3 DEF ManagerWrite

\* Every step of the ByoMachine controller is such a write, or none.
LEMMA BmWrites == ASSUME TypeOK, BmNext  PROVE ManagerWrite
<1>1. bm \in Scope /\ bm.host \in ByoHost
  BY DEF TypeOK, Scope
<1>2. ASSUME UNCHANGED host PROVE ManagerWrite
  BY <1>2 DEF ManagerWrite
<1>3. CASE setPausedConditionForByoHost
  <2> DEFINE after == [bm.host EXCEPT !.paused = TRUE]
  <2>1. after \in ByoHost /\ after.cleanup = bm.host.cleanup
    BY <1>1 DEF ByoHost
  <2>2. PICK o : WriteHost(bm.h, PatchObject(host[bm.h], bm.host, after), o, "managerApi")
    BY <1>3 DEF setPausedConditionForByoHost, PatchHost
  <2> HIDE DEF after
  <2> QED BY <1>1, <2>1, <2>2, WriteKeeps
<1>4. CASE unsetPausedConditionForByoHost
  <2> DEFINE after == [bm.host EXCEPT !.paused = FALSE]
  <2>1. after \in ByoHost /\ after.cleanup = bm.host.cleanup
    BY <1>1 DEF ByoHost
  <2>2. PICK o : WriteHost(bm.h, PatchObject(host[bm.h], bm.host, after), o, "managerApi")
    BY <1>4 DEF unsetPausedConditionForByoHost, PatchHost
  <2> HIDE DEF after
  <2> QED BY <1>1, <2>1, <2>2, WriteKeeps
<1>5. CASE markHostForCleanup
  <2> DEFINE after == [bm.host EXCEPT !.cleanup = TRUE]
  <2>1. after \in ByoHost /\ after.cleanup = TRUE
    BY <1>1 DEF ByoHost
  <2>2. PICK o : WriteHost(bm.h, PatchObject(host[bm.h], bm.host, after), o, "managerApi")
    BY <1>5 DEF markHostForCleanup, PatchHost
  <2> HIDE DEF after
  <2> QED BY <1>1, <2>1, <2>2, WriteKeeps
<1>6. CASE attachByoHost \/ attachByoHostStatus
  <2>1. Claimed(bm) \in ByoHost /\ Claimed(bm).cleanup = bm.host.cleanup
    BY <1>1 DEF Claimed, ByoHost, Scope
  <2>2. PICK o : \/ WriteHost(bm.h, PatchObject(host[bm.h], bm.host, Claimed(bm)), o, "managerApi")
                 \/ WriteHost(bm.h, PatchStatus(host[bm.h], bm.host, Claimed(bm)), o, "managerApi")
    BY <1>6 DEF attachByoHost, attachByoHostStatus, PatchHost
  <2> QED BY <1>1, <2>1, <2>2, WriteKeeps
<1>7. CASE setInstallationSecretForByoHost
  <2> DEFINE after == [bm.host EXCEPT !.installationSecret = bm.m]
  <2>1. after \in ByoHost /\ after.cleanup = bm.host.cleanup
    BY <1>1 DEF ByoHost, Scope
  <2>2. PICK o : WriteHost(bm.h, PatchObject(host[bm.h], bm.host, after), o, "managerApi")
    BY <1>7 DEF setInstallationSecretForByoHost, PatchHost
  <2> HIDE DEF after
  <2> QED BY <1>1, <2>1, <2>2, WriteKeeps
<1>8. CASE setUninstallationSecretForByoHost
  <2> DEFINE after == [bm.host EXCEPT !.uninstallationSecret = bm.m]
  <2>1. after \in ByoHost /\ after.cleanup = bm.host.cleanup
    BY <1>1 DEF ByoHost, Scope
  <2>2. PICK o : WriteHost(bm.h, PatchObject(host[bm.h], bm.host, after), o, "managerApi")
    BY <1>8 DEF setUninstallationSecretForByoHost, PatchHost
  <2> HIDE DEF after
  <2> QED BY <1>1, <2>1, <2>2, WriteKeeps
<1>9. CASE \/ createInstallerConfig \/ updateNodeProviderID \/ patchMachineConditions
           \/ patchMachineObject \/ patchMachineStatus \/ \E m \in Machines : Reconcile(m)
  BY <1>2, <1>9 DEF createInstallerConfig, updateNodeProviderID, patchMachineConditions,
                    patchMachineObject, patchMachineStatus, PatchMachine, Reconcile, apiVars
<1> QED BY <1>3, <1>4, <1>5, <1>6, <1>7, <1>8, <1>9 DEF BmNext, BmStep

\* So is every step of the host controller.
LEMMA HrWrites == ASSUME TypeOK, HrNext  PROVE ManagerWrite
<1>1. CASE UNCHANGED host
  BY <1>1 DEF ManagerWrite
<1>2. CASE clearUninstallReference
  <2> DEFINE after == [hr.before EXCEPT !.uninstallationSecret = None]
  <2>1. hr.before \in ByoHost /\ after \in ByoHost /\ after.cleanup = hr.before.cleanup
    BY DEF TypeOK, HrState, ByoHost, Owner
  <2>2. PICK o : WriteHost(hr.h, PatchObject(host[hr.h], hr.before, after), o, "managerApi")
    BY <1>2 DEF clearUninstallReference
  <2> HIDE DEF after
  <2> QED BY <2>1, <2>2, WriteKeeps
<1> QED BY <1>1, <1>2 DEF HrNext, HrStep, HostReconcile, deleteUninstallSecret, apiVars

\* The steps of the deferred patch.
Patching == {"idle", "patchConditions", "patchObject", "patchStatus"}

\* The part of the invariant about one host, the software on it included.
Kept(h) == /\ agent'[h].pc \in {"fetch", "install", "boot"} => ~host'[h].bootstrapped
           /\ agent'[h].pc \in {"reset", "uninstall"} => host'[h].cleanup
           /\ host[h].bootstrapped /\ ~host[h].cleanup => node'[h] = node[h]

\* A reconcile that returns goes on to its patch.
LEMMA SendPatches ==
    ASSUME NEW a \in AgentState
    PROVE  /\ Send(a).pc \in Patching
           /\ SendObject(a).pc \in Patching
           /\ SendStatus(a).pc \in Patching
           /\ \A pc \in AgentSteps : Step(a, pc).pc = pc
<1>1. \A pc \in AgentSteps : Step(a, pc).pc = pc
  BY DEF Step, AgentState
<1>2. SendStatus(a).pc \in Patching
  BY <1>1 DEF SendStatus, AgentSteps, Patching
<1>3. SendObject(a).pc \in Patching
  BY <1>1, <1>2 DEF SendObject, AgentSteps, Patching
<1> QED BY <1>1, <1>2, <1>3 DEF Send, AgentSteps, Patching

\* Every step of an agent keeps the invariant, and touches the software of its
\* host only while the host is not bootstrapped or is marked for cleanup.
LEMMA AgentBootstraps ==
    ASSUME TypeOK, BootstrapInv, AgentNext  PROVE \A g \in Hosts : Kept(g)
<1>1. PICK h \in Hosts : AgentStep(h) \/ AgentCrash(h)
  BY DEF AgentNext
<1>2. agent[h] \in AgentState /\ host[h] \in ByoHost
  BY DEF TypeOK, ApiTypeOK
<1>3. ASSUME \A g \in Hosts \ {h} : agent'[g] = agent[g] /\ host'[g] = host[g] /\ node'[g] = node[g],
             Kept(h)
      PROVE  \A g \in Hosts : Kept(g)
  BY <1>3 DEF Kept, BootstrapInv
<1>4. ASSUME NEW a, NEW n, OnHost(h, a, n),
             a.pc \in {"fetch", "install", "boot"} => ~host[h].bootstrapped,
             a.pc \in {"reset", "uninstall"} => host[h].cleanup,
             host[h].bootstrapped /\ ~host[h].cleanup => n = node[h]
      PROVE  \A g \in Hosts : Kept(g)
  <2>1. /\ agent' = [agent EXCEPT ![h] = IF a.pc = "idle" THEN AgentIdle ELSE a]
        /\ node' = [node EXCEPT ![h] = n]
        /\ UNCHANGED host
    BY <1>4 DEF OnHost, Become
  <2>2. agent'[h].pc = a.pc
    BY <2>1 DEF TypeOK, AgentIdle
  <2> QED BY <1>3, <1>4, <2>1, <2>2 DEF Kept, TypeOK, ApiTypeOK
<1>5. ASSUME NEW o, NEW new, NEW next \in AgentState, next.pc \in Patching,
             PatchAgentHost(h, o, new, next)
      PROVE  \A g \in Hosts : Kept(g)
  <2> DEFINE a == IF o = "ok" THEN next ELSE Failed(next)
  <2>1. a.pc \in Patching
    BY <1>5 DEF Failed, AgentState
  <2>2. /\ agent' = [agent EXCEPT ![h] = IF a.pc = "idle" THEN AgentIdle ELSE a]
        /\ host' = IF o = "failed" THEN host ELSE [host EXCEPT ![h] = new]
        /\ UNCHANGED node
    BY <1>5 DEF PatchAgentHost, Become
  <2> HIDE DEF a
  <2>3. agent'[h].pc \in Patching
    BY <2>1, <2>2 DEF TypeOK, AgentIdle
  <2> QED BY <1>3, <2>2, <2>3 DEF Kept, TypeOK, ApiTypeOK, Patching
<1>6. /\ Send(agent[h]).pc \in Patching /\ Send(Failed(agent[h])).pc \in Patching
      /\ \A x \in BOOLEAN :
           /\ Send([agent[h] EXCEPT !.after.bootstrapped = x]).pc \in Patching
           /\ Send([Failed(agent[h]) EXCEPT !.after.installed = x]).pc \in Patching
           /\ Send([Failed(agent[h]) EXCEPT !.after.bootstrapped = x]).pc \in Patching
           /\ \A pc \in AgentSteps :
                /\ Step([agent[h] EXCEPT !.after.installed = x], pc).pc = pc
                /\ Step([agent[h] EXCEPT !.after.bootstrapped = x], pc).pc = pc
      /\ Send([agent[h] EXCEPT !.after = Released(@)]).pc \in Patching
  <2>1. Failed(agent[h]) \in AgentState
    BY <1>2, AgentTypes
  <2>2. \A x \in BOOLEAN : /\ [agent[h] EXCEPT !.after.installed = x] \in AgentState
                           /\ [agent[h] EXCEPT !.after.bootstrapped = x] \in AgentState
                           /\ [Failed(agent[h]) EXCEPT !.after.installed = x] \in AgentState
                           /\ [Failed(agent[h]) EXCEPT !.after.bootstrapped = x] \in AgentState
    BY <1>2, <2>1, AgentTypes
  <2>3. [agent[h] EXCEPT !.after = Released(@)] \in AgentState
    BY <1>2, AgentTypes
  <2> QED BY <1>2, <2>1, <2>2, <2>3, SendPatches
<1>7. CASE AgentReconcile(h)
  <2> DEFINE a == [pc |-> "idle", before |-> host[h], after |-> host[h], failed |-> FALSE]
             next == IF host[h].cleanup
                     THEN Step(a, IF host[h].installed THEN "reset" ELSE "uninstall")
                     ELSE Normal(a)
  <2>1. a \in AgentState /\ a.before = host[h]
    BY <1>2 DEF AgentState, AgentSteps
  <2>2. agent' = [agent EXCEPT ![h] = IF next.pc = "idle" THEN AgentIdle ELSE next]
    BY <1>7 DEF AgentReconcile
  <2> HIDE DEF a
  <2>3. Normal(a).pc \in Patching \/ (Normal(a).pc = "fetch" /\ ~host[h].bootstrapped)
    <3>1. [a EXCEPT !.after.bootstrapped = FALSE] \in AgentState
      BY <2>1, AgentTypes
    <3> QED BY <2>1, <3>1, SendPatches DEF Normal, AgentSteps
  <2>4. /\ next.pc \in {"fetch", "install", "boot"} => ~host[h].bootstrapped
        /\ next.pc \in {"reset", "uninstall"} => host[h].cleanup
    BY <2>1, <2>3, SendPatches DEF AgentSteps, Patching
  <2> HIDE DEF next
  <2>5. agent'[h].pc = next.pc
    BY <2>2 DEF TypeOK, AgentIdle
  <2> QED BY <1>3, <1>7, <2>2, <2>4, <2>5 DEF AgentReconcile, Kept, TypeOK
<1>8. CASE getBootstrapScript(h)
  <2>1. PICK a \in {Send(Failed(agent[h])), Send(agent[h]), Step(agent[h], "boot"),
                    Step(agent[h], "install")} : OnHost(h, a, node[h])
    BY <1>8 DEF getBootstrapScript
  <2>2. a.pc \in Patching \cup {"boot", "install"}
    BY <1>2, <1>6, <2>1, SendPatches DEF AgentSteps
  <2>3. ~host[h].bootstrapped
    BY <1>8 DEF getBootstrapScript, BootstrapInv
  <2> QED BY <1>4, <2>1, <2>2, <2>3 DEF Patching
<1>9. CASE executeInstallerController(h)
  <2>1. PICK a \in {Send(Failed(agent[h])),
                    Step([agent[h] EXCEPT !.after.installed = TRUE], "boot"),
                    Send([Failed(agent[h]) EXCEPT !.after.installed = FALSE])} :
          \E n : OnHost(h, a, n)
    BY <1>9 DEF executeInstallerController
  <2>2. a.pc \in Patching \cup {"boot"}
    <3>1. /\ Send(Failed(agent[h])).pc \in Patching
          /\ Send([Failed(agent[h]) EXCEPT !.after.installed = FALSE]).pc \in Patching
      BY <1>6
    <3>2. Step([agent[h] EXCEPT !.after.installed = TRUE], "boot").pc = "boot"
      BY <1>6 DEF AgentSteps
    <3> QED BY <2>1, <3>1, <3>2
  <2>3. ~host[h].bootstrapped
    BY <1>9 DEF executeInstallerController, BootstrapInv
  <2> QED BY <1>4, <2>1, <2>2, <2>3 DEF Patching
<1>10. CASE bootstrapK8sNode(h)
  <2>1. PICK a \in {Send([agent[h] EXCEPT !.after.bootstrapped = TRUE]),
                    Send([Failed(agent[h]) EXCEPT !.after.bootstrapped = FALSE])} :
          \E n : OnHost(h, a, n)
    BY <1>10 DEF bootstrapK8sNode
  <2>2. a.pc \in Patching
    BY <1>6, <2>1 DEF AgentSteps
  <2>3. ~host[h].bootstrapped
    BY <1>10 DEF bootstrapK8sNode, BootstrapInv
  <2> QED BY <1>4, <2>1, <2>2, <2>3 DEF Patching
<1>11. CASE resetNode(h)
  <2>1. PICK a \in {Step([agent[h] EXCEPT !.after.installed = FALSE], "uninstall"),
                    Send(Failed(agent[h]))} :
          \E n : OnHost(h, a, n)
    BY <1>11 DEF resetNode
  <2>2. a.pc \in Patching \cup {"uninstall"}
    BY <1>6, <2>1 DEF AgentSteps
  <2>3. host[h].cleanup
    BY <1>11 DEF resetNode, BootstrapInv
  <2> QED BY <1>4, <2>1, <2>2, <2>3 DEF Patching
<1>12. CASE executeUninstallScript(h)
  <2>1. PICK a \in {Step([agent[h] EXCEPT !.after.bootstrapped = FALSE], "release"),
                    Send(Failed(agent[h]))} :
          \E n : OnHost(h, a, n)
    BY <1>12 DEF executeUninstallScript
  <2>2. a.pc \in Patching \cup {"release"}
    BY <1>6, <2>1 DEF AgentSteps
  <2>3. host[h].cleanup
    BY <1>12 DEF executeUninstallScript, BootstrapInv
  <2> QED BY <1>4, <2>1, <2>2, <2>3 DEF Patching
<1>13. CASE removeAnnotations(h)
  <2>1. PICK a \in {Send([agent[h] EXCEPT !.after = Released(@)]), Send(Failed(agent[h]))} :
          OnHost(h, a, node[h])
    BY <1>13 DEF removeAnnotations
  <2>2. a.pc \in Patching
    BY <1>6, <2>1
  <2> QED BY <1>4, <2>1, <2>2 DEF Patching
<1>14. CASE patchHostConditions(h) \/ patchHostObject(h) \/ patchHostStatus(h)
  <2>1. PICK next \in {SendObject(agent[h]), SendStatus(agent[h]), Step(agent[h], "idle")} :
          \E o, new : PatchAgentHost(h, o, new, next)
    BY <1>14 DEF patchHostConditions, patchHostObject, patchHostStatus
  <2>2. next \in AgentState /\ next.pc \in Patching
    <3>1. /\ SendObject(agent[h]) \in AgentState /\ SendObject(agent[h]).pc \in Patching
          /\ SendStatus(agent[h]) \in AgentState /\ SendStatus(agent[h]).pc \in Patching
      BY <1>2, SendPatches, AgentTypes
    <3>2. Step(agent[h], "idle") \in AgentState /\ Step(agent[h], "idle").pc = "idle"
      BY <1>2, SendPatches, AgentTypes DEF AgentSteps
    <3> QED BY <2>1, <3>1, <3>2 DEF Patching
  <2> QED BY <1>5, <2>1, <2>2
<1>15. CASE AgentCrash(h)
  <2>1. agent'[h].pc = "idle"
    BY <1>15 DEF AgentCrash, TypeOK, AgentIdle
  <2> QED BY <1>3, <1>15, <2>1 DEF AgentCrash, Kept, TypeOK
<1> QED BY <1>1, <1>7, <1>8, <1>9, <1>10, <1>11, <1>12, <1>13, <1>14, <1>15 DEF AgentStep

\* Every other step of the system is such a write of the manager, or none, and
\* leaves the agents and the software on the hosts alone.
LEMMA StepWrites ==
    ASSUME TypeOK, [Next]_vars
    PROVE  AgentNext \/ (ManagerWrite /\ UNCHANGED <<agent, node>>)
<1>1. ASSUME UNCHANGED host PROVE ManagerWrite
  BY <1>1 DEF ManagerWrite
<1>2. CASE UNCHANGED vars
  BY <1>1, <1>2 DEF vars, apiVars
<1>3. CASE BmNext /\ UNCHANGED <<hr, ic, agent>>
  <2>1. UNCHANGED node
    BY <1>3 DEF BmNext, BmStep, Reconcile, apiVars, setPausedConditionForByoHost,
                unsetPausedConditionForByoHost, markHostForCleanup, createInstallerConfig,
                attachByoHost, attachByoHostStatus, setInstallationSecretForByoHost,
                setUninstallationSecretForByoHost, updateNodeProviderID, PatchHost,
                patchMachineConditions, patchMachineObject, patchMachineStatus, PatchMachine
  <2> QED BY <1>3, <2>1, BmWrites
<1>4. CASE HrNext /\ UNCHANGED <<bm, ic, agent>>
  <2>1. UNCHANGED node
    BY <1>4 DEF HrNext, HrStep, HostReconcile, deleteUninstallSecret,
                clearUninstallReference, apiVars
  <2> QED BY <1>4, <2>1, HrWrites
<1>5. CASE IcNext /\ UNCHANGED <<bm, hr, agent>>
  BY <1>1, <1>5 DEF IcNext, IcStep, ConfigReconcile, storeInstallSecret,
                    storeUninstallSecret, patchConfig, deleteConfig, apiVars
<1>6. CASE Environment /\ UNCHANGED <<bm, hr, ic, agent>>
  BY <1>1, <1>6 DEF Environment, Refresh, RefreshHost, RefreshMachine, PauseCluster,
                    UnpauseCluster, InfrastructureReady, CreateMachine, DataSecretReady,
                    DeleteMachine, CollectConfig
<1>7. CASE ManagerCrash
  BY <1>1, <1>7 DEF ManagerCrash
<1> QED BY <1>2, <1>3, <1>4, <1>5, <1>6, <1>7 DEF Next

\* Every step of the system keeps the invariant and the software of a host
\* that is bootstrapped and not marked.
LEMMA StepKeeps == ASSUME TypeOK, BootstrapInv, [Next]_vars  PROVE \A h \in Hosts : Kept(h)
<1>1. ASSUME ManagerWrite, UNCHANGED <<agent, node>> PROVE \A h \in Hosts : Kept(h)
  BY <1>1 DEF ManagerWrite, Kept, BootstrapInv
<1> QED BY <1>1, StepWrites, AgentBootstraps

\* The invariant holds in every behaviour.
THEOREM BootstrapInvariant == Spec => []BootstrapInv
<1>1. Init => BootstrapInv
  <2> SUFFICES ASSUME Init PROVE BootstrapInv
    OBVIOUS
  <2>1. \A h \in Hosts : agent[h].pc = "idle"
    BY DEF Init, AgentIdle
  <2> QED BY <2>1 DEF BootstrapInv
<1>2. TypeOK /\ BootstrapInv /\ [Next]_vars => BootstrapInv'
  BY StepKeeps DEF Kept, BootstrapInv
<1> QED BY <1>1, <1>2, TypeCorrect, PTL DEF Spec

\* No step changes the software of a host that reports a successful bootstrap
\* and is not marked for cleanup.
THEOREM BootstrappedOnce == Spec => BootstrapOnce
<1>1. TypeOK /\ BootstrapInv /\ [Next]_vars
        => [\A h \in Hosts : host[h].bootstrapped /\ ~host[h].cleanup
                              => node'[h] = node[h]]_vars
  BY StepKeeps DEF Kept
<1> QED BY <1>1, TypeCorrect, BootstrapInvariant, PTL DEF Spec, BootstrapOnce

============================================================================
