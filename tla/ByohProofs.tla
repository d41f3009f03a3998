----------------------------- MODULE ByohProofs -----------------------------
(***************************************************************************)
(* Proofs about Byoh, for any hosts, machines, caches and number of faults. *)
(***************************************************************************)
EXTENDS Byoh, TLAPS

(***************************************************************************)
(* Types of the operators the actions are built from.                      *)
(***************************************************************************)
\* A request of patch.Helper turns a ByoHost into a ByoHost.
LEMMA PatchTypes ==
    ASSUME NEW c \in ByoHost, NEW b \in ByoHost, NEW a \in ByoHost
    PROVE  /\ PatchConditions(c, b, a) \in ByoHost
           /\ PatchObject(c, b, a) \in ByoHost
           /\ PatchStatus(c, b, a) \in ByoHost
<1>1. PatchConditions(c, b, a) \in ByoHost
  BY DEF PatchConditions, Merge, ByoHost
<1>2. PatchObject(c, b, a) \in ByoHost
  <2>1. /\ Merge(c.attached, b.attached, a.attached) \in Owner
        /\ Merge(c.bootstrapSecret, b.bootstrapSecret, a.bootstrapSecret) \in Owner
        /\ Merge(c.installationSecret, b.installationSecret, a.installationSecret) \in Owner
        /\ Merge(c.uninstallationSecret, b.uninstallationSecret, a.uninstallationSecret) \in Owner
    BY DEF Merge, ByoHost
  <2>2. /\ Merge(c.cluster, b.cluster, a.cluster) \in BOOLEAN
        /\ Merge(c.cleanup, b.cleanup, a.cleanup) \in BOOLEAN
        /\ Merge(c.paused, b.paused, a.paused) \in BOOLEAN
    BY DEF Merge, ByoHost
  <2> QED BY <2>1, <2>2 DEF PatchObject, ByoHost
<1>3. PatchStatus(c, b, a) \in ByoHost
  BY DEF PatchStatus, Merge, ByoHost
<1> QED BY <1>1, <1>2, <1>3

\* The initial objects have their types.
LEMMA InitialTypes ==
    /\ NewHost \in ByoHost /\ NewMachine \in ByoMachine /\ NewNode \in Node
    /\ Idle \in Scope /\ HrIdle \in HrState /\ IcIdle \in IcState /\ AgentIdle \in AgentState
<1>1. NewHost \in ByoHost /\ NewMachine \in ByoMachine /\ NewNode \in Node
  BY DEF NewHost, ByoHost, NewMachine, ByoMachine, NewNode, Node, Owner, Reasons
<1> QED BY <1>1 DEF Idle, Scope, BmSteps, Owner, HrIdle, HrState, IcState, AgentIdle,
                    AgentState, AgentSteps

\* Every call counts its fault.
LEMMA CallTypes ==
    ASSUME faults \in Nat, NEW o, NEW client, Call(o, client)
    PROVE  faults' \in Nat
BY DEF Call, Fault

\* The scope of a reconcile stays a scope through every local step of it.
LEMMA ScopeTypes ==
    ASSUME NEW s \in Scope
    PROVE  /\ Idle \in Scope
           /\ \A step \in BmSteps : Goto(s, step) \in Scope
           /\ Return(s) \in Scope
           /\ \A r \in Reasons : MarkFalse(s, r) \in Scope
           /\ RemoveFinalizer(s) \in Scope
           /\ AddFinalizer(s) \in Scope
           /\ \A b \in ByoHost : [s EXCEPT !.host = b] \in Scope
<1>1. Idle \in Scope
  BY InitialTypes DEF Idle, Scope, BmSteps, Owner
<1>2. \A step \in BmSteps : Goto(s, step) \in Scope
  BY DEF Goto, Scope
<1>3. AfterObject(s) \in Scope
  BY <1>1, <1>2 DEF AfterObject, BmSteps
<1>4. AfterConditions(s) \in Scope
  BY <1>2, <1>3 DEF AfterConditions, BmSteps
<1>5. Return(s) \in Scope
  BY <1>2, <1>4 DEF Return, BmSteps
<1>6. \A r \in Reasons : MarkFalse(s, r) \in Scope
  BY DEF MarkFalse, Scope, ByoMachine
<1>7. RemoveFinalizer(s) \in Scope /\ AddFinalizer(s) \in Scope
  BY DEF RemoveFinalizer, AddFinalizer, Scope, ByoMachine
<1>8. \A b \in ByoHost : [s EXCEPT !.host = b] \in Scope
  BY DEF Scope
<1> QED BY <1>1, <1>2, <1>5, <1>6, <1>7, <1>8

\* So does the scope from any point of reconcileNormal to its next request.
LEMMA NormalTypes ==
    ASSUME TypeOK, NEW s \in Scope
    PROVE  /\ AfterInstall(s) \in Scope
           /\ WithHost(s) \in Scope
           /\ AfterConfig(s) \subseteq Scope
           /\ AfterResume(s) \subseteq Scope
           /\ reconcileNormal(s) \subseteq Scope
           /\ reconcileDelete(s) \subseteq Scope
           /\ reconcilePaused(s) \subseteq Scope
<1>1. \A t \in Scope : AfterInstall(t) \in Scope
  BY ScopeTypes DEF AfterInstall, BmSteps
<1>2. WithHost(s) \in Scope
  <2>1. [s EXCEPT !.after.hostInfo = TRUE] \in Scope
    BY DEF Scope, ByoMachine
  <2> QED BY <2>1, <1>1, ScopeTypes DEF WithHost, BmSteps
<1>3. ListHosts(s) \subseteq Scope
  <2>1. \A h \in Hosts : HostView(h) \in ByoHost
    BY DEF HostView, TypeOK, ApiTypeOK
  <2>2. \A h \in Hosts : [s EXCEPT !.h = h, !.host = HostView(h)] \in Scope
    BY <2>1 DEF Scope
  <2>3. Return(MarkFalse(s, "BYOHostsUnavailable")) \in Scope
    BY ScopeTypes DEF Reasons
  <2> QED BY <2>2, <2>3, ScopeTypes DEF ListHosts, BmSteps
<1>4. AfterConfig(s) \subseteq Scope
  BY <1>2, <1>3, ScopeTypes DEF AfterConfig, Reasons
<1>5. AfterResume(s) \subseteq Scope
  BY <1>4, ScopeTypes DEF AfterResume, BmSteps
<1>6. reconcileNormal(s) \subseteq Scope
  BY <1>5, ScopeTypes DEF reconcileNormal, BmSteps
<1>7. reconcileDelete(s) \subseteq Scope
  BY ScopeTypes DEF reconcileDelete, BmSteps
<1>8. reconcilePaused(s) \subseteq Scope
  BY ScopeTypes DEF reconcilePaused, BmSteps, Reasons
<1> QED BY <1>1, <1>2, <1>4, <1>5, <1>6, <1>7, <1>8

\* An agent's state stays one through every local step of its reconcile.
LEMMA AgentTypes ==
    ASSUME NEW a \in AgentState
    PROVE  /\ AgentIdle \in AgentState
           /\ \A pc \in AgentSteps : Step(a, pc) \in AgentState
           /\ Failed(a) \in AgentState
           /\ SendStatus(a) \in AgentState
           /\ SendObject(a) \in AgentState
           /\ Send(a) \in AgentState
           /\ \A x \in BOOLEAN : /\ [a EXCEPT !.after.installed = x] \in AgentState
                                 /\ [a EXCEPT !.after.bootstrapped = x] \in AgentState
           /\ [a EXCEPT !.after = Released(a.after)] \in AgentState
<1>1. AgentIdle \in AgentState
  BY InitialTypes DEF AgentIdle, AgentState, AgentSteps
<1>2. \A pc \in AgentSteps : Step(a, pc) \in AgentState
  BY DEF Step, AgentState
<1>3. Failed(a) \in AgentState
  BY DEF Failed, AgentState
<1>4. SendStatus(a) \in AgentState
  BY <1>2 DEF SendStatus, AgentSteps
<1>5. SendObject(a) \in AgentState
  BY <1>2, <1>4 DEF SendObject, AgentSteps
<1>6. Send(a) \in AgentState
  BY <1>2, <1>5 DEF Send, AgentSteps
<1>7. \A x \in BOOLEAN : /\ [a EXCEPT !.after.installed = x] \in AgentState
                          /\ [a EXCEPT !.after.bootstrapped = x] \in AgentState
  BY DEF AgentState, ByoHost
<1>8. [a EXCEPT !.after = Released(a.after)] \in AgentState
  <2>1. Released(a.after) \in ByoHost
    BY DEF Released, AgentState, ByoHost, Owner
  <2> QED BY <2>1 DEF AgentState
<1> QED BY <1>1, <1>2, <1>3, <1>4, <1>5, <1>6, <1>7, <1>8

(***************************************************************************)
(* Type correctness, one lemma per component.                              *)
(***************************************************************************)
\* Every request of the ByoMachine controller keeps the types.
LEMMA BmTypes == ASSUME TypeOK, BmNext, UNCHANGED <<hr, ic, agent>>  PROVE TypeOK'
<1> USE DEF TypeOK
<1>1. bm \in Scope /\ bm.m \in Owner /\ bm.host \in ByoHost
  BY DEF Scope
<1>2. ASSUME NEW o \in Outcomes, NEW new, NEW ok, NEW failed,
             PatchHost(o, new, ok, failed),
             bm.h \in Hosts => new \in ByoHost,
             ok \subseteq Scope, failed \in Scope
      PROVE  TypeOK'
  <2>1. bm' \in Scope
    BY <1>2 DEF PatchHost
  <2>2. host' \in [Hosts -> ByoHost]
    BY <1>2 DEF PatchHost, WriteHost, ApiTypeOK
  <2>3. queued' \in [Hosts -> BOOLEAN]
    BY <1>2 DEF PatchHost, WriteHost, ApiTypeOK
  <2>4. faults' \in Nat
    BY <1>2, CallTypes DEF PatchHost, WriteHost, ApiTypeOK
  <2> QED BY <1>2, <2>1, <2>2, <2>3, <2>4 DEF PatchHost, ApiTypeOK
<1>3. ASSUME NEW o \in Outcomes, NEW new, NEW next, PatchMachine(o, new, next),
             bm.m \in Machines => new \in ByoMachine, next \in Scope
      PROVE  TypeOK'
  <2>1. mach' \in [Machines -> ByoMachine]
    BY <1>3 DEF PatchMachine, ApiTypeOK
  <2>2. faults' \in Nat
    BY <1>3, CallTypes DEF PatchMachine, ApiTypeOK
  <2> QED BY <1>3, <2>1, <2>2 DEF PatchMachine, ApiTypeOK
<1>4. CASE \E m \in Machines : Reconcile(m)
  <2>1. PICK m \in Machines : Reconcile(m)
    BY <1>4
  <2>2. ASSUME NEW h \in FetchAttachedByoHost(m)
        PROVE  newByoMachineScope(m, h) \in Scope
    <3>1. h \in Hosts \cup {None}
      BY <2>2 DEF FetchAttachedByoHost
    <3>2. /\ MachView(m) \in ByoMachine
          /\ (IF h = None THEN NewHost ELSE HostView(h)) \in ByoHost
      BY <3>1, InitialTypes DEF MachView, HostView, ApiTypeOK
    <3> QED BY <3>1, <3>2 DEF newByoMachineScope, Scope, BmSteps, Owner
  <2>3. bm' \in Scope
    <3>1. PICK h \in FetchAttachedByoHost(m) :
            LET t == newByoMachineScope(m, h)
            IN  bm' \in CASE clusterPaused -> reconcilePaused(t)
                          [] ~clusterPaused /\ t.mach.phase = "deleting" -> reconcileDelete(t)
                          [] OTHER -> reconcileNormal(AddFinalizer(t))
      BY <2>1 DEF Reconcile
    <3> DEFINE t == newByoMachineScope(m, h)
    <3>2. t \in Scope /\ AddFinalizer(t) \in Scope
      BY <2>2, ScopeTypes
    <3>3. /\ reconcilePaused(t) \subseteq Scope
          /\ reconcileDelete(t) \subseteq Scope
          /\ reconcileNormal(AddFinalizer(t)) \subseteq Scope
      BY <3>2, NormalTypes
    <3> HIDE DEF t
    <3> QED BY <3>1, <3>3 DEF t
  <2> QED BY <2>1, <2>3 DEF Reconcile, apiVars, ApiTypeOK
<1>5. CASE setPausedConditionForByoHost
  <2> DEFINE after == [bm.host EXCEPT !.paused = TRUE]
             t == Return(MarkFalse(bm, "ClusterOrResourcePaused"))
  <2>1. after \in ByoHost /\ t \in Scope
    BY <1>1, ScopeTypes DEF ByoHost, Reasons
  <2>2. bm.h \in Hosts => PatchObject(host[bm.h], bm.host, after) \in ByoHost
    BY <1>1, <2>1, PatchTypes DEF ApiTypeOK
  <2>3. PICK o \in Outcomes : PatchHost(o, PatchObject(host[bm.h], bm.host, after), {t}, t)
    BY <1>5 DEF setPausedConditionForByoHost
  <2> HIDE DEF after, t, TypeOK
  <2> QED BY <1>2, <2>1, <2>2, <2>3
<1>6. CASE unsetPausedConditionForByoHost
  <2> DEFINE after == [bm.host EXCEPT !.paused = FALSE]
             ok == AfterResume([bm EXCEPT !.host = after])
  <2>1. after \in ByoHost
    BY <1>1 DEF ByoHost
  <2>2. ok \subseteq Scope /\ Return(bm) \in Scope
    <3>1. [bm EXCEPT !.host = after] \in Scope
      BY <1>1, <2>1, ScopeTypes
    <3> QED BY <3>1, <1>1, NormalTypes, ScopeTypes
  <2>3. bm.h \in Hosts => PatchObject(host[bm.h], bm.host, after) \in ByoHost
    BY <1>1, <2>1, PatchTypes DEF ApiTypeOK
  <2>4. PICK o \in Outcomes : PatchHost(o, PatchObject(host[bm.h], bm.host, after), ok, Return(bm))
    BY <1>6 DEF unsetPausedConditionForByoHost
  <2> HIDE DEF after, ok, TypeOK
  <2> QED BY <1>2, <2>2, <2>3, <2>4
<1>7. CASE markHostForCleanup
  <2> DEFINE after == [bm.host EXCEPT !.cleanup = TRUE]
             ok == {Return(RemoveFinalizer(bm))}
  <2>1. after \in ByoHost
    BY <1>1 DEF ByoHost
  <2>2. ok \subseteq Scope /\ Return(bm) \in Scope
    BY <1>1, ScopeTypes
  <2>3. bm.h \in Hosts => PatchObject(host[bm.h], bm.host, after) \in ByoHost
    BY <1>1, <2>1, PatchTypes DEF ApiTypeOK
  <2>4. PICK o \in Outcomes : PatchHost(o, PatchObject(host[bm.h], bm.host, after), ok, Return(bm))
    BY <1>7 DEF markHostForCleanup
  <2> HIDE DEF after, ok, TypeOK
  <2> QED BY <1>2, <2>2, <2>3, <2>4
<1>8. CASE createInstallerConfig
  <2>1. bm' \in Scope
    BY <1>1, <1>8, NormalTypes, ScopeTypes DEF createInstallerConfig
  <2>2. config' \in [Machines -> {"absent", "waiting", "ready", "deleting"}]
    BY <1>8 DEF createInstallerConfig, ApiTypeOK
  <2>3. faults' \in Nat
    BY <1>8, CallTypes DEF createInstallerConfig, ApiTypeOK
  <2> QED BY <1>8, <2>1, <2>2, <2>3 DEF createInstallerConfig, ApiTypeOK
<1>9. CASE attachByoHost \/ attachByoHostStatus
  <2>1. Claimed(bm) \in ByoHost
    BY <1>1 DEF Claimed, ByoHost
  <2>2. bm.h \in Hosts => /\ PatchObject(host[bm.h], bm.host, Claimed(bm)) \in ByoHost
                          /\ PatchStatus(host[bm.h], bm.host, Claimed(bm)) \in ByoHost
    BY <1>1, <2>1, PatchTypes DEF ApiTypeOK
  <2>3. CASE attachByoHost
    <3>1. [bm EXCEPT !.failed = TRUE] \in Scope
      BY DEF Scope
    <3>2. Goto(bm, "attachStatus") \in Scope /\ Goto([bm EXCEPT !.failed = TRUE], "attachStatus") \in Scope
      BY <3>1, ScopeTypes DEF BmSteps
    <3>3. PICK o \in Outcomes :
            PatchHost(o, PatchObject(host[bm.h], bm.host, Claimed(bm)),
                      {Goto(bm, "attachStatus")},
                      Goto([bm EXCEPT !.failed = TRUE], "attachStatus"))
      BY <2>3 DEF attachByoHost
    <3> HIDE DEF TypeOK
    <3> QED BY <1>2, <2>2, <3>2, <3>3
  <2>4. CASE attachByoHostStatus
    <3> DEFINE attached == MarkFalse([bm EXCEPT !.host = Claimed(bm)],
                                     "InstallationSecretNotAvailable")
    <3>1. attached \in Scope
      BY <2>1, ScopeTypes DEF Reasons
    <3>2. WithHost(attached) \in Scope /\ Return(bm) \in Scope
      BY <3>1, NormalTypes, ScopeTypes
    <3>3. PICK o \in Outcomes :
            PatchHost(o, PatchStatus(host[bm.h], bm.host, Claimed(bm)),
                      {IF bm.failed THEN Return(bm) ELSE WithHost(attached)}, Return(bm))
      BY <2>4 DEF attachByoHostStatus
    <3> HIDE DEF attached, TypeOK
    <3> QED BY <1>2, <2>2, <3>2, <3>3
  <2> QED BY <1>9, <2>3, <2>4
<1>10. CASE setInstallationSecretForByoHost
  <2> DEFINE after == [bm.host EXCEPT !.installationSecret = bm.m]
             ok == {AfterInstall([bm EXCEPT !.host = after])}
  <2>1. after \in ByoHost
    BY <1>1 DEF ByoHost
  <2>2. ok \subseteq Scope /\ Return(bm) \in Scope
    <3>1. [bm EXCEPT !.host = after] \in Scope
      BY <1>1, <2>1, ScopeTypes
    <3> QED BY <3>1, <1>1, NormalTypes, ScopeTypes
  <2>3. bm.h \in Hosts => PatchObject(host[bm.h], bm.host, after) \in ByoHost
    BY <1>1, <2>1, PatchTypes DEF ApiTypeOK
  <2>4. PICK o \in Outcomes : PatchHost(o, PatchObject(host[bm.h], bm.host, after), ok, Return(bm))
    BY <1>10 DEF setInstallationSecretForByoHost
  <2> HIDE DEF after, ok, TypeOK
  <2> QED BY <1>2, <2>2, <2>3, <2>4
<1>11. CASE setUninstallationSecretForByoHost
  <2> DEFINE after == [bm.host EXCEPT !.uninstallationSecret = bm.m]
             ok == {Goto([bm EXCEPT !.host = after], "provider")}
  <2>1. after \in ByoHost
    BY <1>1 DEF ByoHost
  <2>2. ok \subseteq Scope /\ Return(bm) \in Scope
    <3>1. [bm EXCEPT !.host = after] \in Scope
      BY <1>1, <2>1, ScopeTypes
    <3> QED BY <3>1, <1>1, ScopeTypes DEF BmSteps
  <2>3. bm.h \in Hosts => PatchObject(host[bm.h], bm.host, after) \in ByoHost
    BY <1>1, <2>1, PatchTypes DEF ApiTypeOK
  <2>4. PICK o \in Outcomes : PatchHost(o, PatchObject(host[bm.h], bm.host, after), ok, Return(bm))
    BY <1>11 DEF setUninstallationSecretForByoHost
  <2> HIDE DEF after, ok, TypeOK
  <2> QED BY <1>2, <2>2, <2>3, <2>4
<1>12. CASE updateNodeProviderID
  <2>1. [bm EXCEPT !.after.providerID = TRUE, !.after.ready = TRUE,
                   !.after.reason = "True"] \in Scope
    BY DEF Scope, ByoMachine, Reasons
  <2>2. bm' \in Scope /\ faults' \in Nat
    BY <1>12, <2>1, ScopeTypes DEF updateNodeProviderID, Call, Fault, ApiTypeOK
  <2> QED BY <1>12, <2>2 DEF updateNodeProviderID, ApiTypeOK
<1>13. CASE patchMachineConditions
  <2>1. bm.m \in Machines => [mach[bm.m] EXCEPT !.reason = bm.after.reason] \in ByoMachine
    BY DEF Scope, ApiTypeOK, ByoMachine
  <2>2. AfterConditions(bm) \in Scope
    BY ScopeTypes DEF AfterConditions, AfterObject, BmSteps
  <2>3. PICK o \in Outcomes :
          PatchMachine(o, [mach[bm.m] EXCEPT !.reason = bm.after.reason], AfterConditions(bm))
    BY <1>13 DEF patchMachineConditions
  <2> HIDE DEF TypeOK
  <2> QED BY <1>3, <2>1, <2>2, <2>3
<1>14. CASE patchMachineObject
  <2> DEFINE finalizer == Merge(mach[bm.m].finalizer, bm.mach.finalizer, bm.after.finalizer)
             new == [mach[bm.m] EXCEPT
                       !.finalizer = finalizer,
                       !.providerID = Merge(@, bm.mach.providerID, bm.after.providerID),
                       !.phase = IF @ = "deleting" /\ ~finalizer THEN "gone" ELSE @]
  <2>1. ASSUME bm.m \in Machines PROVE new \in ByoMachine
    <3>1. mach[bm.m] \in ByoMachine /\ bm.after \in ByoMachine
      BY <2>1 DEF Scope, ApiTypeOK
    <3>2. /\ finalizer \in BOOLEAN
          /\ Merge(mach[bm.m].providerID, bm.mach.providerID, bm.after.providerID) \in BOOLEAN
      BY <3>1 DEF Merge, ByoMachine
    <3> HIDE DEF finalizer
    <3> QED BY <3>1, <3>2 DEF ByoMachine
  <2>2. AfterObject(bm) \in Scope
    BY ScopeTypes DEF AfterObject, BmSteps
  <2>3. PICK o \in Outcomes : PatchMachine(o, new, AfterObject(bm))
    BY <1>14 DEF patchMachineObject
  <2> HIDE DEF new, TypeOK
  <2> QED BY <1>3, <2>1, <2>2, <2>3
<1>15. CASE patchMachineStatus
  <2> DEFINE new == [mach[bm.m] EXCEPT
                       !.hostInfo = Merge(@, bm.mach.hostInfo, bm.after.hostInfo),
                       !.ready = Merge(@, bm.mach.ready, bm.after.ready)]
  <2>1. ASSUME bm.m \in Machines PROVE new \in ByoMachine
    <3>1. mach[bm.m] \in ByoMachine /\ bm.after \in ByoMachine
      BY <2>1 DEF Scope, ApiTypeOK
    <3>2. /\ Merge(mach[bm.m].hostInfo, bm.mach.hostInfo, bm.after.hostInfo) \in BOOLEAN
          /\ Merge(mach[bm.m].ready, bm.mach.ready, bm.after.ready) \in BOOLEAN
      BY <3>1 DEF Merge, ByoMachine
    <3> QED BY <3>1, <3>2 DEF ByoMachine
  <2>2. Idle \in Scope
    BY ScopeTypes
  <2>3. PICK o \in Outcomes : PatchMachine(o, new, Idle)
    BY <1>15 DEF patchMachineStatus
  <2> HIDE DEF new, TypeOK
  <2> QED BY <1>3, <2>1, <2>2, <2>3
<1> QED BY <1>4, <1>5, <1>6, <1>7, <1>8, <1>9, <1>10, <1>11, <1>12, <1>13, <1>14, <1>15
        DEF BmNext, BmStep

\* So does every step of the ByoHost controller.
LEMMA HrTypes == ASSUME TypeOK, HrNext, UNCHANGED <<bm, ic, agent>>  PROVE TypeOK'
<1> USE DEF TypeOK
<1>1. CASE \E h \in Hosts : HostReconcile(h)
  <2>1. PICK h \in Hosts : HostReconcile(h)
    BY <1>1
  <2>2. HostView(h) \in ByoHost
    BY DEF HostView, ApiTypeOK
  <2> QED BY <2>1, <2>2 DEF HostReconcile, HrState, apiVars, ApiTypeOK
<1>2. CASE deleteUninstallSecret
  <2>1. hr' \in HrState
    BY <1>2, InitialTypes DEF deleteUninstallSecret, HrIdle, HrState
  <2>2. uninstallSecret' \subseteq Machines
    BY <1>2 DEF deleteUninstallSecret, ApiTypeOK
  <2>3. faults' \in Nat
    BY <1>2, CallTypes DEF deleteUninstallSecret, ApiTypeOK
  <2> QED BY <1>2, <2>1, <2>2, <2>3 DEF deleteUninstallSecret, ApiTypeOK
<1>3. CASE clearUninstallReference
  <2> DEFINE after == [hr.before EXCEPT !.uninstallationSecret = None]
             new == PatchObject(host[hr.h], hr.before, after)
  <2>1. hr' \in HrState
    BY <1>3, InitialTypes DEF clearUninstallReference, HrIdle, HrState
  <2>2. hr.before \in ByoHost /\ after \in ByoHost
    BY DEF HrState, ByoHost, Owner
  <2>3. hr.h \in Hosts => new \in ByoHost
    BY <2>2, PatchTypes DEF ApiTypeOK
  <2>4. PICK o \in Outcomes : WriteHost(hr.h, new, o, "managerApi")
    BY <1>3 DEF clearUninstallReference
  <2> HIDE DEF after, new
  <2>5. host' \in [Hosts -> ByoHost]
    BY <2>3, <2>4 DEF WriteHost, ApiTypeOK
  <2>6. queued' \in [Hosts -> BOOLEAN]
    BY <2>4 DEF WriteHost, ApiTypeOK
  <2>7. faults' \in Nat
    BY <2>4, CallTypes DEF WriteHost, ApiTypeOK
  <2> QED BY <1>3, <2>1, <2>5, <2>6, <2>7 DEF clearUninstallReference, ApiTypeOK
<1> QED BY <1>1, <1>2, <1>3 DEF HrNext, HrStep

\* So does every step of the installer config controller.
LEMMA IcTypes == ASSUME TypeOK, IcNext, UNCHANGED <<bm, hr, agent>>  PROVE TypeOK'
<1> USE DEF TypeOK
<1>0. ic.pc # "idle" => ic.m \in Machines
  BY DEF IcState, IcIdle
<1>1. CASE \E m \in Machines : ConfigReconcile(m)
  BY <1>1 DEF ConfigReconcile, IcState, apiVars, ApiTypeOK
<1>2. CASE storeInstallSecret
  <2>1. ic' \in IcState
    BY <1>0, <1>2 DEF storeInstallSecret, IcState, IcIdle
  <2>2. installSecret' \subseteq Machines
    BY <1>0, <1>2 DEF storeInstallSecret, ApiTypeOK
  <2>3. faults' \in Nat
    BY <1>2, CallTypes DEF storeInstallSecret, ApiTypeOK
  <2> QED BY <1>2, <2>1, <2>2, <2>3 DEF storeInstallSecret, ApiTypeOK
<1>3. CASE storeUninstallSecret
  <2>1. ic' \in IcState
    BY <1>0, <1>3 DEF storeUninstallSecret, IcState, IcIdle
  <2>2. uninstallSecret' \subseteq Machines
    BY <1>0, <1>3 DEF storeUninstallSecret, ApiTypeOK
  <2>3. faults' \in Nat
    BY <1>3, CallTypes DEF storeUninstallSecret, ApiTypeOK
  <2> QED BY <1>3, <2>1, <2>2, <2>3 DEF storeUninstallSecret, ApiTypeOK
<1>4. CASE patchConfig
  <2>1. ic' \in IcState
    BY <1>4 DEF patchConfig, IcState
  <2>2. config' \in [Machines -> {"absent", "waiting", "ready", "deleting"}]
    BY <1>4 DEF patchConfig, ApiTypeOK
  <2>3. faults' \in Nat
    BY <1>4, CallTypes DEF patchConfig, ApiTypeOK
  <2> QED BY <1>4, <2>1, <2>2, <2>3 DEF patchConfig, ApiTypeOK
<1>5. CASE \E m \in Machines : deleteConfig(m)
  <2>1. PICK m \in Machines : deleteConfig(m)
    BY <1>5
  <2>2. config' \in [Machines -> {"absent", "waiting", "ready", "deleting"}]
    BY <2>1 DEF deleteConfig, ApiTypeOK
  <2>3. installSecret' \subseteq Machines
    BY <2>1 DEF deleteConfig, ApiTypeOK
  <2>4. faults' \in Nat
    BY <2>1, CallTypes DEF deleteConfig, ApiTypeOK
  <2> QED BY <2>1, <2>2, <2>3, <2>4 DEF deleteConfig, ApiTypeOK
<1> QED BY <1>1, <1>2, <1>3, <1>4, <1>5 DEF IcNext, IcStep

\* So does every step of an agent, its crash included.
LEMMA HostAgentTypes == ASSUME TypeOK, AgentNext, UNCHANGED <<bm, hr, ic>>  PROVE TypeOK'
<1> USE DEF TypeOK
<1>1. PICK h \in Hosts : AgentStep(h) \/ AgentCrash(h)
  BY DEF AgentNext
<1>2. /\ agent[h] \in AgentState
      /\ agent[h].before \in ByoHost
      /\ agent[h].after \in ByoHost
      /\ node[h] \in Node
      /\ host[h] \in ByoHost
  BY DEF AgentState, ApiTypeOK
<1>3. ASSUME NEW a \in AgentState, NEW n \in Node, OnHost(h, a, n), faults' \in Nat
      PROVE  TypeOK'
  <2>1. agent' \in [Hosts -> AgentState]
    BY <1>3, <1>2, AgentTypes DEF OnHost, Become
  <2>2. queued' \in [Hosts -> BOOLEAN]
    BY <1>3 DEF OnHost, Become, ApiTypeOK
  <2>3. node' \in [Hosts -> Node]
    BY <1>3 DEF OnHost, ApiTypeOK
  <2> QED BY <1>3, <2>1, <2>2, <2>3 DEF OnHost, ApiTypeOK
<1>4. \A ok : Runs(ok) => faults' \in Nat
  BY DEF Runs, Fault, ApiTypeOK
<1>5. CASE AgentReconcile(h)
  <2> DEFINE a == [pc |-> "idle", before |-> host[h], after |-> host[h], failed |-> FALSE]
             next == IF host[h].cleanup
                     THEN Step(a, IF host[h].installed THEN "reset" ELSE "uninstall")
                     ELSE Normal(a)
  <2>1. a \in AgentState
    BY <1>2 DEF AgentState, AgentSteps
  <2> HIDE DEF a
  <2>2. Normal(a) \in AgentState
    <3>1. [a EXCEPT !.after.bootstrapped = FALSE] \in AgentState
      BY <2>1, AgentTypes
    <3> QED BY <2>1, <3>1, AgentTypes DEF Normal, AgentSteps
  <2>3. next \in AgentState
    BY <2>1, <2>2, AgentTypes DEF AgentSteps
  <2>4. agent' = [agent EXCEPT ![h] = IF next.pc = "idle" THEN AgentIdle ELSE next]
    BY <1>5 DEF AgentReconcile, a
  <2> HIDE DEF next
  <2>5. agent' \in [Hosts -> AgentState]
    BY <1>2, <2>3, <2>4, AgentTypes
  <2> QED BY <1>5, <2>5 DEF AgentReconcile, ApiTypeOK
<1>6. CASE getBootstrapScript(h)
  <2> DEFINE a == agent[h]
             next(o, found) ==
               CASE o # "ok" \/ ~found -> Send(Failed(a))
                 [] o = "ok" /\ found /\ ~(h \notin SkipInstall /\ ~a.before.installed) ->
                      Step(a, "boot")
                 [] o = "ok" /\ found /\ (h \notin SkipInstall /\ ~a.before.installed)
                    /\ a.before.installationSecret = None -> Send(a)
                 [] OTHER -> Step(a, "install")
  <2>1. PICK o \in {"ok", "failed"}, found \in Found(a.before.bootstrapSecret) :
          /\ Call(o, "agentApi")
          /\ OnHost(h, next(o, found), node[h])
    BY <1>6 DEF getBootstrapScript
  <2>2. next(o, found) \in AgentState
    BY <1>2, AgentTypes DEF AgentSteps
  <2>3. faults' \in Nat
    BY <2>1, CallTypes DEF ApiTypeOK
  <2> HIDE DEF TypeOK, next
  <2> QED BY <1>2, <1>3, <2>1, <2>2, <2>3
<1>7. CASE executeInstallerController(h)
  <2> DEFINE a == agent[h]
             script == a.before.installationSecret
             done == Step([a EXCEPT !.after.installed = TRUE], "boot")
             bad == Send([Failed(a) EXCEPT !.after.installed = FALSE])
  <2>1. /\ Send(Failed(a)) \in AgentState
        /\ done \in AgentState
        /\ bad \in AgentState
    BY <1>2, AgentTypes DEF AgentSteps
  <2>2. \A c \in {node[h].components, script} : [node[h] EXCEPT !.components = c] \in Node
    BY <1>2 DEF Node, ByoHost
  <2>3. faults' \in Nat
    <3>1. \/ Fault("agentApi") \/ UNCHANGED faults
          \/ Runs(TRUE) \/ Runs(FALSE)
      BY <1>7 DEF executeInstallerController
    <3>2. Fault("agentApi") \/ UNCHANGED faults => faults' \in Nat
      BY DEF Fault, ApiTypeOK
    <3> QED BY <1>4, <3>1, <3>2
  <2>4. \E b \in AgentState, n \in Node : OnHost(h, b, n)
    <3> HIDE DEF done, bad, TypeOK
    <3> QED BY <1>2, <1>7, <2>1, <2>2 DEF executeInstallerController, done, bad
  <2> HIDE DEF TypeOK
  <2> QED BY <1>3, <2>3, <2>4
<1>8. CASE bootstrapK8sNode(h)
  <2> DEFINE a == agent[h]
             done == Send([a EXCEPT !.after.bootstrapped = TRUE])
             bad == Send([Failed(a) EXCEPT !.after.bootstrapped = FALSE])
  <2>1. done \in AgentState /\ bad \in AgentState
    BY <1>2, AgentTypes
  <2>2. /\ [node[h] EXCEPT !.joined = a.before.bootstrapSecret] \in Node
        /\ [node[h] EXCEPT !.joined = None] \in Node
    BY <1>2 DEF Node, ByoHost, Owner
  <2>3. faults' \in Nat
    BY <1>4, <1>8 DEF bootstrapK8sNode
  <2>4. \E b \in AgentState, n \in Node : OnHost(h, b, n)
    BY <1>2, <1>8, <2>1, <2>2 DEF bootstrapK8sNode
  <2> HIDE DEF TypeOK
  <2> QED BY <1>3, <2>3, <2>4
<1>9. CASE resetNode(h)
  <2> DEFINE a == agent[h]
             done == Step([a EXCEPT !.after.installed = FALSE], "uninstall")
  <2>1. done \in AgentState /\ Send(Failed(a)) \in AgentState
    BY <1>2, AgentTypes DEF AgentSteps
  <2>2. \A j \in {None, node[h].joined} : [node[h] EXCEPT !.joined = j] \in Node
    BY <1>2 DEF Node, Owner
  <2>3. faults' \in Nat
    BY <1>4, <1>9 DEF resetNode
  <2>4. \E b \in AgentState, n \in Node : OnHost(h, b, n)
    BY <1>2, <1>9, <2>1, <2>2 DEF resetNode
  <2> HIDE DEF TypeOK
  <2> QED BY <1>3, <2>3, <2>4
<1>10. CASE executeUninstallScript(h)
  <2> DEFINE a == agent[h]
             absent == [a EXCEPT !.after.bootstrapped = FALSE]
  <2>1. Step(absent, "release") \in AgentState /\ Send(Failed(a)) \in AgentState
    BY <1>2, AgentTypes DEF AgentSteps
  <2>2. faults' \in Nat
    <3>1. \/ Fault("agentApi") \/ UNCHANGED faults
          \/ Runs(TRUE) \/ Runs(FALSE)
      BY <1>10 DEF executeUninstallScript
    <3>2. Fault("agentApi") \/ UNCHANGED faults => faults' \in Nat
      BY DEF Fault, ApiTypeOK
    <3> QED BY <1>4, <3>1, <3>2
  <2>3. \E b \in AgentState, n \in Node : OnHost(h, b, n)
    BY <1>2, <1>10, <2>1, InitialTypes DEF executeUninstallScript
  <2> HIDE DEF TypeOK
  <2> QED BY <1>3, <2>2, <2>3
<1>11. CASE removeAnnotations(h)
  <2> DEFINE done == [agent[h] EXCEPT !.after = Released(@)]
  <2>1. Send(done) \in AgentState /\ Send(Failed(agent[h])) \in AgentState
    BY <1>2, AgentTypes
  <2>2. faults' \in Nat
    BY <1>4, <1>11 DEF removeAnnotations
  <2>3. \E b \in AgentState : OnHost(h, b, node[h])
    BY <1>11, <2>1 DEF removeAnnotations
  <2> HIDE DEF TypeOK
  <2> QED BY <1>2, <1>3, <2>2, <2>3
<1>12. ASSUME NEW o \in Outcomes, NEW new \in ByoHost, NEW next \in AgentState,
              PatchAgentHost(h, o, new, next)
       PROVE  TypeOK'
  <2> DEFINE a == IF o = "ok" THEN next ELSE Failed(next)
  <2>1. a \in AgentState
    BY <1>12, AgentTypes
  <2>2. Become(h, a, host'[h] # host[h] /\ ~host'[h].paused)
    BY <1>12 DEF PatchAgentHost
  <2> HIDE DEF a
  <2>3. agent' \in [Hosts -> AgentState]
    BY <1>2, <2>1, <2>2, AgentTypes DEF Become
  <2>4. queued' \in [Hosts -> BOOLEAN]
    BY <2>2 DEF Become, ApiTypeOK
  <2>5. host' \in [Hosts -> ByoHost]
    BY <1>12 DEF PatchAgentHost, ApiTypeOK
  <2>6. faults' \in Nat
    BY <1>12, CallTypes DEF PatchAgentHost, ApiTypeOK
  <2> QED BY <1>12, <2>3, <2>4, <2>5, <2>6 DEF PatchAgentHost, ApiTypeOK
<1>13. CASE patchHostConditions(h)
  <2>1. SendObject(agent[h]) \in AgentState
    BY <1>2, AgentTypes
  <2>2. PatchConditions(host[h], agent[h].before, agent[h].after) \in ByoHost
    BY <1>2, PatchTypes
  <2> HIDE DEF TypeOK
  <2> QED BY <1>12, <1>13, <2>1, <2>2 DEF patchHostConditions
<1>14. CASE patchHostObject(h)
  <2>1. SendStatus(agent[h]) \in AgentState
    BY <1>2, AgentTypes
  <2>2. PatchObject(host[h], agent[h].before, agent[h].after) \in ByoHost
    BY <1>2, PatchTypes
  <2> HIDE DEF TypeOK
  <2> QED BY <1>12, <1>14, <2>1, <2>2 DEF patchHostObject
<1>15. CASE patchHostStatus(h)
  <2>1. Step(agent[h], "idle") \in AgentState
    BY <1>2, AgentTypes DEF AgentSteps
  <2>2. PatchStatus(host[h], agent[h].before, agent[h].after) \in ByoHost
    BY <1>2, PatchTypes
  <2> HIDE DEF TypeOK
  <2> QED BY <1>12, <1>15, <2>1, <2>2 DEF patchHostStatus
<1>16. CASE AgentCrash(h)
  <2>1. agent' \in [Hosts -> AgentState]
    BY <1>2, <1>16, AgentTypes DEF AgentCrash
  <2>2. queued' \in [Hosts -> BOOLEAN]
    BY <1>2, <1>16 DEF AgentCrash, ApiTypeOK, ByoHost
  <2> QED BY <1>16, <2>1, <2>2 DEF AgentCrash, Fault, ApiTypeOK
<1> QED BY <1>1, <1>5, <1>6, <1>7, <1>8, <1>9, <1>10, <1>11, <1>13, <1>14, <1>15, <1>16
        DEF AgentStep

\* What Cluster API, the operator and the caches do keeps the types.
LEMMA EnvironmentTypes ==
    ASSUME TypeOK, Environment, UNCHANGED <<bm, hr, ic, agent>>  PROVE TypeOK'
<1> USE DEF TypeOK
<1>1. CASE Refresh
  BY <1>1 DEF Refresh, RefreshHost, RefreshMachine, ApiTypeOK
<1>2. CASE PauseCluster \/ UnpauseCluster
  <2>1. faults' \in Nat
    BY <1>2 DEF PauseCluster, UnpauseCluster, Fault, ApiTypeOK
  <2>2. clusterPaused' \in BOOLEAN
    BY <1>2 DEF PauseCluster, UnpauseCluster
  <2> QED BY <1>2, <2>1, <2>2 DEF PauseCluster, UnpauseCluster, ApiTypeOK
<1>3. CASE InfrastructureReady \/ \E m \in Machines : DataSecretReady(m)
  <2>1. gate' \in [infrastructure : BOOLEAN, data : SUBSET Machines]
    <3>1. CASE InfrastructureReady
      BY <3>1 DEF InfrastructureReady, ApiTypeOK
    <3>2. ASSUME NEW m \in Machines, DataSecretReady(m)
          PROVE  gate' \in [infrastructure : BOOLEAN, data : SUBSET Machines]
      BY <3>2 DEF DataSecretReady, ApiTypeOK
    <3> QED BY <1>3, <3>1, <3>2
  <2> QED BY <1>3, <2>1 DEF InfrastructureReady, DataSecretReady, ApiTypeOK
<1>4. CASE \E m \in Machines : CreateMachine(m) \/ DeleteMachine(m)
  <2>1. PICK m \in Machines : CreateMachine(m) \/ DeleteMachine(m)
    BY <1>4
  <2>2. PICK p \in {"live", "deleting", "gone"} : mach' = [mach EXCEPT ![m].phase = p]
    BY <2>1 DEF CreateMachine, DeleteMachine
  <2>3. [mach[m] EXCEPT !.phase = p] \in ByoMachine
    BY DEF ApiTypeOK, ByoMachine
  <2>4. mach' = [mach EXCEPT ![m] = [mach[m] EXCEPT !.phase = p]]
    BY <2>2
  <2>5. mach' \in [Machines -> ByoMachine]
    BY <2>3, <2>4 DEF ApiTypeOK
  <2> QED BY <2>1, <2>5 DEF CreateMachine, DeleteMachine, ApiTypeOK
<1>5. CASE \E m \in Machines : CollectConfig(m)
  BY <1>5 DEF CollectConfig, ApiTypeOK
<1> QED BY <1>1, <1>2, <1>3, <1>4, <1>5 DEF Environment

\* Every behaviour of the system is type correct, whatever the hosts, the
\* machines, the caches and the faults are.
THEOREM TypeCorrect == Spec => []TypeOK
<1>1. Init => TypeOK
  <2> SUFFICES ASSUME Init PROVE TypeOK
    OBVIOUS
  <2>1. ApiTypeOK
    BY InitialTypes DEF Init, ApiInit, ApiTypeOK
  <2>2. bm \in Scope
    BY InitialTypes DEF Init
  <2>3. hr \in HrState
    BY InitialTypes DEF Init
  <2>4. agent \in [Hosts -> AgentState]
    BY InitialTypes DEF Init
  <2> QED BY <2>1, <2>2, <2>3, <2>4, InitialTypes DEF Init, TypeOK
<1>2. TypeOK /\ [Next]_vars => TypeOK'
  <2> SUFFICES ASSUME TypeOK, [Next]_vars PROVE TypeOK'
    OBVIOUS
  <2>1. CASE UNCHANGED vars
    BY <2>1 DEF vars, apiVars, TypeOK, ApiTypeOK
  <2>2. CASE ManagerCrash
    <3>1. bm' \in Scope /\ hr' \in HrState /\ ic' \in IcState
      BY <2>2, InitialTypes DEF ManagerCrash
    <3>2. faults' \in Nat
      BY <2>2 DEF ManagerCrash, Fault, TypeOK, ApiTypeOK
    <3>3. hostCache' \in [Hosts -> ByoHost] /\ machCache' \in [Machines -> ByoMachine]
      BY <2>2 DEF ManagerCrash, TypeOK, ApiTypeOK
    <3> QED BY <2>2, <3>1, <3>2, <3>3 DEF ManagerCrash, TypeOK, ApiTypeOK
  <2> QED BY <2>1, <2>2, BmTypes, HrTypes, IcTypes, HostAgentTypes, EnvironmentTypes DEF Next
<1> QED BY <1>1, <1>2, PTL DEF Spec

============================================================================
