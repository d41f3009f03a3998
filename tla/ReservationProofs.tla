------------------------- MODULE ReservationProofs -------------------------
(***************************************************************************)
(* The labels and the bootstrap secret of a ByoHost never disagree, for    *)
(* any number of hosts, machines, faults and for caches of any age. The    *)
(* invariant is about every copy of a host from which a patch is computed: *)
(* the cached one, the one a ByoMachine reconcile holds, and the two of    *)
(* the agent.                                                              *)
(***************************************************************************)
EXTENDS ByohProofs

\* A patch from b to a that does not move a host from one machine to another.
Moves(b, a) == a.attached \in {b.attached, None} \/ b.attached = None

\* A scope whose host is coherent, and free if it is about to be claimed.
GoodScope(s) == /\ Coherent(s.host)
                /\ s.pc \in {"attachObject", "attachStatus"} => s.host.attached = None
                /\ s.pc # "idle" => s.m \in Machines

\* The two copies of a host that an agent holds.
GoodAgent(a) == Coherent(a.before) /\ Coherent(a.after) /\ Moves(a.before, a.after)

ReservationInv == /\ ReservationCoherent
                  /\ \A h \in Hosts : Coherent(hostCache[h])
                  /\ GoodScope(bm)
                  /\ \A h \in Hosts : GoodAgent(agent[h])

\* A patch of the conditions or of the status of a host leaves its
\* reservation alone, and one of its object keeps it coherent.
LEMMA PatchCoherent ==
    ASSUME NEW c \in ByoHost, NEW b \in ByoHost, NEW a \in ByoHost, Coherent(c)
    PROVE  /\ Coherent(PatchConditions(c, b, a))
           /\ Coherent(PatchStatus(c, b, a))
           /\ Coherent(b) /\ Coherent(a) /\ Moves(b, a) => Coherent(PatchObject(c, b, a))
<1>1. Coherent(PatchConditions(c, b, a))
  BY DEF Coherent, PatchConditions, ByoHost
<1>2. Coherent(PatchStatus(c, b, a))
  BY DEF Coherent, PatchStatus, ByoHost
<1>3. ASSUME Coherent(b), Coherent(a), Moves(b, a)
      PROVE  Coherent(PatchObject(c, b, a))
  <2> DEFINE p == PatchObject(c, b, a)
  <2>1. /\ p.attached = Merge(c.attached, b.attached, a.attached)
        /\ p.cluster = Merge(c.cluster, b.cluster, a.cluster)
        /\ p.bootstrapSecret = Merge(c.bootstrapSecret, b.bootstrapSecret, a.bootstrapSecret)
    BY DEF PatchObject, ByoHost
  <2> SUFFICES Coherent(p)
    OBVIOUS
  <2> HIDE DEF p
  <2>2. CASE a.attached = b.attached
    BY <1>3, <2>1, <2>2 DEF Coherent, Merge
  <2>3. CASE a.attached # b.attached
    <3>1. b.attached = None \/ a.attached = None
      BY <1>3, <2>3 DEF Moves
    <3>2. p.attached = a.attached /\ p.bootstrapSecret = a.bootstrapSecret
      BY <1>3, <2>1, <2>3 DEF Coherent, Merge
    <3>3. p.cluster = a.cluster
      BY <1>3, <2>1, <2>3, <3>1 DEF Coherent, Merge
    <3> QED BY <1>3, <3>2, <3>3 DEF Coherent
  <2> QED BY <2>2, <2>3
<1> QED BY <1>1, <1>2, <1>3

\* A scope with a coherent host stays good on every way to its next request.
LEMMA ScopeCoherent ==
    ASSUME NEW s \in Scope, Coherent(s.host), s.m \in Machines
    PROVE  /\ GoodScope(Idle)
           /\ \A step \in BmSteps \ {"attachObject", "attachStatus"} : GoodScope(Goto(s, step))
           /\ GoodScope(Return(s))
<1>1. GoodScope(Idle)
  BY DEF GoodScope, Idle, Coherent, NewHost
<1>2. \A step \in BmSteps \ {"attachObject", "attachStatus"} : GoodScope(Goto(s, step))
  BY DEF GoodScope, Goto, Scope
<1>3. GoodScope(AfterObject(s))
  BY <1>1, <1>2 DEF AfterObject, BmSteps
<1>4. GoodScope(AfterConditions(s))
  BY <1>2, <1>3 DEF AfterConditions, BmSteps
<1> QED BY <1>1, <1>2, <1>4 DEF Return, BmSteps

\* So do the scopes of the two ways into a claim and of the rest of reconcileNormal.
LEMMA NormalCoherent ==
    ASSUME TypeOK, ReservationInv, NEW s \in Scope, Coherent(s.host), s.m \in Machines
    PROVE  /\ GoodScope(AfterInstall(s))
           /\ GoodScope(WithHost(s))
           /\ \A t \in AfterConfig(s) : GoodScope(t)
           /\ \A t \in AfterResume(s) : GoodScope(t)
           /\ \A t \in reconcileNormal(s) : GoodScope(t)
           /\ \A t \in reconcileDelete(s) : GoodScope(t)
           /\ \A t \in reconcilePaused(s) : GoodScope(t)
<1>1. \A r \in Reasons : GoodScope(Return(MarkFalse(s, r)))
  <2> SUFFICES ASSUME NEW r \in Reasons PROVE GoodScope(Return(MarkFalse(s, r)))
    OBVIOUS
  <2> DEFINE t == MarkFalse(s, r)
  <2>1. t \in Scope /\ t.host = s.host /\ t.m = s.m
    BY ScopeTypes DEF MarkFalse, Scope
  <2> HIDE DEF t
  <2> QED BY <2>1, ScopeCoherent DEF t
<1>2. ASSUME NEW t \in Scope, t.host = s.host, t.m = s.m PROVE GoodScope(AfterInstall(t))
  BY <1>2, ScopeCoherent DEF AfterInstall, BmSteps
<1>3. GoodScope(WithHost(s))
  <2> DEFINE t == [s EXCEPT !.after.hostInfo = TRUE]
  <2>1. t \in Scope /\ t.host = s.host /\ t.m = s.m
    BY DEF Scope, ByoMachine
  <2>2. WithHost(s) \in {AfterInstall(t), Goto(t, "install"), Return(t)}
    BY DEF WithHost
  <2> HIDE DEF t
  <2> QED BY <1>2, <2>1, <2>2, ScopeCoherent DEF BmSteps
<1>4. \A t \in ListHosts(s) : GoodScope(t)
  <2> SUFFICES ASSUME NEW h \in Hosts, ~HostView(h).cluster
               PROVE  GoodScope(Goto([s EXCEPT !.h = h, !.host = HostView(h)], "attachObject"))
    BY <1>1 DEF ListHosts, Reasons
  <2>1. HostView(h) \in ByoHost /\ Coherent(HostView(h))
    BY DEF TypeOK, ApiTypeOK, HostView, ReservationInv, ReservationCoherent
  <2>2. HostView(h).attached = None
    BY <2>1 DEF Coherent
  <2> QED BY <2>1, <2>2 DEF GoodScope, Goto, Scope
<1>5. \A t \in AfterConfig(s) : GoodScope(t)
  BY <1>1, <1>3, <1>4 DEF AfterConfig, Reasons
<1>6. \A t \in AfterResume(s) : GoodScope(t)
  BY <1>5, ScopeCoherent DEF AfterResume, BmSteps
<1>7. \A t \in reconcileNormal(s) : GoodScope(t)
  BY <1>6, ScopeCoherent DEF reconcileNormal, BmSteps
<1>8. \A t \in reconcileDelete(s) : GoodScope(t)
  <2> DEFINE t == RemoveFinalizer(s)
  <2>1. t \in Scope /\ t.host = s.host /\ t.m = s.m
    BY ScopeTypes DEF RemoveFinalizer, Scope
  <2>2. \A x \in reconcileDelete(s) : x \in {Goto(s, "mark"), Return(t)}
    BY DEF reconcileDelete
  <2> HIDE DEF t
  <2> QED BY <2>1, <2>2, ScopeCoherent DEF BmSteps
<1>9. \A t \in reconcilePaused(s) : GoodScope(t)
  BY <1>1, ScopeCoherent DEF reconcilePaused, BmSteps, Reasons
<1> QED BY <1>2, <1>3, <1>5, <1>6, <1>7, <1>8, <1>9

\* The copies an agent holds stay good when it changes anything but the
\* reservation of its copy, and when it releases the host.
LEMMA AgentCoherent ==
    ASSUME NEW a \in AgentState, GoodAgent(a)
    PROVE  /\ GoodAgent(AgentIdle)
           /\ \A pc \in AgentSteps : GoodAgent(Step(a, pc))
           /\ GoodAgent(Failed(a))
           /\ GoodAgent(SendStatus(a))
           /\ GoodAgent(SendObject(a))
           /\ GoodAgent(Send(a))
           /\ \A x \in BOOLEAN : /\ GoodAgent([a EXCEPT !.after.installed = x])
                                 /\ GoodAgent([a EXCEPT !.after.bootstrapped = x])
           /\ GoodAgent([a EXCEPT !.after = Released(@)])
<1>1. GoodAgent(AgentIdle)
  BY DEF GoodAgent, AgentIdle, Coherent, NewHost, Moves
<1>2. \A pc \in AgentSteps : GoodAgent(Step(a, pc))
  BY DEF GoodAgent, Step, AgentState
<1>3. GoodAgent(Failed(a))
  BY DEF GoodAgent, Failed, AgentState
<1>4. GoodAgent(SendStatus(a))
  BY <1>2 DEF SendStatus, AgentSteps
<1>5. GoodAgent(SendObject(a))
  BY <1>2, <1>4 DEF SendObject, AgentSteps
<1>6. GoodAgent(Send(a))
  BY <1>2, <1>5 DEF Send, AgentSteps
<1>7. \A x \in BOOLEAN : /\ GoodAgent([a EXCEPT !.after.installed = x])
                         /\ GoodAgent([a EXCEPT !.after.bootstrapped = x])
  BY DEF GoodAgent, AgentState, ByoHost, Coherent, Moves
<1>8. GoodAgent([a EXCEPT !.after = Released(@)])
  BY DEF GoodAgent, AgentState, ByoHost, Coherent, Moves, Released
<1> QED BY <1>1, <1>2, <1>3, <1>4, <1>5, <1>6, <1>7, <1>8

\* No request of the ByoMachine controller breaks the reservation of a host.
LEMMA BmReservation ==
    ASSUME TypeOK, ReservationInv, BmNext, UNCHANGED <<hr, ic, agent>>
    PROVE  ReservationInv'
<1>1. bm \in Scope /\ bm.host \in ByoHost /\ Coherent(bm.host)
  BY DEF TypeOK, Scope, ReservationInv, GoodScope
<1>2. \A h \in Hosts : host[h] \in ByoHost /\ Coherent(host[h])
  BY DEF TypeOK, ApiTypeOK, ReservationInv, ReservationCoherent
<1>3. bm.pc # "idle" => bm.m \in Machines
  BY DEF ReservationInv, GoodScope
<1>4. ASSUME UNCHANGED <<host, hostCache>>, GoodScope(bm)'
      PROVE  ReservationInv'
  BY <1>4 DEF ReservationInv, ReservationCoherent
<1>5. ASSUME NEW o, NEW new, NEW ok, NEW failed, PatchHost(o, new, ok, failed),
             bm.h \in Hosts => Coherent(new),
             \A t \in ok : GoodScope(t), GoodScope(failed)
      PROVE  ReservationInv'
  <2>1. GoodScope(bm)'
    BY <1>5 DEF PatchHost, GoodScope
  <2>2. \A h \in Hosts : Coherent(host'[h])
    BY <1>2, <1>5 DEF PatchHost, WriteHost, TypeOK, ApiTypeOK
  <2>3. ReservationCoherent'
    BY <2>2 DEF ReservationCoherent, Coherent
  <2>4. UNCHANGED <<hostCache, agent>>
    BY <1>5 DEF PatchHost
  <2> QED BY <2>1, <2>3, <2>4 DEF ReservationInv
\* A request about anything but the reservation of the host in the scope.
<1>6. ASSUME NEW after \in ByoHost, after.attached = bm.host.attached,
             after.cluster = bm.host.cluster,
             after.bootstrapSecret = bm.host.bootstrapSecret
      PROVE  /\ bm.h \in Hosts => Coherent(PatchObject(host[bm.h], bm.host, after))
             /\ [bm EXCEPT !.host = after] \in Scope
             /\ Coherent([bm EXCEPT !.host = after].host)
             /\ [bm EXCEPT !.host = after].m = bm.m
  <2>1. Coherent(after) /\ Moves(bm.host, after)
    BY <1>1, <1>6 DEF Coherent, Moves
  <2>2. bm.h \in Hosts => Coherent(PatchObject(host[bm.h], bm.host, after))
    BY <1>1, <1>2, <2>1, PatchCoherent
  <2> QED BY <1>1, <2>1, <2>2, ScopeTypes DEF Scope
<1>7. bm.m \in Machines => GoodScope(Return(bm))
  BY <1>1, ScopeCoherent
<1>8. CASE \E m \in Machines : Reconcile(m)
  <2>1. PICK m \in Machines : Reconcile(m)
    BY <1>8
  <2>2. PICK h \in FetchAttachedByoHost(m) :
          LET t == newByoMachineScope(m, h)
          IN  bm' \in CASE clusterPaused -> reconcilePaused(t)
                        [] ~clusterPaused /\ t.mach.phase = "deleting" -> reconcileDelete(t)
                        [] OTHER -> reconcileNormal(AddFinalizer(t))
    BY <2>1 DEF Reconcile
  <2> DEFINE t == newByoMachineScope(m, h)
  <2>3. h \in Hosts \cup {None}
    BY DEF FetchAttachedByoHost
  <2>4. /\ MachView(m) \in ByoMachine
        /\ (IF h = None THEN NewHost ELSE HostView(h)) \in ByoHost
        /\ Coherent(IF h = None THEN NewHost ELSE HostView(h))
    BY <2>3, InitialTypes
       DEF MachView, HostView, TypeOK, ApiTypeOK, ReservationInv, ReservationCoherent,
           Coherent, NewHost
  <2>5. t \in Scope /\ Coherent(t.host) /\ t.m \in Machines
    BY <2>3, <2>4 DEF newByoMachineScope, Scope, BmSteps, Owner
  <2> HIDE DEF t
  <2>6. AddFinalizer(t) \in Scope /\ Coherent(AddFinalizer(t).host) /\ AddFinalizer(t).m \in Machines
    BY <2>5, ScopeTypes DEF AddFinalizer, Scope
  <2>7. \A x \in reconcilePaused(t) \cup reconcileDelete(t) \cup reconcileNormal(AddFinalizer(t)) :
          GoodScope(x)
    BY <2>5, <2>6, NormalCoherent
  <2>8. bm' \in reconcilePaused(t) \cup reconcileDelete(t) \cup reconcileNormal(AddFinalizer(t))
    BY <2>2 DEF t
  <2>9. GoodScope(bm)'
    BY <2>7, <2>8 DEF GoodScope
  <2> QED BY <1>4, <2>1, <2>9 DEF Reconcile, apiVars
<1>9. CASE setPausedConditionForByoHost
  <2> DEFINE after == [bm.host EXCEPT !.paused = TRUE]
             t == MarkFalse(bm, "ClusterOrResourcePaused")
  <2>1. PICK o \in Outcomes :
          PatchHost(o, PatchObject(host[bm.h], bm.host, after), {Return(t)}, Return(t))
    BY <1>9 DEF setPausedConditionForByoHost
  <2>2. t \in Scope /\ t.host = bm.host /\ t.m = bm.m
    BY <1>1, ScopeTypes DEF MarkFalse, Scope, Reasons
  <2>3. bm.h \in Hosts => Coherent(PatchObject(host[bm.h], bm.host, after))
    BY <1>1, <1>6 DEF ByoHost
  <2> HIDE DEF after, t
  <2>4. GoodScope(Return(t))
    BY <1>1, <1>3, <1>9, <2>2, ScopeCoherent DEF setPausedConditionForByoHost
  <2> QED BY <1>5, <2>1, <2>3, <2>4
<1>10. CASE unsetPausedConditionForByoHost
  <2> DEFINE after == [bm.host EXCEPT !.paused = FALSE]
             t == [bm EXCEPT !.host = after]
  <2>1. PICK o \in Outcomes :
          PatchHost(o, PatchObject(host[bm.h], bm.host, after), AfterResume(t), Return(bm))
    BY <1>10 DEF unsetPausedConditionForByoHost
  <2>2. /\ bm.h \in Hosts => Coherent(PatchObject(host[bm.h], bm.host, after))
        /\ t \in Scope /\ Coherent(t.host) /\ t.m = bm.m
    BY <1>1, <1>6 DEF ByoHost
  <2>3. bm.m \in Machines
    BY <1>3, <1>10 DEF unsetPausedConditionForByoHost
  <2> HIDE DEF after, t
  <2>4. \A x \in AfterResume(t) : GoodScope(x)
    BY <2>2, <2>3, NormalCoherent
  <2> QED BY <1>5, <1>7, <2>1, <2>2, <2>3, <2>4
<1>11. CASE markHostForCleanup
  <2> DEFINE after == [bm.host EXCEPT !.cleanup = TRUE]
             t == RemoveFinalizer(bm)
  <2>1. PICK o \in Outcomes :
          PatchHost(o, PatchObject(host[bm.h], bm.host, after), {Return(t)}, Return(bm))
    BY <1>11 DEF markHostForCleanup
  <2>2. bm.h \in Hosts => Coherent(PatchObject(host[bm.h], bm.host, after))
    BY <1>1, <1>6 DEF ByoHost
  <2>3. t \in Scope /\ t.host = bm.host /\ t.m = bm.m
    BY <1>1, ScopeTypes DEF RemoveFinalizer, Scope
  <2>4. bm.m \in Machines
    BY <1>3, <1>11 DEF markHostForCleanup
  <2> HIDE DEF after, t
  <2>5. GoodScope(Return(t))
    BY <1>1, <2>3, <2>4, ScopeCoherent
  <2> QED BY <1>5, <1>7, <2>1, <2>2, <2>4, <2>5
<1>12. CASE createInstallerConfig
  <2>1. bm.m \in Machines
    BY <1>3, <1>12 DEF createInstallerConfig
  <2>2. bm' \in AfterConfig(bm) \cup {Return(bm)}
    BY <1>12 DEF createInstallerConfig
  <2>3. GoodScope(bm)'
    BY <1>1, <1>7, <2>1, <2>2, NormalCoherent DEF GoodScope
  <2> QED BY <1>4, <1>12, <2>3 DEF createInstallerConfig
\* The claim: the copy in the scope is free, so the patch changes all three parts.
<1>13. ASSUME bm.pc \in {"attachObject", "attachStatus"}
       PROVE  /\ Claimed(bm) \in ByoHost
              /\ Coherent(Claimed(bm))
              /\ Moves(bm.host, Claimed(bm))
              /\ bm.m \in Machines
              /\ bm.host.attached = None
  <2>1. bm.m \in Machines /\ bm.host.attached = None
    BY <1>3, <1>13 DEF ReservationInv, GoodScope
  <2>2. Claimed(bm) \in ByoHost
    BY <1>1, <2>1 DEF Claimed, ByoHost, Owner
  <2>3. Coherent(Claimed(bm))
    BY <1>1, <2>1, ByohAssumption DEF Claimed, ByoHost, Coherent
  <2> QED BY <2>1, <2>2, <2>3 DEF Moves
<1>14. CASE attachByoHost
  <2> DEFINE t == Goto(bm, "attachStatus")
             f == Goto([bm EXCEPT !.failed = TRUE], "attachStatus")
  <2>1. PICK o \in Outcomes :
          PatchHost(o, PatchObject(host[bm.h], bm.host, Claimed(bm)), {t}, f)
    BY <1>14 DEF attachByoHost
  <2>2. bm.h \in Hosts => Coherent(PatchObject(host[bm.h], bm.host, Claimed(bm)))
    BY <1>1, <1>2, <1>13, <1>14, PatchCoherent DEF attachByoHost
  <2>3. GoodScope(t) /\ GoodScope(f)
    BY <1>1, <1>13, <1>14 DEF attachByoHost, Goto, GoodScope, Scope
  <2> HIDE DEF t, f
  <2> QED BY <1>5, <2>1, <2>2, <2>3
<1>15. CASE attachByoHostStatus
  <2> DEFINE c == [bm EXCEPT !.host = Claimed(bm)]
             t == MarkFalse(c, "InstallationSecretNotAvailable")
  <2>1. PICK o \in Outcomes :
          PatchHost(o, PatchStatus(host[bm.h], bm.host, Claimed(bm)),
                    {IF bm.failed THEN Return(bm) ELSE WithHost(t)}, Return(bm))
    BY <1>15 DEF attachByoHostStatus
  <2>2. bm.pc \in {"attachObject", "attachStatus"}
    BY <1>15 DEF attachByoHostStatus
  <2>3. bm.h \in Hosts => Coherent(PatchStatus(host[bm.h], bm.host, Claimed(bm)))
    BY <1>1, <1>2, <1>13, <2>2, PatchCoherent
  <2>4. c \in Scope /\ Coherent(c.host) /\ c.m = bm.m
    BY <1>1, <1>13, <2>2, ScopeTypes DEF Scope
  <2> HIDE DEF c
  <2>5. t \in Scope /\ t.host = c.host /\ t.m = c.m
    BY <2>4, ScopeTypes DEF MarkFalse, Scope, Reasons
  <2> HIDE DEF t
  <2>6. GoodScope(WithHost(t))
    BY <1>13, <2>2, <2>4, <2>5, NormalCoherent
  <2> QED BY <1>5, <1>7, <1>13, <2>1, <2>2, <2>3, <2>6
<1>16. CASE setInstallationSecretForByoHost
  <2> DEFINE after == [bm.host EXCEPT !.installationSecret = bm.m]
             t == [bm EXCEPT !.host = after]
  <2>1. PICK o \in Outcomes :
          PatchHost(o, PatchObject(host[bm.h], bm.host, after), {AfterInstall(t)}, Return(bm))
    BY <1>16 DEF setInstallationSecretForByoHost
  <2>2. bm.m \in Machines
    BY <1>3, <1>16 DEF setInstallationSecretForByoHost
  <2>3. /\ bm.h \in Hosts => Coherent(PatchObject(host[bm.h], bm.host, after))
        /\ t \in Scope /\ Coherent(t.host) /\ t.m = bm.m
    BY <1>1, <1>6, <2>2 DEF ByoHost, Owner
  <2> HIDE DEF after, t
  <2>4. GoodScope(AfterInstall(t))
    BY <2>2, <2>3, NormalCoherent
  <2> QED BY <1>5, <1>7, <2>1, <2>2, <2>3, <2>4
<1>17. CASE setUninstallationSecretForByoHost
  <2> DEFINE after == [bm.host EXCEPT !.uninstallationSecret = bm.m]
             t == [bm EXCEPT !.host = after]
  <2>1. PICK o \in Outcomes :
          PatchHost(o, PatchObject(host[bm.h], bm.host, after), {Goto(t, "provider")}, Return(bm))
    BY <1>17 DEF setUninstallationSecretForByoHost
  <2>2. bm.m \in Machines
    BY <1>3, <1>17 DEF setUninstallationSecretForByoHost
  <2>3. /\ bm.h \in Hosts => Coherent(PatchObject(host[bm.h], bm.host, after))
        /\ t \in Scope /\ Coherent(t.host) /\ t.m = bm.m
    BY <1>1, <1>6, <2>2 DEF ByoHost, Owner
  <2> HIDE DEF after, t
  <2>4. GoodScope(Goto(t, "provider"))
    BY <2>2, <2>3, ScopeCoherent DEF BmSteps
  <2> QED BY <1>5, <1>7, <2>1, <2>2, <2>3, <2>4
<1>18. CASE updateNodeProviderID
  <2> DEFINE t == [bm EXCEPT !.after.providerID = TRUE, !.after.ready = TRUE,
                             !.after.reason = "True"]
  <2>1. bm.m \in Machines
    BY <1>3, <1>18 DEF updateNodeProviderID
  <2>2. t \in Scope /\ t.host = bm.host /\ t.m = bm.m
    BY <1>1 DEF Scope, ByoMachine, Reasons
  <2>3. bm' \in {Return(t), Return(bm)}
    BY <1>18 DEF updateNodeProviderID
  <2> HIDE DEF t
  <2>4. GoodScope(bm)'
    BY <1>1, <1>7, <2>1, <2>2, <2>3, ScopeCoherent DEF GoodScope
  <2> QED BY <1>4, <1>18, <2>4 DEF updateNodeProviderID
<1>19. CASE patchMachineConditions \/ patchMachineObject \/ patchMachineStatus
  <2>1. /\ bm' \in {AfterConditions(bm), AfterObject(bm), Idle}
        /\ UNCHANGED <<host, hostCache>>
        /\ bm.m \in Machines
    BY <1>3, <1>19
       DEF patchMachineConditions, patchMachineObject, patchMachineStatus, PatchMachine
  <2>2. /\ GoodScope(Idle)
        /\ \A step \in BmSteps \ {"attachObject", "attachStatus"} : GoodScope(Goto(bm, step))
    BY <1>1, <2>1, ScopeCoherent
  <2>3. GoodScope(AfterObject(bm))
    BY <2>2 DEF AfterObject, BmSteps
  <2>4. GoodScope(AfterConditions(bm))
    BY <2>2, <2>3 DEF AfterConditions, BmSteps
  <2>5. GoodScope(bm)'
    BY <2>1, <2>2, <2>3, <2>4 DEF GoodScope
  <2> QED BY <1>4, <2>1, <2>5
<1> QED BY <1>8, <1>9, <1>10, <1>11, <1>12, <1>14, <1>15, <1>16, <1>17, <1>18, <1>19
        DEF BmNext, BmStep

\* No step of an agent breaks it: the copy it releases is the one it read.
LEMMA AgentReservation ==
    ASSUME TypeOK, ReservationInv, AgentNext, UNCHANGED <<bm, hr, ic>>
    PROVE  ReservationInv'
<1>1. PICK h \in Hosts : AgentStep(h) \/ AgentCrash(h)
  BY DEF AgentNext
<1>2. /\ agent[h] \in AgentState /\ GoodAgent(agent[h])
      /\ agent[h].before \in ByoHost /\ agent[h].after \in ByoHost
      /\ host[h] \in ByoHost /\ Coherent(host[h])
  BY DEF TypeOK, AgentState, ApiTypeOK, ReservationInv, ReservationCoherent
<1>3. ASSUME UNCHANGED hostCache,
             \A g \in Hosts : Coherent(host'[g]),
             \A g \in Hosts : GoodAgent(agent'[g])
      PROVE  ReservationInv'
  <2>1. ReservationCoherent' /\ (\A g \in Hosts : GoodAgent(agent[g]))'
    BY <1>3 DEF ReservationCoherent, Coherent, GoodAgent, Moves
  <2> QED BY <1>3, <2>1 DEF ReservationInv, GoodScope
<1>4. ASSUME NEW a \in AgentState, GoodAgent(a), NEW n, OnHost(h, a, n)
      PROVE  ReservationInv'
  <2>1. \A g \in Hosts : GoodAgent(agent'[g])
    BY <1>2, <1>4, AgentCoherent DEF OnHost, Become, TypeOK, ReservationInv
  <2> QED BY <1>3, <1>4, <2>1 DEF OnHost, ReservationInv, ReservationCoherent
<1>5. ASSUME NEW o, NEW new, NEW next \in AgentState, GoodAgent(next), Coherent(new),
             PatchAgentHost(h, o, new, next)
      PROVE  ReservationInv'
  <2> DEFINE a == IF o = "ok" THEN next ELSE Failed(next)
  <2>1. GoodAgent(a)
    BY <1>5, AgentCoherent
  <2>2. agent' = [agent EXCEPT ![h] = IF a.pc = "idle" THEN AgentIdle ELSE a]
    BY <1>5 DEF PatchAgentHost, Become
  <2> HIDE DEF a
  <2>3. \A g \in Hosts : GoodAgent(agent'[g])
    BY <1>2, <2>1, <2>2, AgentCoherent DEF TypeOK, ReservationInv
  <2>4. \A g \in Hosts : Coherent(host'[g])
    BY <1>5 DEF PatchAgentHost, TypeOK, ApiTypeOK, ReservationInv, ReservationCoherent
  <2> QED BY <1>3, <1>5, <2>3, <2>4 DEF PatchAgentHost
<1>6. CASE AgentReconcile(h)
  <2> DEFINE a == [pc |-> "idle", before |-> host[h], after |-> host[h], failed |-> FALSE]
             next == IF host[h].cleanup
                     THEN Step(a, IF host[h].installed THEN "reset" ELSE "uninstall")
                     ELSE Normal(a)
  <2>1. a \in AgentState /\ GoodAgent(a)
    BY <1>2 DEF AgentState, AgentSteps, GoodAgent, Moves
  <2>2. agent' = [agent EXCEPT ![h] = IF next.pc = "idle" THEN AgentIdle ELSE next]
    BY <1>6 DEF AgentReconcile
  <2> HIDE DEF a
  <2>3. GoodAgent(Normal(a))
    <3>1. /\ [a EXCEPT !.after.bootstrapped = FALSE] \in AgentState
          /\ GoodAgent([a EXCEPT !.after.bootstrapped = FALSE])
      BY <2>1, AgentTypes, AgentCoherent
    <3> QED BY <2>1, <3>1, AgentCoherent DEF Normal, AgentSteps
  <2>4. GoodAgent(next)
    BY <2>1, <2>3, AgentCoherent DEF AgentSteps
  <2> HIDE DEF next
  <2>5. \A g \in Hosts : GoodAgent(agent'[g])
    BY <1>2, <2>2, <2>4, AgentCoherent DEF TypeOK, ReservationInv
  <2> QED BY <1>3, <1>6, <2>5 DEF AgentReconcile, ReservationInv, ReservationCoherent
\* What the agent makes of its copy in a step on the host.
<1> DEFINE Reached(a) == a \in AgentState /\ GoodAgent(a)
<1>8. /\ Reached(Send(agent[h])) /\ Reached(Send(Failed(agent[h])))
      /\ \A pc \in AgentSteps : Reached(Step(agent[h], pc))
      /\ \A x \in BOOLEAN, pc \in AgentSteps :
           /\ Reached(Step([agent[h] EXCEPT !.after.installed = x], pc))
           /\ Reached(Step([agent[h] EXCEPT !.after.bootstrapped = x], pc))
           /\ Reached(Send([agent[h] EXCEPT !.after.bootstrapped = x]))
           /\ Reached(Send([Failed(agent[h]) EXCEPT !.after.installed = x]))
           /\ Reached(Send([Failed(agent[h]) EXCEPT !.after.bootstrapped = x]))
      /\ Reached(Send([agent[h] EXCEPT !.after = Released(@)]))
  <2>1. Reached(Failed(agent[h]))
    BY <1>2, AgentTypes, AgentCoherent
  <2>2. \A x \in BOOLEAN :
          /\ Reached([agent[h] EXCEPT !.after.installed = x])
          /\ Reached([agent[h] EXCEPT !.after.bootstrapped = x])
          /\ Reached([Failed(agent[h]) EXCEPT !.after.installed = x])
          /\ Reached([Failed(agent[h]) EXCEPT !.after.bootstrapped = x])
    BY <1>2, <2>1, AgentTypes, AgentCoherent
  <2>3. Reached([agent[h] EXCEPT !.after = Released(@)])
    BY <1>2, AgentTypes, AgentCoherent
  <2>4. \A a : Reached(a) => Reached(Send(a)) /\ \A pc \in AgentSteps : Reached(Step(a, pc))
    BY AgentTypes, AgentCoherent
  <2> HIDE DEF Reached
  <2> QED BY <1>2, <2>1, <2>2, <2>3, <2>4 DEF Reached
<1>9. ASSUME NEW a, Reached(a), NEW n, OnHost(h, a, n)
      PROVE  ReservationInv'
  BY <1>4, <1>9
<1> HIDE DEF Reached
<1>10. CASE getBootstrapScript(h)
  <2>1. PICK a \in {Send(Failed(agent[h])), Send(agent[h]), Step(agent[h], "boot"),
                    Step(agent[h], "install")} : OnHost(h, a, node[h])
    BY <1>10 DEF getBootstrapScript
  <2> QED BY <1>8, <1>9, <2>1 DEF AgentSteps
<1>11. CASE executeInstallerController(h)
  <2>1. PICK a \in {Send(Failed(agent[h])),
                    Step([agent[h] EXCEPT !.after.installed = TRUE], "boot"),
                    Send([Failed(agent[h]) EXCEPT !.after.installed = FALSE])} :
          \E n : OnHost(h, a, n)
    BY <1>11 DEF executeInstallerController
  <2> QED BY <1>8, <1>9, <2>1 DEF AgentSteps
<1>12. CASE bootstrapK8sNode(h)
  <2>1. PICK a \in {Send([agent[h] EXCEPT !.after.bootstrapped = TRUE]),
                    Send([Failed(agent[h]) EXCEPT !.after.bootstrapped = FALSE])} :
          \E n : OnHost(h, a, n)
    BY <1>12 DEF bootstrapK8sNode
  <2> QED BY <1>8, <1>9, <2>1 DEF AgentSteps
<1>13. CASE resetNode(h)
  <2>1. PICK a \in {Step([agent[h] EXCEPT !.after.installed = FALSE], "uninstall"),
                    Send(Failed(agent[h]))} :
          \E n : OnHost(h, a, n)
    BY <1>13 DEF resetNode
  <2> QED BY <1>8, <1>9, <2>1 DEF AgentSteps
<1>14. CASE executeUninstallScript(h)
  <2>1. PICK a \in {Step([agent[h] EXCEPT !.after.bootstrapped = FALSE], "release"),
                    Send(Failed(agent[h]))} :
          \E n : OnHost(h, a, n)
    BY <1>14 DEF executeUninstallScript
  <2> QED BY <1>8, <1>9, <2>1 DEF AgentSteps
<1>15. CASE removeAnnotations(h)
  <2>1. PICK a \in {Send([agent[h] EXCEPT !.after = Released(@)]), Send(Failed(agent[h]))} :
          OnHost(h, a, node[h])
    BY <1>15 DEF removeAnnotations
  <2> QED BY <1>8, <1>9, <2>1
<1>16. CASE patchHostConditions(h)
  <2>1. PICK o \in Outcomes :
          PatchAgentHost(h, o, PatchConditions(host[h], agent[h].before, agent[h].after),
                         SendObject(agent[h]))
    BY <1>16 DEF patchHostConditions
  <2>2. Coherent(PatchConditions(host[h], agent[h].before, agent[h].after))
    BY <1>2, PatchCoherent
  <2>3. SendObject(agent[h]) \in AgentState /\ GoodAgent(SendObject(agent[h]))
    BY <1>2, AgentTypes, AgentCoherent
  <2> QED BY <1>5, <2>1, <2>2, <2>3
<1>17. CASE patchHostObject(h)
  <2>1. PICK o \in Outcomes :
          PatchAgentHost(h, o, PatchObject(host[h], agent[h].before, agent[h].after),
                         SendStatus(agent[h]))
    BY <1>17 DEF patchHostObject
  <2>2. Coherent(PatchObject(host[h], agent[h].before, agent[h].after))
    BY <1>2, PatchCoherent DEF GoodAgent
  <2>3. SendStatus(agent[h]) \in AgentState /\ GoodAgent(SendStatus(agent[h]))
    BY <1>2, AgentTypes, AgentCoherent
  <2> QED BY <1>5, <2>1, <2>2, <2>3
<1>18. CASE patchHostStatus(h)
  <2>1. PICK o \in Outcomes :
          PatchAgentHost(h, o, PatchStatus(host[h], agent[h].before, agent[h].after),
                         Step(agent[h], "idle"))
    BY <1>18 DEF patchHostStatus
  <2>2. Coherent(PatchStatus(host[h], agent[h].before, agent[h].after))
    BY <1>2, PatchCoherent
  <2>3. Step(agent[h], "idle") \in AgentState /\ GoodAgent(Step(agent[h], "idle"))
    BY <1>2, AgentTypes, AgentCoherent DEF AgentSteps
  <2> QED BY <1>5, <2>1, <2>2, <2>3
<1>19. CASE AgentCrash(h)
  <2>1. \A g \in Hosts : GoodAgent(agent'[g])
    BY <1>2, <1>19, AgentCoherent DEF AgentCrash, TypeOK, ReservationInv
  <2> QED BY <1>3, <1>19, <2>1 DEF AgentCrash, ReservationInv, ReservationCoherent
<1> QED BY <1>1, <1>6, <1>10, <1>11, <1>12, <1>13, <1>14, <1>15, <1>16, <1>17, <1>18, <1>19
        DEF AgentStep

\* The host controller only writes the reference to the uninstallation secret.
LEMMA HrReservation ==
    ASSUME TypeOK, ReservationInv, HrNext, UNCHANGED <<bm, ic, agent>>
    PROVE  ReservationInv'
<1>1. CASE UNCHANGED <<host, hostCache>>
  BY <1>1 DEF ReservationInv, ReservationCoherent, GoodScope
<1>2. CASE clearUninstallReference
  <2> DEFINE after == [hr.before EXCEPT !.uninstallationSecret = None]
             new == PatchObject(host[hr.h], hr.before, after)
  <2>1. PICK o \in Outcomes : WriteHost(hr.h, new, o, "managerApi")
    BY <1>2 DEF clearUninstallReference
  <2>2. hr.h \in Hosts => host[hr.h] \in ByoHost /\ Coherent(host[hr.h])
    BY DEF TypeOK, ApiTypeOK, ReservationInv, ReservationCoherent
  <2>3. /\ after.attached = hr.before.attached
        /\ after.cluster = hr.before.cluster
        /\ after.bootstrapSecret = hr.before.bootstrapSecret
    BY DEF TypeOK, HrState, ByoHost
  <2> HIDE DEF after
  <2>4. hr.h \in Hosts => /\ new.attached = host[hr.h].attached
                          /\ new.cluster = host[hr.h].cluster
                          /\ new.bootstrapSecret = host[hr.h].bootstrapSecret
    BY <2>2, <2>3 DEF PatchObject, Merge, ByoHost
  <2>5. hr.h \in Hosts => Coherent(new)
    BY <2>2, <2>4 DEF Coherent
  <2> HIDE DEF new
  <2>6. \A h \in Hosts : Coherent(host'[h])
    BY <2>1, <2>5 DEF WriteHost, TypeOK, ApiTypeOK, ReservationInv, ReservationCoherent
  <2>7. ReservationCoherent'
    BY <2>6 DEF ReservationCoherent, Coherent
  <2> QED BY <1>2, <2>7 DEF clearUninstallReference, ReservationInv, GoodScope
<1> QED BY <1>1, <1>2 DEF HrNext, HrStep, HostReconcile, deleteUninstallSecret, apiVars

\* The strengthened invariant holds in every behaviour.
THEOREM ReservationInvariant == Spec => []ReservationInv
<1>1. Init => ReservationInv
  <2>1. Coherent(NewHost)
    BY DEF NewHost, Coherent
  <2>2. GoodScope(Idle)
    BY <2>1 DEF Idle, GoodScope
  <2>3. GoodAgent(AgentIdle)
    BY <2>1 DEF AgentIdle, GoodAgent, Moves
  <2> QED BY <2>1, <2>2, <2>3 DEF Init, ApiInit, ReservationInv, ReservationCoherent
<1>2. TypeOK /\ ReservationInv /\ [Next]_vars => ReservationInv'
  <2> SUFFICES ASSUME TypeOK, ReservationInv, [Next]_vars PROVE ReservationInv'
    OBVIOUS
  <2>1. ASSUME UNCHANGED <<host, hostCache, bm, agent>> PROVE ReservationInv'
    BY <2>1 DEF ReservationInv, ReservationCoherent, GoodScope
  <2>2. CASE UNCHANGED vars
    BY <2>1, <2>2 DEF vars, apiVars
  <2>3. CASE IcNext /\ UNCHANGED <<bm, hr, agent>>
    BY <2>1, <2>3 DEF IcNext, IcStep, ConfigReconcile, storeInstallSecret,
                      storeUninstallSecret, patchConfig, deleteConfig, apiVars
  <2>4. CASE Environment /\ UNCHANGED <<bm, hr, ic, agent>>
    <3>1. UNCHANGED host /\ (UNCHANGED hostCache \/ \E h \in Hosts : RefreshHost(h))
      BY <2>4 DEF Environment, Refresh, RefreshHost, RefreshMachine, PauseCluster,
                  UnpauseCluster, InfrastructureReady, CreateMachine, DataSecretReady,
                  DeleteMachine, CollectConfig
    <3>2. \A h \in Hosts : Coherent(hostCache'[h])
      BY <3>1 DEF RefreshHost, TypeOK, ApiTypeOK, ReservationInv, ReservationCoherent
    <3> QED BY <2>4, <3>1, <3>2 DEF ReservationInv, ReservationCoherent, GoodScope, Coherent
  <2>5. CASE ManagerCrash
    <3>1. \A h \in Hosts : Coherent(hostCache'[h])
      BY <2>5 DEF ManagerCrash, ReservationInv, ReservationCoherent
    <3>2. GoodScope(bm)'
      BY <2>5 DEF ManagerCrash, Idle, NewHost, GoodScope, Coherent
    <3> QED BY <2>5, <3>1, <3>2 DEF ManagerCrash, ReservationInv, ReservationCoherent, Coherent
  <2> QED BY <2>2, <2>3, <2>4, <2>5, BmReservation, HrReservation, AgentReservation DEF Next
<1> QED BY <1>1, <1>2, TypeCorrect, PTL DEF Spec

\* The labels and the bootstrap secret of a host never disagree.
THEOREM ReservationSafe == Spec => []ReservationCoherent
<1>1. ReservationInv => ReservationCoherent
  BY DEF ReservationInv
<1> QED BY <1>1, ReservationInvariant, PTL

============================================================================
