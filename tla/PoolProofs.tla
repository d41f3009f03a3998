----------------------------- MODULE PoolProofs -----------------------------
(***************************************************************************)
(* The reservation protocol of the host pool, for any number of hosts,     *)
(* machines and faults, where the manager reads the ByoHosts it writes     *)
(* (its cache of them does not lag; that of the ByoMachines may). Three    *)
(* facts carry the proofs: only the one worker of the ByoMachine           *)
(* controller claims or marks a host, it marks a host only for a machine   *)
(* it saw under deletion, and the agent gives a host back from a copy that *)
(* still is the host.                                                      *)
(***************************************************************************)
EXTENDS ReservationProofs

(***************************************************************************)
(* The inductive invariant                                                 *)
(***************************************************************************)
\* Two copies of a host that agree on its reservation.
Alike(b, c) == /\ b.attached = c.attached
               /\ b.cleanup = c.cleanup
               /\ b.installationSecret = c.installationSecret

\* The machines whose deletion the manager has seen.
Leaving == {m \in Machines : MachView(m).phase \in {"deleting", "gone"}}

\* The scope of a reconcile has the host of its machine, not yet marked.
Holds(hosts, s) == s.h \in Hosts /\ hosts[s.h].attached = s.m /\ ~hosts[s.h].cleanup

\* The machine of a reconcile has no host.
Hostless(hosts, s) == \A h \in Hosts : hosts[h].attached # s.m

\* What reconcileNormal finds.
Located(hosts, s) == IF s.h = None THEN Hostless(hosts, s) ELSE Holds(hosts, s)

\* What a reconcile may rely on at each of its requests.
PoolScope(hosts, s) ==
    /\ s.pc \in {"mark", "resume", "install", "uninstall", "provider"} => Holds(hosts, s)
    /\ s.pc = "attachStatus" /\ ~s.failed => Holds(hosts, s)
    /\ s.pc = "create" => Located(hosts, s)
    /\ s.pc = "attachObject" => /\ Hostless(hosts, s)
                                /\ s.h \in Hosts /\ hosts[s.h].attached = None
    /\ s.pc \in {"resume", "create", "attachObject", "attachStatus", "install", "uninstall",
                 "provider"} => s.after.finalizer
    /\ s.pc = "mark" => ~s.host.cleanup
    /\ s.pc = "idle" => ~s.mach.finalizer

\* The finalizer goes only after every host of the machine is marked.
Unfinalized(hosts, s) ==
    s.mach.finalizer /\ ~s.after.finalizer
        => \A h \in Hosts : hosts[h].attached = s.m => hosts[h].cleanup

\* An agent leaves the reservation in its copy alone, or gives the host back.
GivesBack(a) == /\ a.before.cleanup /\ ~a.after.cleanup
                /\ a.after.attached = None /\ a.after.installationSecret = None

Fits(a) == Alike(a.after, a.before) \/ GivesBack(a)

\* Only an agent that read a marked host cleans up, and until it has sent its
\* patch the host is the one in its copy.
PoolAgent(b, a) ==
    /\ Fits(a)
    /\ a.pc \in {"reset", "uninstall", "release"} => a.before.cleanup
    /\ a.before.cleanup /\ a.pc \notin {"idle", "patchStatus"} => Alike(b, a.before)

\* A marked host belongs to a machine the manager saw under deletion, and no
\* two hosts to the same machine.
HostRules ==
    \A h \in Hosts :
        /\ host[h].cleanup => host[h].attached \in Leaving
        /\ \A g \in Hosts : host[h].attached = host[g].attached
                              => h = g \/ host[h].attached = None

\* The finalizer holds a machine under deletion, and the cache of the manager
\* shows no deletion that has not happened.
MachineRules ==
    \A m \in Machines :
        /\ mach[m].phase = "deleting" => mach[m].finalizer
        /\ machCache[m].phase \in {"deleting", "gone"} => mach[m].phase \in {"deleting", "gone"}

PoolInv == /\ HostRules
           /\ OwnInstallationSecret
           /\ MachineRules
           /\ PoolScope(host, bm)
           /\ Unfinalized(host, bm)
           /\ bm.pc = "mark" => bm.m \in Leaving
           /\ \A h \in Hosts : PoolAgent(host[h], agent[h])

(***************************************************************************)
(* What a step does to the reservations: nothing, or one of four changes   *)
(* of one host.                                                            *)
(***************************************************************************)
Others(h) == \A g \in Hosts \ {h} : Alike(host'[g], host[g])

Untouched == \A h \in Hosts : Alike(host'[h], host[h])

Claims(h, m) == /\ h \in Hosts /\ m \in Machines
                /\ host[h].attached = None /\ \A g \in Hosts : host[g].attached # m
                /\ host'[h].attached = m /\ ~host'[h].cleanup
                /\ host'[h].installationSecret = None
                /\ Others(h)

Marks(h) == /\ h \in Hosts
            /\ host[h].attached \in Leaving /\ ~host[h].cleanup
            /\ host'[h].attached = host[h].attached /\ host'[h].cleanup
            /\ host'[h].installationSecret = host[h].installationSecret
            /\ Others(h)

Installs(h) == /\ h \in Hosts
               /\ host[h].attached \in Machines /\ ~host[h].cleanup
               /\ host'[h].attached = host[h].attached /\ ~host'[h].cleanup
               /\ host'[h].installationSecret = host[h].attached
               /\ Others(h)

Returns(h) == /\ h \in Hosts
              /\ host[h].cleanup
              /\ host'[h].attached = None /\ ~host'[h].cleanup
              /\ host'[h].installationSecret = None
              /\ Others(h)

\* What the controller does, and what an agent does.
ManagerEffect == Untouched \/ \E h \in Hosts : \/ \E m \in Machines : Claims(h, m)
                                               \/ Marks(h)
                                               \/ Installs(h)

AgentEffect == Untouched \/ \E h \in Hosts : Returns(h)

\* No deletion the manager saw is undone.
Forward == Leaving \subseteq Leaving'

\* Each of the changes keeps the rules about the hosts.
LEMMA EffectRules ==
    ASSUME TypeOK, TypeOK', HostRules, OwnInstallationSecret, Forward,
           ManagerEffect \/ AgentEffect
    PROVE  HostRules' /\ OwnInstallationSecret'
<1> DEFINE Owned(h) == host'[h].cleanup => host'[h].attached \in Leaving'
           Single(h) == \A g \in Hosts : host'[h].attached = host'[g].attached
                                           => h = g \/ host'[h].attached = None
           Own(h) == host'[h].installationSecret \in {None, host'[h].attached}
<1>1. SUFFICES \A h \in Hosts : Owned(h) /\ Single(h) /\ Own(h)
  BY DEF HostRules, OwnInstallationSecret
<1>2. \A h \in Hosts : host[h].cleanup => host[h].attached \in Leaving'
  BY DEF HostRules, Forward
<1>3. CASE Untouched
  BY <1>2, <1>3 DEF Untouched, Alike, HostRules, OwnInstallationSecret
<1>4. ASSUME NEW h \in Hosts, NEW m \in Machines, Claims(h, m)
      PROVE  \A g \in Hosts : Owned(g) /\ Single(g) /\ Own(g)
  BY <1>2, <1>4 DEF Claims, Others, Alike, HostRules, OwnInstallationSecret
<1>5. ASSUME NEW h \in Hosts, Marks(h)
      PROVE  \A g \in Hosts : Owned(g) /\ Single(g) /\ Own(g)
  <2>1. host[h].attached \in Leaving'
    BY <1>5 DEF Marks, Forward
  <2> QED BY <1>2, <1>5, <2>1 DEF Marks, Others, Alike, HostRules, OwnInstallationSecret
<1>6. ASSUME NEW h \in Hosts, Installs(h)
      PROVE  \A g \in Hosts : Owned(g) /\ Single(g) /\ Own(g)
  BY <1>2, <1>6 DEF Installs, Others, Alike, HostRules, OwnInstallationSecret
<1>7. ASSUME NEW h \in Hosts, Returns(h)
      PROVE  \A g \in Hosts : Owned(g) /\ Single(g) /\ Own(g)
  BY <1>2, <1>7 DEF Returns, Others, Alike, HostRules, OwnInstallationSecret
<1> QED BY <1>3, <1>4, <1>5, <1>6, <1>7 DEF ManagerEffect, AgentEffect

\* The controller changes no host that is marked, so the copy of an agent that
\* cleans up stays the host.
LEMMA EffectAgents ==
    ASSUME ManagerEffect, HostRules, NEW h \in Hosts, NEW a, PoolAgent(host[h], a)
    PROVE  PoolAgent(host'[h], a)
<1>1. Alike(host'[h], host[h]) \/ ~host[h].cleanup
  BY ByohAssumption
     DEF ManagerEffect, Untouched, Claims, Marks, Installs, Others, HostRules, Leaving
<1> QED BY <1>1 DEF PoolAgent, Alike

\* An agent changes no host that a reconcile holds or is about to claim.
LEMMA EffectScope ==
    ASSUME AgentEffect, NEW s, s.pc # "idle" => s.m \in Machines
    PROVE  /\ PoolScope(host, s) => PoolScope(host', s)
           /\ PoolScope(host, s) /\ Unfinalized(host, s) => Unfinalized(host', s)
<1>1. \A h \in Hosts : \/ Alike(host'[h], host[h])
                       \/ host[h].cleanup /\ host'[h].attached = None
  BY DEF AgentEffect, Untouched, Returns, Others
<1>2. Holds(host, s) => Holds(host', s)
  BY <1>1 DEF Holds, Alike
<1>3. s.m \in Machines /\ Hostless(host, s) => Hostless(host', s)
  BY <1>1, ByohAssumption DEF Hostless, Alike
<1>4. s.h \in Hosts /\ host[s.h].attached = None => host'[s.h].attached = None
  BY <1>1 DEF Alike
<1>5. PoolScope(host, s) => PoolScope(host', s)
  BY <1>2, <1>3, <1>4 DEF PoolScope, Located
<1>6. PoolScope(host, s) /\ Unfinalized(host, s) => Unfinalized(host', s)
  BY <1>1, ByohAssumption DEF PoolScope, Unfinalized, Alike
<1> QED BY <1>5, <1>6

(***************************************************************************)
(* The ByoMachine controller                                               *)
(***************************************************************************)
PoolGood(hosts, s) == /\ PoolScope(hosts, s)
                      /\ Unfinalized(hosts, s)
                      /\ s.pc = "mark" => s.m \in Leaving

\* A reconcile that returns asks nothing of the hosts any more.
LEMMA ReturnPool ==
    ASSUME NEW hosts, NEW s \in Scope, Unfinalized(hosts, s)
    PROVE  /\ PoolGood(hosts, Idle)
           /\ PoolGood(hosts, AfterObject(s))
           /\ PoolGood(hosts, AfterConditions(s))
           /\ PoolGood(hosts, Return(s))
<1>1. PoolGood(hosts, Idle)
  BY DEF PoolGood, PoolScope, Unfinalized, Idle, NewMachine
<1>2. \A step \in {"patchConditions", "patchObject", "patchStatus"} :
        PoolGood(hosts, Goto(s, step))
  BY DEF PoolGood, PoolScope, Unfinalized, Goto, Scope
<1>3. PoolGood(hosts, AfterObject(s))
  BY <1>1, <1>2 DEF AfterObject
<1>4. PoolGood(hosts, AfterConditions(s))
  BY <1>2, <1>3 DEF AfterConditions
<1> QED BY <1>1, <1>2, <1>3, <1>4 DEF Return

\* The reason of the condition does not matter.
LEMMA MarkFalsePool ==
    ASSUME NEW s \in Scope, NEW r \in Reasons
    PROVE  /\ MarkFalse(s, r) \in Scope
           /\ MarkFalse(s, r).h = s.h /\ MarkFalse(s, r).m = s.m
           /\ MarkFalse(s, r).host = s.host /\ MarkFalse(s, r).mach = s.mach
           /\ MarkFalse(s, r).after.finalizer = s.after.finalizer
<1>1. MarkFalse(s, r) \in Scope
  BY ScopeTypes
<1>2. MarkFalse(s, r).after = [s.after EXCEPT !.reason = r]
  BY DEF MarkFalse, Scope
<1>3. [s.after EXCEPT !.reason = r].finalizer = s.after.finalizer
  BY DEF Scope, ByoMachine
<1> QED BY Zenon, <1>1, <1>2, <1>3 DEF MarkFalse, Scope

\* A reconcile that has the host of its machine, on its way to the next request.
LEMMA HoldingPool ==
    ASSUME NEW hosts, NEW s \in Scope, s.after.finalizer, Holds(hosts, s)
    PROVE  /\ \A step \in {"resume", "create", "install", "uninstall", "provider"} :
                PoolGood(hosts, Goto(s, step))
           /\ PoolGood(hosts, AfterInstall(s))
           /\ PoolGood(hosts, WithHost(s))
<1>1. ASSUME NEW t \in Scope, t.after.finalizer, t.h = s.h, t.m = s.m
      PROVE  /\ \A step \in {"resume", "create", "install", "uninstall", "provider"} :
                  PoolGood(hosts, Goto(t, step))
             /\ PoolGood(hosts, Return(t))
             /\ PoolGood(hosts, AfterInstall(t))
  <2>1. t.h \in Hosts /\ t.h # None /\ Holds(hosts, t) /\ Unfinalized(hosts, t)
    BY <1>1, ByohAssumption DEF Holds, Unfinalized
  <2>2. \A step \in {"resume", "create", "install", "uninstall", "provider"} :
          PoolGood(hosts, Goto(t, step))
    <3> SUFFICES ASSUME NEW step \in {"resume", "create", "install", "uninstall", "provider"}
                 PROVE  PoolGood(hosts, Goto(t, step))
      OBVIOUS
    <3>1. /\ Goto(t, step).pc = step /\ Goto(t, step).h = t.h /\ Goto(t, step).m = t.m
          /\ Goto(t, step).after = t.after /\ Goto(t, step).mach = t.mach
      BY DEF Goto, Scope
    <3> QED BY <1>1, <2>1, <3>1 DEF PoolGood, PoolScope, Unfinalized, Located, Holds
  <2>3. PoolGood(hosts, Return(t))
    BY <2>1, ReturnPool
  <2> QED BY <2>2, <2>3 DEF AfterInstall
<1>2. PoolGood(hosts, WithHost(s))
  <2> DEFINE t == [s EXCEPT !.after.hostInfo = TRUE]
  <2>1. t \in Scope /\ t.after.finalizer /\ t.h = s.h /\ t.m = s.m
    BY Zenon DEF Scope, ByoMachine
  <2>2. WithHost(s) \in {AfterInstall(t), Goto(t, "install"), Return(t)}
    BY DEF WithHost
  <2> HIDE DEF t
  <2> QED BY <1>1, <2>1, <2>2
<1> QED BY <1>1, <1>2

\* The rest of reconcileNormal: the hosts it lists have no cluster label, and
\* so no owner.
LEMMA NormalPool ==
    ASSUME "ByoHost" \notin Stale, TypeOK, ReservationInv,
           NEW s \in Scope, s.m \in Machines, s.after.finalizer, Located(host, s)
    PROVE  /\ \A t \in AfterConfig(s) : PoolGood(host, t)
           /\ \A t \in AfterResume(s) : PoolGood(host, t)
           /\ \A t \in reconcileNormal(s) : PoolGood(host, t)
<1>1. Unfinalized(host, s)
  BY DEF Unfinalized
<1>2. \A r \in Reasons : PoolGood(host, Return(MarkFalse(s, r)))
  <2> SUFFICES ASSUME NEW r \in Reasons PROVE PoolGood(host, Return(MarkFalse(s, r)))
    OBVIOUS
  <2> DEFINE t == MarkFalse(s, r)
  <2>1. t \in Scope /\ t.after.finalizer
    BY MarkFalsePool
  <2>2. Unfinalized(host, t)
    BY <2>1 DEF Unfinalized
  <2> HIDE DEF t
  <2> QED BY <2>1, <2>2, ReturnPool DEF t
<1>3. ASSUME s.h # None
      PROVE  Holds(host, s) /\ PoolGood(host, Goto(s, "resume"))
             /\ PoolGood(host, Goto(s, "create")) /\ PoolGood(host, WithHost(s))
  BY <1>3, HoldingPool DEF Located
<1>4. ASSUME s.h = None PROVE \A t \in ListHosts(s) : PoolGood(host, t)
  <2> SUFFICES ASSUME NEW h \in Hosts, ~HostView(h).cluster
               PROVE  PoolGood(host, Goto([s EXCEPT !.h = h, !.host = HostView(h)], "attachObject"))
    BY Zenon, <1>2 DEF ListHosts, Reasons
  <2> DEFINE t == Goto([s EXCEPT !.h = h, !.host = HostView(h)], "attachObject")
  <2>1. host[h].attached = None
    BY Zenon DEF HostView, ReservationInv, ReservationCoherent, Coherent
  <2>2. /\ t.pc = "attachObject" /\ t.h = h /\ t.m = s.m
        /\ t.after = s.after /\ t.mach = s.mach
    BY DEF Goto, Scope
  <2>3. Hostless(host, t)
    BY <1>4, <2>2 DEF Located, Hostless
  <2> HIDE DEF t
  <2> QED BY Zenon, <2>1, <2>2, <2>3 DEF PoolGood, PoolScope, Unfinalized, t
<1>5. ASSUME s.h = None PROVE PoolGood(host, Goto(s, "create"))
  <2> DEFINE t == Goto(s, "create")
  <2>1. /\ t.pc = "create" /\ t.h = s.h /\ t.m = s.m
        /\ t.after = s.after /\ t.mach = s.mach
    BY DEF Goto, Scope
  <2>2. Located(host, t)
    BY <1>5, <2>1 DEF Located, Hostless
  <2> HIDE DEF t
  <2> QED BY <2>1, <2>2 DEF PoolGood, PoolScope, Unfinalized, t
<1>6. \A t \in AfterConfig(s) : PoolGood(host, t)
  BY <1>2, <1>3, <1>4 DEF AfterConfig, Reasons
<1>7. \A t \in AfterResume(s) : PoolGood(host, t)
  BY <1>3, <1>5, <1>6 DEF AfterResume
<1> QED BY <1>3, <1>6, <1>7 DEF reconcileNormal

\* A scope asks nothing of the installation secrets.
LEMMA FramePool ==
    ASSUME \A h \in Hosts : /\ host'[h].attached = host[h].attached
                            /\ host'[h].cleanup = host[h].cleanup,
           NEW s, PoolGood(host, s)
    PROVE  PoolGood(host', s)
<1>1. Holds(host, s) => Holds(host', s)
  BY DEF Holds
<1>2. Hostless(host, s) => Hostless(host', s)
  BY DEF Hostless
<1>3. Unfinalized(host', s)
  BY DEF PoolGood, Unfinalized
<1> QED BY <1>1, <1>2, <1>3 DEF PoolGood, PoolScope, Located

\* The parts of a reservation that a patch of the object leaves alone.
LEMMA PatchAlike ==
    ASSUME NEW c \in ByoHost, NEW b \in ByoHost, NEW a \in ByoHost
    PROVE  /\ Alike(PatchConditions(c, b, a), c)
           /\ Alike(PatchStatus(c, b, a), c)
           /\ Alike(a, b) => Alike(PatchObject(c, b, a), c)
           /\ a.attached = b.attached => PatchObject(c, b, a).attached = c.attached
           /\ a.cleanup = b.cleanup => PatchObject(c, b, a).cleanup = c.cleanup
           /\ a.installationSecret = b.installationSecret
                => PatchObject(c, b, a).installationSecret = c.installationSecret
           /\ a.attached # b.attached => PatchObject(c, b, a).attached = a.attached
           /\ a.cleanup # b.cleanup => PatchObject(c, b, a).cleanup = a.cleanup
           /\ a.installationSecret # b.installationSecret
                => PatchObject(c, b, a).installationSecret = a.installationSecret
<1>1. Alike(PatchConditions(c, b, a), c)
  BY DEF Alike, PatchConditions, ByoHost
<1>2. Alike(PatchStatus(c, b, a), c)
  BY DEF Alike, PatchStatus, ByoHost
<1>3. /\ PatchObject(c, b, a).attached = Merge(c.attached, b.attached, a.attached)
      /\ PatchObject(c, b, a).cleanup = Merge(c.cleanup, b.cleanup, a.cleanup)
      /\ PatchObject(c, b, a).installationSecret
           = Merge(c.installationSecret, b.installationSecret, a.installationSecret)
  BY DEF PatchObject, ByoHost
<1>4. Alike(a, b) => Alike(PatchObject(c, b, a), c)
  BY <1>3 DEF Merge, Alike
<1> QED BY <1>1, <1>2, <1>3, <1>4 DEF Merge

\* Reading the caches: a machine that is not seen under deletion has no host
\* that is marked.
LEMMA ReconcilePool ==
    ASSUME "ByoHost" \notin Stale, TypeOK, ReservationInv, PoolInv,
           NEW m \in Machines, Reconcile(m)
    PROVE  PoolGood(host, bm')
<1>1. PICK h \in FetchAttachedByoHost(m) :
        LET t == newByoMachineScope(m, h)
        IN  bm' \in CASE clusterPaused -> reconcilePaused(t)
                      [] ~clusterPaused /\ t.mach.phase = "deleting" -> reconcileDelete(t)
                      [] OTHER -> reconcileNormal(AddFinalizer(t))
  BY DEF Reconcile
<1> DEFINE t == newByoMachineScope(m, h)
<1>2. /\ h \in Hosts \cup {None}
      /\ h = None => \A g \in Hosts : host[g].attached # m
      /\ h # None => h \in Hosts /\ host[h].attached = m
  BY ByohAssumption DEF FetchAttachedByoHost, HostView
<1>3. MachView(m) \in ByoMachine /\ MachView(m).phase \in {"live", "deleting"}
  BY DEF MachView, TypeOK, ApiTypeOK, Reconcile, Exists
<1>4. /\ t \in Scope /\ t.m = m /\ t.h = h /\ t.mach = MachView(m) /\ t.after = MachView(m)
      /\ h # None => t.host = host[h]
  <2>1. (IF h = None THEN NewHost ELSE HostView(h)) \in ByoHost
    BY <1>2, InitialTypes DEF HostView, TypeOK, ApiTypeOK
  <2> QED BY <1>2, <1>3, <2>1 DEF newByoMachineScope, Scope, BmSteps, Owner, HostView
<1> HIDE DEF t
<1>5. Unfinalized(host, t)
  BY <1>4 DEF Unfinalized
<1>6. \A x \in reconcilePaused(t) : PoolGood(host, x)
  <2> DEFINE u == MarkFalse(t, "ClusterOrResourcePaused")
  <2>1. u \in Scope /\ u.m = t.m /\ u.mach = t.mach /\ u.after.finalizer = t.after.finalizer
    BY <1>4, MarkFalsePool DEF Reasons
  <2>2. Unfinalized(host, u)
    BY <1>5, <2>1 DEF Unfinalized
  <2> HIDE DEF u
  <2>3. PoolGood(host, Return(u))
    BY <2>1, <2>2, ReturnPool
  <2>4. PoolGood(host, Goto(t, "pause"))
    BY <1>4, <1>5 DEF PoolGood, PoolScope, Unfinalized, Goto, Scope
  <2> QED BY <2>3, <2>4 DEF reconcilePaused, u
<1>7. ASSUME t.mach.phase = "deleting" PROVE \A x \in reconcileDelete(t) : PoolGood(host, x)
  <2> DEFINE u == RemoveFinalizer(t)
  <2>1. u \in Scope /\ u.m = t.m
    BY <1>4, ScopeTypes DEF RemoveFinalizer, Scope
  <2>2. ASSUME h = None \/ t.host.cleanup PROVE Unfinalized(host, u)
    BY Zenon, <1>2, <1>4, <2>1, <2>2, ByohAssumption DEF Unfinalized, PoolInv, HostRules
  <2> HIDE DEF u
  <2>3. h = None \/ t.host.cleanup => PoolGood(host, Return(u))
    BY Zenon, <2>1, <2>2, ReturnPool
  <2>4. ASSUME h # None, ~t.host.cleanup PROVE PoolGood(host, Goto(t, "mark"))
    <3>1. m \in Leaving
      BY <1>4, <1>7 DEF Leaving
    <3>2. /\ Goto(t, "mark").pc = "mark" /\ Goto(t, "mark").h = h /\ Goto(t, "mark").m = m
          /\ Goto(t, "mark").host = t.host /\ Goto(t, "mark").mach = t.mach
          /\ Goto(t, "mark").after = t.after
      BY <1>4 DEF Goto, Scope
    <3> QED BY <1>2, <1>4, <2>4, <3>1, <3>2 DEF PoolGood, PoolScope, Unfinalized, Holds
  <2> QED BY <1>4, <2>3, <2>4 DEF reconcileDelete, u
<1>8. ASSUME t.mach.phase # "deleting"
      PROVE  \A x \in reconcileNormal(AddFinalizer(t)) : PoolGood(host, x)
  <2> DEFINE u == AddFinalizer(t)
  <2>1. u \in Scope /\ u.m = m /\ u.h = h /\ u.after.finalizer
    BY <1>4, ScopeTypes DEF AddFinalizer, Scope, ByoMachine
  <2>2. m \notin Leaving
    BY <1>3, <1>4, <1>8 DEF Leaving
  <2>3. Located(host, u)
    BY <1>2, <2>1, <2>2 DEF Located, Hostless, Holds, PoolInv, HostRules
  <2> HIDE DEF u
  <2> QED BY <2>1, <2>3, NormalPool DEF u
<1> QED BY <1>1, <1>6, <1>7, <1>8 DEF t

\* Every step of the controller leaves the reservations alone, or claims a
\* free host for a machine without one, marks the host of a machine under
\* deletion, or gives its installation secret to the host of its machine.
LEMMA BmPool ==
    ASSUME "ByoHost" \notin Stale, TypeOK, TypeOK', ReservationInv, PoolInv, BmNext
    PROVE  ManagerEffect /\ PoolGood(host', bm')
<1>1. /\ bm \in Scope /\ bm.host \in ByoHost /\ PoolGood(host, bm)
      /\ bm.pc # "idle" => bm.m \in Machines
      /\ \A h \in Hosts : host[h] \in ByoHost /\ host'[h] \in ByoHost
  BY DEF TypeOK, ApiTypeOK, Scope, PoolInv, PoolGood, ReservationInv, GoodScope
<1>2. ASSUME UNCHANGED host PROVE Untouched /\ ManagerEffect
  BY <1>2 DEF Untouched, Alike, ManagerEffect
<1>3. ASSUME Untouched, NEW t, PoolGood(host, t) PROVE PoolGood(host', t)
  BY <1>3, FramePool DEF Untouched, Alike
<1>4. PoolGood(host, Return(bm))
  BY <1>1, ReturnPool DEF PoolGood
\* A request writes at most the host in the scope.
<1>5. ASSUME NEW o, NEW new, NEW ok, NEW failed, PatchHost(o, new, ok, failed)
      PROVE  /\ \A g \in Hosts : host'[g] = host[g] \/ (g = bm.h /\ host'[g] = new)
             /\ bm' \in ok \cup {failed}
             /\ o = "ok" /\ bm.h \in Hosts => host'[bm.h] = new
             /\ o = "ok" => bm' \in ok
             /\ o # "ok" => bm' = failed
  <2>1. host' = IF o = "failed" THEN host ELSE [host EXCEPT ![bm.h] = new]
    BY <1>5 DEF PatchHost, WriteHost
  <2>2. (o = "ok" => bm' \in ok) /\ (o # "ok" => bm' = failed)
    BY <1>5 DEF PatchHost
  <2>3. DOMAIN host = Hosts
    BY DEF TypeOK, ApiTypeOK
  <2>4. /\ \A g \in Hosts : host'[g] = host[g] \/ (g = bm.h /\ host'[g] = new)
        /\ o = "ok" /\ bm.h \in Hosts => host'[bm.h] = new
    BY <2>1, <2>3
  <2> QED BY <2>2, <2>4
<1>6. ASSUME NEW o, NEW new, NEW ok, NEW failed, PatchHost(o, new, ok, failed),
             bm.h \in Hosts => Alike(new, host[bm.h]),
             \A t \in ok \cup {failed} : PoolGood(host, t)
      PROVE  ManagerEffect /\ PoolGood(host', bm')
  <2>1. Untouched
    BY <1>5, <1>6 DEF Untouched, Alike
  <2> QED BY <1>3, <1>5, <1>6, <2>1 DEF ManagerEffect
\* One that changes nothing of the reservation.
<1>7. ASSUME NEW after \in ByoHost, Alike(after, bm.host)
      PROVE  bm.h \in Hosts => Alike(PatchObject(host[bm.h], bm.host, after), host[bm.h])
  BY <1>1, <1>7, PatchAlike
<1>8. CASE \E m \in Machines : Reconcile(m)
  <2>1. PICK m \in Machines : Reconcile(m)
    BY <1>8
  <2>2. PoolGood(host, bm')
    BY <2>1, ReconcilePool
  <2>3. UNCHANGED host
    BY <2>1 DEF Reconcile, apiVars
  <2> QED BY <1>2, <1>3, <2>2, <2>3
<1>9. CASE setPausedConditionForByoHost
  <2> DEFINE after == [bm.host EXCEPT !.paused = TRUE]
             t == MarkFalse(bm, "ClusterOrResourcePaused")
  <2>1. PICK o \in Outcomes :
          PatchHost(o, PatchObject(host[bm.h], bm.host, after), {Return(t)}, Return(t))
    BY <1>9 DEF setPausedConditionForByoHost
  <2>2. after \in ByoHost /\ Alike(after, bm.host)
    BY Zenon, <1>1 DEF ByoHost, Alike
  <2>3. t \in Scope /\ t.m = bm.m /\ t.mach = bm.mach /\ t.after.finalizer = bm.after.finalizer
    BY <1>1, MarkFalsePool DEF Reasons
  <2> HIDE DEF after, t
  <2>4. PoolGood(host, Return(t))
    BY Zenon, <1>1, <2>3, ReturnPool DEF PoolGood, Unfinalized
  <2> QED BY <1>6, <1>7, <2>1, <2>2, <2>4
<1>10. CASE unsetPausedConditionForByoHost
  <2> DEFINE after == [bm.host EXCEPT !.paused = FALSE]
             t == [bm EXCEPT !.host = after]
  <2>1. PICK o \in Outcomes :
          PatchHost(o, PatchObject(host[bm.h], bm.host, after), AfterResume(t), Return(bm))
    BY <1>10 DEF unsetPausedConditionForByoHost
  <2>2. after \in ByoHost /\ Alike(after, bm.host)
    BY Zenon, <1>1 DEF ByoHost, Alike
  <2>3. t \in Scope /\ t.m = bm.m /\ t.h = bm.h /\ t.after = bm.after
    BY Zenon, <1>1, <2>2 DEF Scope
  <2> HIDE DEF after, t
  <2>4. t.m \in Machines /\ t.after.finalizer /\ Located(host, t)
    BY <1>1, <1>10, <2>3, ByohAssumption
       DEF unsetPausedConditionForByoHost, PoolGood, PoolScope, Located, Holds
  <2>5. \A x \in AfterResume(t) : PoolGood(host, x)
    BY <2>3, <2>4, NormalPool
  <2> QED BY <1>4, <1>6, <1>7, <2>1, <2>2, <2>5
<1>11. CASE markHostForCleanup
  <2> DEFINE after == [bm.host EXCEPT !.cleanup = TRUE]
             new == PatchObject(host[bm.h], bm.host, after)
             t == RemoveFinalizer(bm)
  <2>1. PICK o \in Outcomes : PatchHost(o, new, {Return(t)}, Return(bm))
    BY <1>11 DEF markHostForCleanup
  <2>2. after \in ByoHost /\ after.attached = bm.host.attached /\ after.cleanup = TRUE
        /\ after.installationSecret = bm.host.installationSecret
    BY Zenon, <1>1 DEF ByoHost
  <2>3. /\ Holds(host, bm) /\ bm.m \in Leaving /\ bm.host.cleanup = FALSE
        /\ Unfinalized(host, bm)
    BY <1>1, <1>11 DEF markHostForCleanup, PoolGood, PoolScope, ByoHost
  <2> HIDE DEF after
  <2>4. /\ new.attached = bm.m /\ new.cleanup = TRUE
        /\ new.installationSecret = host[bm.h].installationSecret
    BY SMTT(30), <1>1, <2>2, <2>3, PatchAlike DEF Holds
  <2> HIDE DEF new
  <2>5. Untouched \/ Marks(bm.h)
    BY <1>5, <2>1, <2>3, <2>4 DEF Untouched, Marks, Others, Alike, Holds
  <2>6. t \in Scope /\ t.m = bm.m
    BY <1>1, ScopeTypes DEF RemoveFinalizer, Scope
  <2> HIDE DEF t
  <2>7. ASSUME o = "ok" PROVE Unfinalized(host', t)
    <3>1. \A h \in Hosts : host'[h].attached = bm.m => h = bm.h
      BY SMTT(30), <1>5, <2>1, <2>3, ByohAssumption DEF Holds, PoolInv, HostRules, Leaving
    <3>2. host'[bm.h].cleanup
      BY <1>5, <2>1, <2>3, <2>4, <2>7 DEF Holds
    <3> QED BY Zenon, <2>6, <3>1, <3>2 DEF Unfinalized
  <2>8. Unfinalized(host', bm)
    BY <2>3 DEF Holds, Unfinalized
  <2>9. PoolGood(host', bm')
    BY <1>1, <1>5, <2>1, <2>6, <2>7, <2>8, ReturnPool
  <2> QED BY <2>3, <2>5, <2>9 DEF ManagerEffect, Holds
<1>12. CASE createInstallerConfig
  <2>1. bm.m \in Machines /\ bm.after.finalizer /\ Located(host, bm)
    BY <1>1, <1>12 DEF createInstallerConfig, PoolGood, PoolScope
  <2>2. bm' \in AfterConfig(bm) \cup {Return(bm)} /\ UNCHANGED host
    BY <1>12 DEF createInstallerConfig
  <2>3. PoolGood(host, bm')
    BY <1>1, <1>4, <2>1, <2>2, NormalPool
  <2> QED BY <1>2, <1>3, <2>2, <2>3
\* The claim: the copy in the scope is free, and so is the host.
<1>13. ASSUME bm.pc \in {"attachObject", "attachStatus"}
       PROVE  /\ Claimed(bm) \in ByoHost /\ bm.m \in Machines
              /\ bm.host.attached = None /\ Claimed(bm).attached = bm.m
              /\ Claimed(bm).cleanup = bm.host.cleanup
              /\ Claimed(bm).installationSecret = bm.host.installationSecret
  <2>1. bm.m \in Machines /\ bm.host.attached = None
    BY <1>1, <1>13 DEF ReservationInv, GoodScope
  <2> QED BY ZenonT(30), <1>1, <2>1 DEF Claimed, ByoHost, Owner
<1>14. CASE attachByoHost
  <2> DEFINE new == PatchObject(host[bm.h], bm.host, Claimed(bm))
             t == Goto(bm, "attachStatus")
             f == Goto([bm EXCEPT !.failed = TRUE], "attachStatus")
  <2>1. PICK o \in Outcomes : PatchHost(o, new, {t}, f)
    BY <1>14 DEF attachByoHost
  <2>2. /\ bm.h \in Hosts /\ host[bm.h].attached = None /\ Hostless(host, bm)
        /\ bm.after.finalizer
    BY <1>1, <1>14 DEF attachByoHost, PoolGood, PoolScope
  <2>3. bm.m \in Machines /\ bm.m # None
    BY Zenon, <1>13, <1>14, ByohAssumption DEF attachByoHost
  <2>4. host[bm.h].cleanup = FALSE /\ host[bm.h].installationSecret = None
    BY <1>1, <2>2, ByohAssumption
       DEF PoolInv, HostRules, OwnInstallationSecret, Leaving, ByoHost
  <2>5. new.attached = bm.m /\ new.cleanup = FALSE /\ new.installationSecret = None
    BY <1>1, <1>13, <1>14, <2>2, <2>3, <2>4, PatchAlike DEF attachByoHost
  <2> HIDE DEF new
  <2>6. Untouched \/ Claims(bm.h, bm.m)
    BY <1>5, <2>1, <2>2, <2>3, <2>5 DEF Untouched, Claims, Others, Alike, Hostless
  <2>7. /\ t.pc = "attachStatus" /\ t.h = bm.h /\ t.m = bm.m /\ t.after = bm.after
        /\ f.pc = "attachStatus" /\ f.failed /\ f.after = bm.after
    BY <1>1 DEF Goto, Scope
  <2> HIDE DEF t, f
  <2>8. o = "ok" => Holds(host', t)
    BY SMTT(30), <1>5, <2>1, <2>2, <2>5, <2>7 DEF Holds
  <2>9. PoolGood(host', bm')
    BY <1>5, <2>1, <2>2, <2>7, <2>8 DEF PoolGood, PoolScope, Unfinalized
  <2> QED BY <2>2, <2>3, <2>6, <2>9 DEF ManagerEffect
<1>15. CASE attachByoHostStatus
  <2> DEFINE c == [bm EXCEPT !.host = Claimed(bm)]
             t == MarkFalse(c, "InstallationSecretNotAvailable")
             ok == IF bm.failed THEN Return(bm) ELSE WithHost(t)
  <2>1. PICK o \in Outcomes :
          PatchHost(o, PatchStatus(host[bm.h], bm.host, Claimed(bm)), {ok}, Return(bm))
    BY <1>15 DEF attachByoHostStatus
  <2>2. Claimed(bm) \in ByoHost
    BY <1>13, <1>15 DEF attachByoHostStatus
  <2>3. bm.h \in Hosts => Alike(PatchStatus(host[bm.h], bm.host, Claimed(bm)), host[bm.h])
    BY <1>1, <2>2, PatchAlike
  <2>4. c \in Scope /\ c.h = bm.h /\ c.m = bm.m /\ c.after = bm.after
    BY <1>1, <2>2 DEF Scope
  <2> HIDE DEF c
  <2>5. t \in Scope /\ t.h = bm.h /\ t.m = bm.m /\ t.after.finalizer = bm.after.finalizer
    BY <2>4, MarkFalsePool DEF Reasons
  <2> HIDE DEF t
  <2>6. bm.after.finalizer /\ (~bm.failed => Holds(host, t))
    BY <1>1, <1>15, <2>5 DEF attachByoHostStatus, PoolGood, PoolScope, Holds
  <2>7. PoolGood(host, ok)
    BY Zenon, <1>4, <2>5, <2>6, HoldingPool
  <2> HIDE DEF ok
  <2> QED BY <1>4, <1>6, <2>1, <2>3, <2>7
<1>16. CASE setInstallationSecretForByoHost
  <2> DEFINE after == [bm.host EXCEPT !.installationSecret = bm.m]
             new == PatchObject(host[bm.h], bm.host, after)
             t == [bm EXCEPT !.host = after]
  <2>1. PICK o \in Outcomes : PatchHost(o, new, {AfterInstall(t)}, Return(bm))
    BY <1>16 DEF setInstallationSecretForByoHost
  <2>2. Holds(host, bm) /\ bm.after.finalizer /\ bm.m \in Machines
    BY <1>1, <1>16 DEF setInstallationSecretForByoHost, PoolGood, PoolScope
  <2>3. /\ after \in ByoHost /\ after.installationSecret = bm.m
        /\ after.attached = bm.host.attached /\ after.cleanup = bm.host.cleanup
    BY <1>1, <2>2 DEF ByoHost, Owner
  <2>4. t \in Scope /\ t.h = bm.h /\ t.m = bm.m /\ t.after = bm.after
    BY <1>1, <2>3 DEF Scope
  <2> HIDE DEF after, t
  <2>5. /\ new.attached = host[bm.h].attached /\ new.cleanup = host[bm.h].cleanup
        /\ new.installationSecret \in {bm.m, host[bm.h].installationSecret}
    BY SMTT(30), <1>1, <2>2, <2>3, PatchAlike DEF Holds
  <2> HIDE DEF new
  <2>6. Untouched \/ Installs(bm.h)
    BY <1>5, <2>1, <2>2, <2>5 DEF Untouched, Installs, Others, Alike, Holds
  <2>7. PoolGood(host, AfterInstall(t))
    BY <2>2, <2>4, HoldingPool DEF Holds
  <2>8. \A h \in Hosts : host'[h].attached = host[h].attached /\ host'[h].cleanup = host[h].cleanup
    BY <1>5, <2>1, <2>5
  <2>9. PoolGood(host, bm')
    BY <1>4, <1>5, <2>1, <2>7
  <2>10. PoolGood(host', bm')
    BY <2>8, <2>9, FramePool
  <2> QED BY <2>2, <2>6, <2>10 DEF ManagerEffect, Holds
<1>17. CASE setUninstallationSecretForByoHost
  <2> DEFINE after == [bm.host EXCEPT !.uninstallationSecret = bm.m]
             t == [bm EXCEPT !.host = after]
  <2>1. PICK o \in Outcomes :
          PatchHost(o, PatchObject(host[bm.h], bm.host, after), {Goto(t, "provider")}, Return(bm))
    BY <1>17 DEF setUninstallationSecretForByoHost
  <2>2. Holds(host, bm) /\ bm.after.finalizer /\ bm.m \in Machines
    BY <1>1, <1>17 DEF setUninstallationSecretForByoHost, PoolGood, PoolScope
  <2>3. after \in ByoHost /\ Alike(after, bm.host)
    BY <1>1, <2>2 DEF ByoHost, Owner, Alike
  <2>4. t \in Scope /\ t.h = bm.h /\ t.m = bm.m /\ t.after = bm.after
    BY <1>1, <2>3 DEF Scope
  <2> HIDE DEF after, t
  <2>5. PoolGood(host, Goto(t, "provider"))
    BY <2>2, <2>4, HoldingPool DEF Holds
  <2> QED BY <1>4, <1>6, <1>7, <2>1, <2>3, <2>5
<1>18. CASE updateNodeProviderID
  <2> DEFINE t == [bm EXCEPT !.after.providerID = TRUE, !.after.ready = TRUE,
                             !.after.reason = "True"]
  <2>1. bm.after.finalizer
    BY <1>1, <1>18 DEF updateNodeProviderID, PoolGood, PoolScope
  <2>2. t \in Scope /\ t.after.finalizer
    BY Zenon, <1>1, <2>1 DEF Scope, ByoMachine, Reasons
  <2>3. bm' \in {Return(t), Return(bm)} /\ UNCHANGED host
    BY <1>18 DEF updateNodeProviderID
  <2> HIDE DEF t
  <2>4. PoolGood(host, Return(t))
    BY <2>2, ReturnPool DEF Unfinalized
  <2> QED BY <1>2, <1>3, <1>4, <2>3, <2>4
<1>19. CASE patchMachineConditions \/ patchMachineObject \/ patchMachineStatus
  <2>1. bm' \in {AfterConditions(bm), AfterObject(bm), Idle} /\ UNCHANGED host
    BY <1>19 DEF patchMachineConditions, patchMachineObject, patchMachineStatus, PatchMachine
  <2>2. PoolGood(host, bm')
    BY <1>1, <2>1, ReturnPool DEF PoolGood
  <2> QED BY <1>2, <1>3, <2>1, <2>2
<1> QED BY Zenon, <1>8, <1>9, <1>10, <1>11, <1>12, <1>14, <1>15, <1>16, <1>17, <1>18, <1>19
        DEF BmNext, BmStep

(***************************************************************************)
(* The agents                                                              *)
(***************************************************************************)
\* A reconcile of an agent whose copy is its host, if that one is marked.
Ready(b, a) == a \in AgentState /\ Fits(a) /\ (a.before.cleanup => Alike(b, a.before))

\* Such a reconcile may change conditions, fail, and release a marked host.
LEMMA AgentReady ==
    ASSUME NEW b, NEW a, Ready(b, a)
    PROVE  /\ Ready(b, Failed(a))
           /\ \A x \in BOOLEAN : /\ Ready(b, [a EXCEPT !.after.installed = x])
                                 /\ Ready(b, [a EXCEPT !.after.bootstrapped = x])
           /\ a.before.cleanup => Ready(b, [a EXCEPT !.after = Released(@)])
<1>1. a \in AgentState /\ a.before \in ByoHost /\ a.after \in ByoHost
  BY DEF Ready, AgentState
<1>2. ASSUME NEW c \in AgentState, c.before = a.before, Alike(c.after, a.after) \/ GivesBack(c)
      PROVE  Ready(b, c)
  BY <1>2 DEF Ready, Fits, Alike, GivesBack
<1>3. Ready(b, Failed(a))
  <2>1. Failed(a) \in AgentState /\ Failed(a).before = a.before /\ Failed(a).after = a.after
    BY Zenon, <1>1 DEF Failed, AgentState
  <2> QED BY <1>2, <2>1 DEF Alike
<1>4. ASSUME NEW x \in BOOLEAN
      PROVE  /\ Ready(b, [a EXCEPT !.after.installed = x])
             /\ Ready(b, [a EXCEPT !.after.bootstrapped = x])
  <2>1. /\ [a EXCEPT !.after.installed = x] \in AgentState
        /\ [a EXCEPT !.after.bootstrapped = x] \in AgentState
    BY Zenon, <1>1, AgentTypes
  <2>2. /\ [a EXCEPT !.after.installed = x].before = a.before
        /\ [a EXCEPT !.after.bootstrapped = x].before = a.before
        /\ [a EXCEPT !.after.installed = x].after = [a.after EXCEPT !.installed = x]
        /\ [a EXCEPT !.after.bootstrapped = x].after = [a.after EXCEPT !.bootstrapped = x]
    BY <1>1 DEF AgentState
  <2>3. /\ Alike([a.after EXCEPT !.installed = x], a.after)
        /\ Alike([a.after EXCEPT !.bootstrapped = x], a.after)
    BY <1>1 DEF Alike, ByoHost
  <2> QED BY Zenon, <1>2, <2>1, <2>2, <2>3
<1>5. ASSUME a.before.cleanup PROVE Ready(b, [a EXCEPT !.after = Released(@)])
  <2> DEFINE c == [a EXCEPT !.after = Released(@)]
  <2>1. c \in AgentState
    BY <1>1, AgentTypes
  <2>2. c.before = a.before /\ c.after = Released(a.after)
    BY <1>1 DEF AgentState
  <2>3. /\ Released(a.after).attached = None /\ ~Released(a.after).cleanup
        /\ Released(a.after).installationSecret = None
    BY <1>1 DEF Released, ByoHost
  <2> HIDE DEF c
  <2> QED BY Zenon, <1>2, <1>5, <2>1, <2>2, <2>3 DEF GivesBack, c
<1> QED BY <1>3, <1>4, <1>5

\* It goes on to any of its steps, those of the cleanup if the host is marked.
LEMMA ReadySteps ==
    ASSUME NEW b, NEW a, Ready(b, a)
    PROVE  /\ \A pc \in AgentSteps :
                pc \notin {"reset", "uninstall", "release"} \/ a.before.cleanup
                  => PoolAgent(b, Step(a, pc))
           /\ PoolAgent(b, SendObject(a))
           /\ PoolAgent(b, Send(a))
<1>1. ASSUME NEW pc \in AgentSteps,
             pc \notin {"reset", "uninstall", "release"} \/ a.before.cleanup
      PROVE  PoolAgent(b, Step(a, pc))
  <2>1. /\ Step(a, pc).pc = pc /\ Step(a, pc).before = a.before
        /\ Step(a, pc).after = a.after
    BY DEF Step, Ready, AgentState
  <2> QED BY <1>1, <2>1 DEF PoolAgent, Ready, Fits, GivesBack
<1>2. PoolAgent(b, SendStatus(a))
  BY <1>1 DEF SendStatus, AgentSteps
<1>3. PoolAgent(b, SendObject(a))
  BY ZenonT(30), <1>1, <1>2 DEF SendObject, AgentSteps
<1> QED BY <1>1, <1>3 DEF Send, AgentSteps

\* Every step of an agent leaves the reservations alone or gives its host back.
LEMMA AgentPool ==
    ASSUME TypeOK, TypeOK', PoolInv, AgentNext
    PROVE  AgentEffect /\ \A g \in Hosts : PoolAgent(host'[g], agent'[g])
<1>1. PICK h \in Hosts : AgentStep(h) \/ AgentCrash(h)
  BY DEF AgentNext
<1>2. /\ agent[h] \in AgentState /\ PoolAgent(host[h], agent[h])
      /\ agent[h].before \in ByoHost /\ agent[h].after \in ByoHost
      /\ host[h] \in ByoHost
  BY DEF TypeOK, AgentState, ApiTypeOK, PoolInv
<1>3. ASSUME agent[h].pc \notin {"idle", "patchStatus"} PROVE Ready(host[h], agent[h])
  BY Zenon, <1>2, <1>3 DEF PoolAgent, Ready
<1>4. PoolAgent(host[h], AgentIdle) /\ PoolAgent(host'[h], AgentIdle)
  BY Zenon DEF PoolAgent, AgentIdle, NewHost, Fits, Alike
\* A step on the host.
<1>5. ASSUME NEW a, PoolAgent(host[h], a), NEW n, OnHost(h, a, n)
      PROVE  AgentEffect /\ \A g \in Hosts : PoolAgent(host'[g], agent'[g])
  <2>1. /\ agent' = [agent EXCEPT ![h] = IF a.pc = "idle" THEN AgentIdle ELSE a]
        /\ UNCHANGED host
    BY <1>5 DEF OnHost, Become
  <2>2. \A g \in Hosts : PoolAgent(host'[g], agent'[g])
    BY <1>4, <1>5, <2>1 DEF TypeOK, PoolInv
  <2>3. AgentEffect
    BY <2>1 DEF AgentEffect, Untouched, Alike
  <2> QED BY <2>2, <2>3
\* A request.
<1>6. ASSUME NEW o, NEW new, NEW next \in AgentState,
             PatchAgentHost(h, o, new, next),
             PoolAgent(host[h], next), PoolAgent(new, next),
             PoolAgent(host[h], Failed(next)), PoolAgent(new, Failed(next)),
             \/ Alike(new, host[h])
             \/ /\ host[h].cleanup /\ new.attached = None /\ ~new.cleanup
                /\ new.installationSecret = None
      PROVE  AgentEffect /\ \A g \in Hosts : PoolAgent(host'[g], agent'[g])
  <2> DEFINE a == IF o = "ok" THEN next ELSE Failed(next)
  <2>1. agent' = [agent EXCEPT ![h] = IF a.pc = "idle" THEN AgentIdle ELSE a]
    BY Zenon, <1>6 DEF PatchAgentHost, Become
  <2>2. \A g \in Hosts : host'[g] = host[g] \/ (g = h /\ host'[g] = new)
    BY ZenonT(30), <1>6 DEF PatchAgentHost, TypeOK, ApiTypeOK
  <2>3. PoolAgent(host'[h], a)
    BY Zenon, <1>6, <2>2
  <2> HIDE DEF a
  <2>4. \A g \in Hosts : PoolAgent(host'[g], agent'[g])
    BY ZenonT(30), <1>4, <2>1, <2>2, <2>3 DEF TypeOK, PoolInv
  <2>5. AgentEffect
    BY ZenonT(30), <1>6, <2>2 DEF AgentEffect, Untouched, Returns, Others, Alike
  <2> QED BY Zenon, <2>4, <2>5
<1>7. CASE AgentReconcile(h)
  <2> DEFINE a == [pc |-> "idle", before |-> host[h], after |-> host[h], failed |-> FALSE]
             next == IF host[h].cleanup
                     THEN Step(a, IF host[h].installed THEN "reset" ELSE "uninstall")
                     ELSE Normal(a)
  <2>1. Ready(host[h], a) /\ a.before = host[h]
    BY Zenon, <1>2 DEF AgentState, AgentSteps, Ready, Fits, Alike
  <2>2. agent' = [agent EXCEPT ![h] = IF next.pc = "idle" THEN AgentIdle ELSE next]
    BY Zenon, <1>7 DEF AgentReconcile
  <2>3. UNCHANGED host
    BY <1>7 DEF AgentReconcile
  <2> HIDE DEF a
  <2>4. PoolAgent(host[h], Normal(a))
    <3>1. Ready(host[h], [a EXCEPT !.after.bootstrapped = FALSE])
      BY Zenon, <2>1, AgentReady
    <3> QED BY <2>1, <3>1, ReadySteps DEF Normal, AgentSteps
  <2>5. PoolAgent(host[h], next)
    BY <2>1, <2>4, ReadySteps DEF AgentSteps
  <2> HIDE DEF next
  <2>6. \A g \in Hosts : PoolAgent(host'[g], agent'[g])
    BY <1>4, <2>2, <2>3, <2>5 DEF TypeOK, PoolInv
  <2>7. AgentEffect
    BY <2>3 DEF AgentEffect, Untouched, Alike
  <2> QED BY <2>6, <2>7
<1>8. CASE AgentCrash(h)
  <2>1. \A g \in Hosts : PoolAgent(host'[g], agent'[g])
    BY <1>4, <1>8 DEF AgentCrash, TypeOK, PoolInv
  <2> QED BY <1>8, <2>1 DEF AgentCrash, AgentEffect, Untouched, Alike
<1>9. ASSUME agent[h].pc \notin {"idle", "patchStatus"}
      PROVE  LET Fine(a) == PoolAgent(host[h], a)
             IN  /\ Fine(Send(agent[h])) /\ Fine(Send(Failed(agent[h])))
                 /\ Fine(Step(agent[h], "boot")) /\ Fine(Step(agent[h], "install"))
                 /\ \A x \in BOOLEAN :
                      /\ Fine(Step([agent[h] EXCEPT !.after.installed = x], "boot"))
                      /\ Fine(Send([agent[h] EXCEPT !.after.bootstrapped = x]))
                      /\ Fine(Send([Failed(agent[h]) EXCEPT !.after.installed = x]))
                      /\ Fine(Send([Failed(agent[h]) EXCEPT !.after.bootstrapped = x]))
                 /\ agent[h].before.cleanup =>
                      /\ \A x \in BOOLEAN :
                           /\ Fine(Step([agent[h] EXCEPT !.after.installed = x], "uninstall"))
                           /\ Fine(Step([agent[h] EXCEPT !.after.bootstrapped = x], "release"))
                      /\ Fine(Send([agent[h] EXCEPT !.after = Released(@)]))
  <2> DEFINE R(a) == Ready(host[h], a)
  <2>1. R(agent[h]) /\ R(Failed(agent[h]))
    BY Zenon, <1>3, <1>9, AgentReady
  <2>2. \A x \in BOOLEAN : /\ R([agent[h] EXCEPT !.after.installed = x])
                           /\ R([agent[h] EXCEPT !.after.bootstrapped = x])
                           /\ R([Failed(agent[h]) EXCEPT !.after.installed = x])
                           /\ R([Failed(agent[h]) EXCEPT !.after.bootstrapped = x])
    BY Zenon, <2>1, AgentReady
  <2>3. agent[h].before.cleanup => R([agent[h] EXCEPT !.after = Released(@)])
    BY <2>1, AgentReady
  <2>4. \A a : R(a) => /\ PoolAgent(host[h], Send(a))
                       /\ PoolAgent(host[h], Step(a, "boot"))
                       /\ PoolAgent(host[h], Step(a, "install"))
                       /\ a.before.cleanup => /\ PoolAgent(host[h], Step(a, "uninstall"))
                                              /\ PoolAgent(host[h], Step(a, "release"))
    BY ReadySteps DEF AgentSteps
  <2>5. \A x \in BOOLEAN : /\ [agent[h] EXCEPT !.after.installed = x].before = agent[h].before
                           /\ [agent[h] EXCEPT !.after.bootstrapped = x].before = agent[h].before
    BY <1>2 DEF AgentState
  <2> HIDE DEF R
  <2> QED BY Zenon, <2>1, <2>2, <2>3, <2>4, <2>5
<1>10. CASE getBootstrapScript(h)
  <2>1. PICK a \in {Send(Failed(agent[h])), Send(agent[h]), Step(agent[h], "boot"),
                    Step(agent[h], "install")} : OnHost(h, a, node[h])
    BY <1>10 DEF getBootstrapScript
  <2> QED BY <1>5, <1>9, <1>10, <2>1 DEF getBootstrapScript
<1>11. CASE executeInstallerController(h)
  <2>1. PICK a \in {Send(Failed(agent[h])),
                    Step([agent[h] EXCEPT !.after.installed = TRUE], "boot"),
                    Send([Failed(agent[h]) EXCEPT !.after.installed = FALSE])} :
          \E n : OnHost(h, a, n)
    BY Zenon, <1>11 DEF executeInstallerController
  <2> QED BY Zenon, <1>5, <1>9, <1>11, <2>1 DEF executeInstallerController
<1>12. CASE bootstrapK8sNode(h)
  <2>1. PICK a \in {Send([agent[h] EXCEPT !.after.bootstrapped = TRUE]),
                    Send([Failed(agent[h]) EXCEPT !.after.bootstrapped = FALSE])} :
          \E n : OnHost(h, a, n)
    BY Zenon, <1>12 DEF bootstrapK8sNode
  <2> QED BY Zenon, <1>5, <1>9, <1>12, <2>1 DEF bootstrapK8sNode
<1>13. ASSUME agent[h].pc \in {"reset", "uninstall", "release"}
       PROVE  agent[h].before.cleanup
  BY <1>2, <1>13 DEF PoolAgent
<1>14. CASE resetNode(h)
  <2>1. PICK a \in {Step([agent[h] EXCEPT !.after.installed = FALSE], "uninstall"),
                    Send(Failed(agent[h]))} :
          \E n : OnHost(h, a, n)
    BY Zenon, <1>14 DEF resetNode
  <2> QED BY Zenon, <1>5, <1>9, <1>13, <1>14, <2>1 DEF resetNode
<1>15. CASE executeUninstallScript(h)
  <2>1. PICK a \in {Step([agent[h] EXCEPT !.after.bootstrapped = FALSE], "release"),
                    Send(Failed(agent[h]))} :
          \E n : OnHost(h, a, n)
    BY Zenon, <1>15 DEF executeUninstallScript
  <2> QED BY Zenon, <1>5, <1>9, <1>13, <1>15, <2>1 DEF executeUninstallScript
<1>16. CASE removeAnnotations(h)
  <2>1. PICK a \in {Send([agent[h] EXCEPT !.after = Released(@)]), Send(Failed(agent[h]))} :
          OnHost(h, a, node[h])
    BY <1>16 DEF removeAnnotations
  <2> QED BY <1>5, <1>9, <1>13, <1>16, <2>1 DEF removeAnnotations
\* A patch of the conditions or of the status.
<1>17. ASSUME NEW o, NEW new \in ByoHost, NEW next \in AgentState, Alike(new, host[h]),
              PatchAgentHost(h, o, new, next), PoolAgent(host[h], next)
       PROVE  AgentEffect /\ \A g \in Hosts : PoolAgent(host'[g], agent'[g])
  <2>1. PoolAgent(host[h], Failed(next))
    <3>1. /\ Failed(next).pc = next.pc /\ Failed(next).before = next.before
          /\ Failed(next).after = next.after
      BY Zenon DEF Failed, AgentState
    <3> QED BY <1>17, <3>1 DEF PoolAgent, Fits, GivesBack
  <2>2. PoolAgent(new, next) /\ PoolAgent(new, Failed(next))
    BY Zenon, <1>17, <2>1 DEF PoolAgent, Alike
  <2> QED BY Zenon, <1>6, <1>17, <2>1, <2>2
<1>18. CASE patchHostConditions(h)
  <2> DEFINE new == PatchConditions(host[h], agent[h].before, agent[h].after)
  <2>1. PICK o \in Outcomes : PatchAgentHost(h, o, new, SendObject(agent[h]))
    BY <1>18 DEF patchHostConditions
  <2>2. new \in ByoHost /\ Alike(new, host[h])
    BY Zenon, <1>2, PatchAlike, PatchTypes
  <2> HIDE DEF new
  <2>3. SendObject(agent[h]) \in AgentState /\ PoolAgent(host[h], SendObject(agent[h]))
    BY Zenon, <1>2, <1>3, <1>18, AgentTypes, ReadySteps DEF patchHostConditions
  <2> QED BY <1>17, <2>1, <2>2, <2>3
<1>19. CASE patchHostStatus(h)
  <2> DEFINE new == PatchStatus(host[h], agent[h].before, agent[h].after)
  <2>1. PICK o \in Outcomes : PatchAgentHost(h, o, new, Step(agent[h], "idle"))
    BY Zenon, <1>19 DEF patchHostStatus
  <2>2. new \in ByoHost /\ Alike(new, host[h])
    BY Zenon, <1>2, PatchAlike, PatchTypes
  <2> HIDE DEF new
  <2>3. Step(agent[h], "idle") \in AgentState
    BY ZenonT(30), <1>2, AgentTypes DEF AgentSteps
  <2>4. PoolAgent(host[h], Step(agent[h], "idle"))
    BY <1>2 DEF Step, AgentState, PoolAgent, Fits, GivesBack
  <2> QED BY <1>17, <2>1, <2>2, <2>3, <2>4
\* The patch that gives the host back: the copy is the host, so all of it goes.
<1>20. CASE patchHostObject(h)
  <2> DEFINE new == PatchObject(host[h], agent[h].before, agent[h].after)
             next == SendStatus(agent[h])
  <2>1. PICK o \in Outcomes : PatchAgentHost(h, o, new, next)
    BY Zenon, <1>20 DEF patchHostObject
  <2>2. /\ next \in AgentState /\ next.pc \in {"idle", "patchStatus"}
        /\ next.before = agent[h].before /\ next.after = agent[h].after
    BY ZenonT(30), <1>2, AgentTypes DEF SendStatus, Step, AgentState, AgentSteps
  <2>3. /\ Failed(next).pc = next.pc /\ Failed(next).before = next.before
        /\ Failed(next).after = next.after
    BY <2>2 DEF Failed, AgentState
  <2> HIDE DEF next
  <2>4. Fits(agent[h]) /\ (agent[h].before.cleanup => Alike(host[h], agent[h].before))
    BY Zenon, <1>2, <1>20 DEF patchHostObject, PoolAgent
  <2>5. \A b : PoolAgent(b, next) /\ PoolAgent(b, Failed(next))
    BY Zenon, <2>2, <2>3, <2>4 DEF PoolAgent, Fits, GivesBack
  <2>6. ASSUME Alike(agent[h].after, agent[h].before) PROVE Alike(new, host[h])
    BY Zenon, <1>2, <2>6, PatchAlike
  <2>7. ASSUME GivesBack(agent[h])
        PROVE  /\ host[h].cleanup /\ new.attached = None /\ ~new.cleanup
               /\ new.installationSecret = None
    <3>1. Alike(host[h], agent[h].before) /\ host[h].cleanup /\ host[h].attached \in Machines
      BY ZenonT(30), <2>4, <2>7 DEF GivesBack, Alike, PoolInv, HostRules, Leaving
    <3>2. new.attached = None
      <4>1. /\ agent[h].after.attached = None /\ agent[h].before.attached # None
            /\ host[h].attached = agent[h].before.attached
        BY <2>7, <3>1, ByohAssumption DEF GivesBack, Alike
      <4> QED BY SMTT(30), <1>2, <4>1, PatchAlike
    <3>3. ~new.cleanup
      <4>1. agent[h].after.cleanup # agent[h].before.cleanup
        BY Zenon, <1>2, <2>7 DEF GivesBack, ByoHost
      <4>2. new.cleanup = agent[h].after.cleanup
        BY SMTT(30), <1>2, <4>1, PatchAlike
      <4> QED BY <2>7, <4>2 DEF GivesBack
    <3>4. new.installationSecret = None
      <4>1. /\ agent[h].after.installationSecret = None
            /\ host[h].installationSecret = agent[h].before.installationSecret
        BY <2>7, <3>1 DEF GivesBack, Alike
      <4> QED BY SMTT(30), <1>2, <4>1, PatchAlike
    <3> QED BY Zenon, <3>1, <3>2, <3>3, <3>4
  <2> HIDE DEF new
  <2> QED BY Zenon, <1>6, <2>1, <2>2, <2>4, <2>5, <2>6, <2>7 DEF Fits
<1> QED BY <1>1, <1>7, <1>8, <1>10, <1>11, <1>12, <1>14, <1>15, <1>16, <1>18, <1>19, <1>20
        DEF AgentStep

(***************************************************************************)
(* The system                                                              *)
(***************************************************************************)
\* The host controller only clears the reference to the uninstallation secret.
LEMMA HrPool == ASSUME TypeOK, HrNext  PROVE Untouched
<1>1. CASE UNCHANGED host
  BY <1>1 DEF Untouched, Alike
<1>2. CASE clearUninstallReference
  <2> DEFINE after == [hr.before EXCEPT !.uninstallationSecret = None]
             new == PatchObject(host[hr.h], hr.before, after)
  <2>1. PICK o \in Outcomes : WriteHost(hr.h, new, o, "managerApi")
    BY <1>2 DEF clearUninstallReference
  <2>2. hr.before \in ByoHost /\ after \in ByoHost /\ Alike(after, hr.before)
    BY DEF TypeOK, HrState, ByoHost, Owner, Alike
  <2> HIDE DEF after
  <2>3. hr.h \in Hosts => Alike(new, host[hr.h])
    BY <2>2, PatchAlike DEF TypeOK, ApiTypeOK
  <2> HIDE DEF new
  <2>4. \A g \in Hosts : host'[g] = host[g] \/ (g = hr.h /\ host'[g] = new)
    BY <2>1 DEF WriteHost, TypeOK, ApiTypeOK
  <2> QED BY <2>3, <2>4 DEF Untouched, Alike
<1> QED BY <1>1, <1>2 DEF HrNext, HrStep, HostReconcile, deleteUninstallSecret, apiVars

\* What a step does to one machine: it stays under deletion or gone, and it
\* leaves only from under deletion, with its hosts marked, or when nothing
\* holds it.
MachineStep ==
    \A m \in Machines :
        /\ mach[m].phase \in {"deleting", "gone"} => mach'[m].phase \in {"deleting", "gone"}
        /\ mach'[m].phase = "deleting" => mach'[m].finalizer
        /\ mach[m].phase = "deleting" /\ mach'[m].phase = "gone"
             => \A h \in Hosts : host[h].attached = m => host[h].cleanup

LEMMA MachinePool == ASSUME TypeOK, ReservationInv, PoolInv, [Next]_vars  PROVE MachineStep
<1>1. mach \in [Machines -> ByoMachine] /\ bm \in Scope
  BY DEF TypeOK, ApiTypeOK
<1>2. \A m \in Machines : mach[m].phase = "deleting" => mach[m].finalizer
  BY DEF PoolInv, MachineRules
<1>3. CASE UNCHANGED mach
  BY <1>2, <1>3 DEF MachineStep
\* One machine changes.
<1>4. ASSUME NEW m \in Machines, NEW new, mach' = [mach EXCEPT ![m] = new],
             mach[m].phase \in {"deleting", "gone"} => new.phase \in {"deleting", "gone"},
             new.phase = "deleting" => new.finalizer,
             mach[m].phase = "deleting" /\ new.phase = "gone"
               => \A h \in Hosts : host[h].attached = m => host[h].cleanup
      PROVE  MachineStep
  BY <1>1, <1>2, <1>4 DEF MachineStep
<1>5. ASSUME NEW m \in Machines, CreateMachine(m) PROVE MachineStep
  BY <1>1, <1>2, <1>5 DEF CreateMachine, MachineStep, ByoMachine
<1>6. ASSUME NEW m \in Machines, DeleteMachine(m) PROVE MachineStep
  BY <1>1, <1>2, <1>6 DEF DeleteMachine, MachineStep, ByoMachine
<1>7. ASSUME NEW o, NEW new, NEW next, PatchMachine(o, new, next), bm.m \in Machines,
             new.phase \in {mach[bm.m].phase, "gone"},
             new.phase = "deleting" => new.finalizer,
             mach[bm.m].phase = "deleting" /\ new.phase = "gone"
               => \A h \in Hosts : host[h].attached = bm.m => host[h].cleanup
      PROVE  MachineStep
  <2>1. UNCHANGED mach \/ mach' = [mach EXCEPT ![bm.m] = new]
    BY <1>7 DEF PatchMachine
  <2> QED BY <1>3, <1>4, <1>7, <2>1
<1>8. ASSUME bm.pc # "idle" PROVE bm.m \in Machines
  BY Zenon, <1>8 DEF ReservationInv, GoodScope
<1>9. CASE patchMachineConditions
  <2> DEFINE new == [mach[bm.m] EXCEPT !.reason = bm.after.reason]
  <2>1. PICK o : PatchMachine(o, new, AfterConditions(bm))
    BY <1>9 DEF patchMachineConditions
  <2>2. bm.m \in Machines
    BY <1>8, <1>9 DEF patchMachineConditions
  <2>3. new.phase = mach[bm.m].phase /\ (new.phase = "deleting" => new.finalizer)
    BY <1>1, <1>2, <2>2 DEF ByoMachine
  <2> HIDE DEF new
  <2> QED BY <1>7, <2>1, <2>2, <2>3
<1>10. CASE patchMachineStatus
  <2> DEFINE new == [mach[bm.m] EXCEPT
                       !.hostInfo = Merge(@, bm.mach.hostInfo, bm.after.hostInfo),
                       !.ready = Merge(@, bm.mach.ready, bm.after.ready)]
  <2>1. PICK o : PatchMachine(o, new, Idle)
    BY <1>10 DEF patchMachineStatus
  <2>2. bm.m \in Machines
    BY <1>8, <1>10 DEF patchMachineStatus
  <2>3. new.phase = mach[bm.m].phase /\ (new.phase = "deleting" => new.finalizer)
    BY <1>1, <1>2, <2>2 DEF ByoMachine
  <2> HIDE DEF new
  <2> QED BY <1>7, <2>1, <2>2, <2>3
<1>11. CASE patchMachineObject
  <2> DEFINE finalizer == Merge(mach[bm.m].finalizer, bm.mach.finalizer, bm.after.finalizer)
             new == [mach[bm.m] EXCEPT
                       !.finalizer = finalizer,
                       !.providerID = Merge(@, bm.mach.providerID, bm.after.providerID),
                       !.phase = IF @ = "deleting" /\ ~finalizer THEN "gone" ELSE @]
  <2>1. PICK o : PatchMachine(o, new, AfterObject(bm))
    BY <1>11 DEF patchMachineObject
  <2>2. bm.m \in Machines
    BY <1>8, <1>11 DEF patchMachineObject
  <2>3. finalizer \in BOOLEAN
    BY Zenon, <1>1, <2>2 DEF Merge, ByoMachine, Scope
  <2>4. ASSUME mach[bm.m].phase = "deleting", ~finalizer
        PROVE  \A h \in Hosts : host[h].attached = bm.m => host[h].cleanup
    <3>1. bm.mach.finalizer # bm.after.finalizer /\ ~bm.after.finalizer
      BY <1>2, <2>2, <2>4 DEF Merge
    <3>2. bm.mach.finalizer
      BY <1>1, <3>1 DEF Scope, ByoMachine
    <3> QED BY <3>1, <3>2 DEF PoolInv, Unfinalized
  <2> HIDE DEF finalizer
  <2>5. /\ new.finalizer = finalizer
        /\ new.phase = IF mach[bm.m].phase = "deleting" /\ ~finalizer THEN "gone"
                       ELSE mach[bm.m].phase
    BY <1>1, <2>2 DEF ByoMachine
  <2> HIDE DEF new
  <2>6. new.phase = "deleting" => new.finalizer
    BY <2>5
  <2>7. mach[bm.m].phase = "deleting" /\ new.phase = "gone" => ~finalizer
    BY <2>5
  <2> QED BY <1>7, <2>1, <2>2, <2>4, <2>5, <2>6, <2>7
<1>12. CASE BmNext /\ ~(patchMachineConditions \/ patchMachineObject \/ patchMachineStatus)
  BY ZenonT(30), <1>3, <1>12
     DEF BmNext, BmStep, Reconcile, apiVars, setPausedConditionForByoHost,
         unsetPausedConditionForByoHost, markHostForCleanup, createInstallerConfig,
         attachByoHost, attachByoHostStatus, setInstallationSecretForByoHost,
         setUninstallationSecretForByoHost, updateNodeProviderID, PatchHost
<1>13. CASE HrNext \/ IcNext \/ UNCHANGED vars \/ ManagerCrash
  BY <1>3, <1>13
     DEF HrNext, HrStep, HostReconcile, deleteUninstallSecret, clearUninstallReference,
         IcNext, IcStep, ConfigReconcile, storeInstallSecret, storeUninstallSecret,
         patchConfig, deleteConfig, ManagerCrash, vars, apiVars
<1>14. CASE AgentNext
  <2>1. PICK h \in Hosts : AgentStep(h) \/ AgentCrash(h)
    BY <1>14 DEF AgentNext
  <2>2. \A a, n : OnHost(h, a, n) => UNCHANGED mach
    BY DEF OnHost
  <2>3. \A o, new, next : PatchAgentHost(h, o, new, next) => UNCHANGED mach
    BY Zenon DEF PatchAgentHost
  <2>4. CASE AgentReconcile(h) \/ AgentCrash(h)
    BY <1>3, <2>4 DEF AgentReconcile, AgentCrash
  <2>5. CASE getBootstrapScript(h) \/ executeInstallerController(h) \/ bootstrapK8sNode(h)
    BY Zenon, <1>3, <2>2, <2>5 DEF getBootstrapScript, executeInstallerController, bootstrapK8sNode
  <2>6. CASE resetNode(h) \/ executeUninstallScript(h) \/ removeAnnotations(h)
    BY Zenon, <1>3, <2>2, <2>6 DEF resetNode, executeUninstallScript, removeAnnotations
  <2>7. CASE patchHostConditions(h) \/ patchHostObject(h) \/ patchHostStatus(h)
    BY Zenon, <1>3, <2>3, <2>7 DEF patchHostConditions, patchHostObject, patchHostStatus
  <2> QED BY <2>1, <2>4, <2>5, <2>6, <2>7 DEF AgentStep
<1>15. CASE Environment
  BY <1>3, <1>5, <1>6, <1>15
     DEF Environment, Refresh, RefreshHost, RefreshMachine, PauseCluster,
         UnpauseCluster, InfrastructureReady, DataSecretReady, CollectConfig
<1> QED BY <1>9, <1>10, <1>11, <1>12, <1>13, <1>14, <1>15 DEF Next

\* The manager's cache only moves to what the API server holds.
LEMMA CachePool ==
    ASSUME TypeOK, MachineStep, MachineRules, [Next]_vars
    PROVE  MachineRules' /\ Forward
<1>1. \A m \in Machines : machCache'[m] \in {machCache[m], mach[m]}
  <2>1. CASE UNCHANGED machCache
    BY <2>1
  <2>2. ASSUME NEW m \in Machines, RefreshMachine(m)
        PROVE  \A n \in Machines : machCache'[n] \in {machCache[n], mach[n]}
    BY <2>2 DEF RefreshMachine, TypeOK, ApiTypeOK
  <2>3. CASE ManagerCrash
    BY <2>3 DEF ManagerCrash
  <2>4. CASE Environment
    BY Zenon, <2>1, <2>2, <2>4
       DEF Environment, Refresh, RefreshHost, PauseCluster, UnpauseCluster,
           InfrastructureReady, CreateMachine, DataSecretReady, DeleteMachine, CollectConfig
  <2>5. CASE BmNext
    BY Zenon, <2>1, <2>5
       DEF BmNext, BmStep, Reconcile, apiVars, setPausedConditionForByoHost,
           unsetPausedConditionForByoHost, markHostForCleanup, createInstallerConfig,
           attachByoHost, attachByoHostStatus, setInstallationSecretForByoHost,
           setUninstallationSecretForByoHost, updateNodeProviderID, PatchHost,
           patchMachineConditions, patchMachineObject, patchMachineStatus, PatchMachine
  <2>6. CASE HrNext \/ IcNext \/ UNCHANGED vars
    BY Zenon, <2>1, <2>6
       DEF HrNext, HrStep, HostReconcile, deleteUninstallSecret, clearUninstallReference,
           IcNext, IcStep, ConfigReconcile, storeInstallSecret, storeUninstallSecret,
           patchConfig, deleteConfig, vars, apiVars
  <2>7. CASE AgentNext
    <3>1. PICK h \in Hosts : AgentStep(h) \/ AgentCrash(h)
      BY <2>7 DEF AgentNext
    <3>2. \A a, n : OnHost(h, a, n) => UNCHANGED machCache
      BY DEF OnHost
    <3>3. \A o, new, next : PatchAgentHost(h, o, new, next) => UNCHANGED machCache
      BY Zenon DEF PatchAgentHost
    <3>4. CASE AgentReconcile(h) \/ AgentCrash(h)
      BY Zenon, <2>1, <3>4 DEF AgentReconcile, AgentCrash
    <3>5. CASE getBootstrapScript(h) \/ executeInstallerController(h) \/ bootstrapK8sNode(h)
      BY Zenon, <2>1, <3>2, <3>5 DEF getBootstrapScript, executeInstallerController, bootstrapK8sNode
    <3>6. CASE resetNode(h) \/ executeUninstallScript(h) \/ removeAnnotations(h)
      BY Zenon, <2>1, <3>2, <3>6 DEF resetNode, executeUninstallScript, removeAnnotations
    <3>7. CASE patchHostConditions(h) \/ patchHostObject(h) \/ patchHostStatus(h)
      BY Zenon, <2>1, <3>3, <3>7 DEF patchHostConditions, patchHostObject, patchHostStatus
    <3> QED BY Zenon, <3>1, <3>4, <3>5, <3>6, <3>7 DEF AgentStep
  <2> QED BY <2>3, <2>4, <2>5, <2>6, <2>7 DEF Next
<1>2. MachineRules'
  BY <1>1 DEF MachineRules, MachineStep
<1>3. Forward
  BY <1>1 DEF Forward, Leaving, MachView, MachineStep, MachineRules
<1> QED BY Zenon, <1>2, <1>3

\* What a step of the system does to the reservations.
LEMMA SystemPool ==
    ASSUME "ByoHost" \notin Stale, TypeOK, TypeOK', ReservationInv, PoolInv, [Next]_vars
    PROVE  PoolInv' /\ (ManagerEffect \/ AgentEffect) /\ MachineStep
<1>1. MachineStep /\ MachineRules' /\ Forward
  BY Zenon, MachinePool, CachePool DEF PoolInv
<1>2. /\ HostRules /\ PoolGood(host, bm) /\ (bm.pc # "idle" => bm.m \in Machines)
      /\ \A h \in Hosts : PoolAgent(host[h], agent[h])
  BY ZenonT(30) DEF PoolInv, PoolGood, ReservationInv, GoodScope
<1>3. ASSUME ManagerEffect \/ AgentEffect, PoolGood(host', bm'),
             \A h \in Hosts : PoolAgent(host'[h], agent'[h])
      PROVE  PoolInv' /\ (ManagerEffect \/ AgentEffect) /\ MachineStep
  <2>1. HostRules' /\ OwnInstallationSecret'
    BY Zenon, <1>1, <1>3, EffectRules DEF PoolInv
  <2>2. PoolScope(host', bm') /\ Unfinalized(host', bm') /\ (bm'.pc = "mark" => bm'.m \in Leaving')
    BY <1>1, <1>3 DEF PoolGood, Forward
  <2> QED BY Zenon, <1>1, <1>3, <2>1, <2>2 DEF PoolInv
<1>4. ASSUME Untouched PROVE ManagerEffect /\ AgentEffect
  BY Zenon, <1>4 DEF ManagerEffect, AgentEffect
<1>5. ASSUME AgentEffect, UNCHANGED bm PROVE PoolGood(host', bm')
  BY Zenon, <1>2, <1>5, EffectScope DEF PoolGood
<1>6. ASSUME ManagerEffect, UNCHANGED agent PROVE \A h \in Hosts : PoolAgent(host'[h], agent'[h])
  BY <1>2, <1>6, EffectAgents
<1>7. CASE BmNext /\ UNCHANGED <<hr, ic, agent>>
  BY <1>3, <1>6, <1>7, BmPool
<1>8. CASE AgentNext /\ UNCHANGED <<bm, hr, ic>>
  BY <1>3, <1>5, <1>8, AgentPool
<1>9. CASE HrNext /\ UNCHANGED <<bm, ic, agent>>
  BY <1>3, <1>4, <1>5, <1>6, <1>9, HrPool
<1>10. ASSUME UNCHANGED host PROVE Untouched
  BY Zenon, <1>10 DEF Untouched, Alike
<1>11. CASE IcNext /\ UNCHANGED <<bm, hr, agent>>
  <2>1. UNCHANGED host
    BY <1>11 DEF IcNext, IcStep, ConfigReconcile, storeInstallSecret, storeUninstallSecret,
                 patchConfig, deleteConfig, apiVars
  <2> QED BY <1>3, <1>4, <1>5, <1>6, <1>10, <1>11, <2>1
<1>12. CASE Environment /\ UNCHANGED <<bm, hr, ic, agent>>
  <2>1. UNCHANGED host
    BY <1>12 DEF Environment, Refresh, RefreshHost, RefreshMachine, PauseCluster,
                 UnpauseCluster, InfrastructureReady, CreateMachine, DataSecretReady,
                 DeleteMachine, CollectConfig
  <2> QED BY <1>3, <1>4, <1>5, <1>6, <1>10, <1>12, <2>1
<1>13. CASE ManagerCrash
  <2>1. UNCHANGED <<host, agent>> /\ bm' = Idle
    BY Zenon, <1>13 DEF ManagerCrash
  <2>2. PoolGood(host', bm')
    BY Zenon, <2>1 DEF PoolGood, PoolScope, Unfinalized, Idle, NewMachine
  <2> QED BY <1>3, <1>4, <1>6, <1>10, <2>1, <2>2
<1>14. CASE UNCHANGED vars
  BY <1>3, <1>4, <1>5, <1>6, <1>10, <1>14 DEF vars, apiVars
<1> QED BY Zenon, <1>7, <1>8, <1>9, <1>11, <1>12, <1>13, <1>14 DEF Next

(***************************************************************************)
(* The theorems                                                            *)
(***************************************************************************)
\* The invariant holds in every behaviour.
THEOREM PoolInvariant == ASSUME "ByoHost" \notin Stale  PROVE Spec => []PoolInv
<1>1. Init => PoolInv
  <2> SUFFICES ASSUME Init PROVE PoolInv
    OBVIOUS
  <2>1. \A h \in Hosts : host[h] = NewHost /\ agent[h] = AgentIdle
    BY Zenon DEF Init, ApiInit
  <2>2. /\ NewHost.attached = None /\ NewHost.cleanup = FALSE
        /\ NewHost.installationSecret = None
    BY DEF NewHost
  <2>3. \A h \in Hosts : /\ host[h].attached = None /\ host[h].cleanup = FALSE
                         /\ host[h].installationSecret = None
    BY Zenon, <2>1, <2>2
  <2>4. HostRules /\ OwnInstallationSecret
    BY <2>3 DEF HostRules, OwnInstallationSecret
  <2>5. MachineRules
    BY Zenon DEF Init, ApiInit, NewMachine, MachineRules
  <2>6. PoolScope(host, bm) /\ Unfinalized(host, bm) /\ bm.pc = "idle"
    BY Zenon DEF Init, Idle, NewMachine, PoolScope, Unfinalized
  <2>7. \A h \in Hosts : PoolAgent(host[h], AgentIdle)
    BY Zenon DEF AgentIdle, NewHost, PoolAgent, Fits, Alike
  <2> QED BY <2>1, <2>4, <2>5, <2>6, <2>7 DEF PoolInv
<1>2. TypeOK /\ TypeOK' /\ ReservationInv /\ PoolInv /\ [Next]_vars => PoolInv'
  BY SystemPool
<1> QED BY <1>1, <1>2, TypeCorrect, ReservationInvariant, PTL DEF Spec

\* A host only ever refers to the installation secret of the ByoMachine it is
\* attached to, where the manager does not read its hosts from a lagging cache.
THEOREM OwnSecret == ASSUME "ByoHost" \notin Stale  PROVE Spec => []OwnInstallationSecret
<1>1. PoolInv => OwnInstallationSecret
  BY DEF PoolInv
<1> QED BY <1>1, PoolInvariant, PTL

\* A ByoMachine under deletion leaves only after every host attached to it is
\* marked for cleanup.
THEOREM MarkedBeforeGone == ASSUME "ByoHost" \notin Stale  PROVE Spec => ReleasedBeforeGone
<1>1. TypeOK /\ TypeOK' /\ ReservationInv /\ PoolInv /\ [Next]_vars
        => [\A m \in Machines : mach[m].phase = "deleting" /\ mach'[m].phase = "gone"
              => \A h \in Hosts : host[h].attached = m => host[h].cleanup]_vars
  BY SystemPool DEF MachineStep
<1> QED BY <1>1, TypeCorrect, ReservationInvariant, PoolInvariant, PTL
        DEF Spec, ReleasedBeforeGone

\* The pool of hosts behaves as HostPool: a claim is a Reserve, a mark a
\* Release, the patch of a cleaned up host a Return; nothing else is seen.
THEOREM PoolRefined == ASSUME "ByoHost" \notin Stale  PROVE Spec => ImplementsHostPool
<1> DEFINE hosts == [h \in Hosts |-> [owner |-> host[h].attached, releasing |-> host[h].cleanup]]
<1>1. Init => Pool!Init
  <2> SUFFICES ASSUME Init PROVE Pool!Init
    OBVIOUS
  <2>1. NewHost.attached = None /\ NewHost.cleanup = FALSE
    BY DEF NewHost
  <2>2. \A h \in Hosts : host[h].attached = None /\ host[h].cleanup = FALSE
    BY Zenon, <2>1 DEF Init, ApiInit
  <2> QED BY Zenon, <2>2 DEF Pool!Init, Pool!Free
<1>2. ASSUME TypeOK, TypeOK', ReservationInv, PoolInv, [Next]_vars
      PROVE  [Pool!Next]_hosts
  <2>1. ManagerEffect \/ AgentEffect
    BY <1>2, SystemPool
  <2>2. /\ HostRules
        /\ \A h \in Hosts : host[h].cleanup \in BOOLEAN /\ host'[h].cleanup \in BOOLEAN
    BY Zenon, <1>2 DEF PoolInv, TypeOK, ApiTypeOK, ByoHost
  <2>3. CASE Untouched
    BY <2>3 DEF Untouched, Alike
  \* One host changes.
  <2>4. ASSUME NEW h \in Hosts, Others(h),
               NEW o, NEW r, host'[h].attached = o, host'[h].cleanup = r
        PROVE  hosts' = [hosts EXCEPT ![h] = [owner |-> o, releasing |-> r]]
    BY Zenon, <2>4 DEF Others, Alike
  <2>5. ASSUME NEW h \in Hosts, NEW m \in Machines, Claims(h, m) PROVE Pool!Reserve(h, m)
    <3>1. hosts' = [hosts EXCEPT ![h] = [owner |-> m, releasing |-> FALSE]]
      BY Zenon, <2>2, <2>4, <2>5 DEF Claims
    <3>2. host[h].cleanup = FALSE
      BY <2>2, <2>5, ByohAssumption DEF Claims, HostRules, Leaving
    <3>3. hosts[h] = Pool!Free /\ \A g \in Hosts : hosts[g].owner # m
      BY Zenon, <2>5, <3>2 DEF Claims, Pool!Free
    <3> QED BY <3>1, <3>3 DEF Pool!Reserve
  <2>6. ASSUME NEW h \in Hosts, Marks(h) PROVE Pool!Release(h)
    <3>0. host'[h].cleanup = TRUE
      BY <2>2, <2>6 DEF Marks
    <3>1. hosts' = [hosts EXCEPT ![h] = [owner |-> hosts[h].owner, releasing |-> TRUE]]
      BY ZenonT(30), <2>4, <2>6, <3>0 DEF Marks
    <3>2. hosts[h].owner # None /\ ~hosts[h].releasing
      BY <2>6, ByohAssumption DEF Marks, Leaving
    <3> QED BY Zenon, <3>1, <3>2 DEF Pool!Release
  <2>7. ASSUME NEW h \in Hosts, Installs(h) PROVE UNCHANGED hosts
    BY Zenon, <2>2, <2>7 DEF Installs, Others, Alike
  <2>8. ASSUME NEW h \in Hosts, Returns(h) PROVE Pool!Return(h)
    <3>1. hosts' = [hosts EXCEPT ![h] = Pool!Free]
      BY Zenon, <2>2, <2>4, <2>8 DEF Returns, Pool!Free
    <3>2. hosts[h].releasing
      BY <2>8 DEF Returns
    <3> QED BY <3>1, <3>2 DEF Pool!Return
  <2> QED BY Zenon, <2>1, <2>3, <2>5, <2>6, <2>7, <2>8 DEF ManagerEffect, AgentEffect, Pool!Next
<1> QED BY <1>1, <1>2, TypeCorrect, ReservationInvariant, PoolInvariant, PTL
        DEF Spec, ImplementsHostPool, Pool!Spec

============================================================================
