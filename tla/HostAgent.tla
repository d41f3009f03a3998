----------------------------- MODULE HostAgent -----------------------------
(***************************************************************************)
(* HostReconciler, the controller that runs in the agent on every host: it *)
(* installs the components, bootstraps the node, and cleans the host up    *)
(* when it is released. The agent reads the API server directly and has    *)
(* one worker; its reconcile reads the ByoHost once, works on the host, and *)
(* patches the ByoHost when it returns.                                    *)
(***************************************************************************)
EXTENDS ByohApi

VARIABLE agent   \* the reconcile in progress on every host

\* The ByoHost as read (before) and as changed in memory (after); failed: the
\* reconcile has an error to return.
AgentSteps == {"idle", "fetch", "install", "boot", "reset", "uninstall", "release",
               "patchConditions", "patchObject", "patchStatus"}

AgentState == [pc : AgentSteps, before : ByoHost, after : ByoHost, failed : BOOLEAN]

AgentIdle == [pc |-> "idle", before |-> NewHost, after |-> NewHost, failed |-> FALSE]

(***************************************************************************)
(* The deferred patch: a part that did not change is not sent. An error of *)
(* the reconcile or of a request requeues the host, paused or not.         *)
(***************************************************************************)
Conditions(b) == <<b.installed, b.bootstrapped>>

Object(b) == <<b.attached, b.cluster, b.bootstrapSecret, b.installationSecret,
               b.uninstallationSecret, b.cleanup, b.paused>>

Step(a, pc) == [a EXCEPT !.pc = pc]

SendStatus(a) ==
    IF a.after.machineRef # a.before.machineRef THEN Step(a, "patchStatus")
    ELSE Step(a, "idle")

SendObject(a) ==
    IF Object(a.after) # Object(a.before) THEN Step(a, "patchObject") ELSE SendStatus(a)

\* A wrong patch, which drops the conditions when the object changed too.
SendObjectOnly(a) ==
    CASE Object(a.after) # Object(a.before) -> Step(a, "patchObject")
      [] Object(a.after) = Object(a.before)
         /\ Conditions(a.after) # Conditions(a.before) -> Step(a, "patchConditions")
      [] OTHER -> SendStatus(a)

Send(a) ==
    IF Conditions(a.after) # Conditions(a.before)
    THEN Step(a, "patchConditions") ELSE SendObject(a)

Failed(a) == [a EXCEPT !.failed = TRUE]

\* A wrong end of a reconcile, which swallows its error.
BecomeQuiet(h, a, ev) ==
    /\ agent' = [agent EXCEPT ![h] = IF a.pc = "idle" THEN AgentIdle ELSE a]
    /\ queued' = [queued EXCEPT ![h] = @ \/ ev]

\* The agent of h takes state a. A finished reconcile leaves the host queued
\* after an error or when an event (ev) came in.
Become(h, a, ev) ==
    /\ agent' = [agent EXCEPT ![h] = IF a.pc = "idle" THEN AgentIdle ELSE a]
    /\ queued' = [queued EXCEPT ![h] = @ \/ ev \/ (a.pc = "idle" /\ a.failed)]

\* A step on the host: the agent goes to a, the software on the host becomes n.
OnHost(h, a, n) ==
    /\ Become(h, a, FALSE)
    /\ node' = [node EXCEPT ![h] = n]
    /\ UNCHANGED <<host, mach, gate, clusterPaused, config, installSecret,
                   uninstallSecret, hostCache, machCache>>

\* A command or file operation on the host goes well, or fails.
Runs(ok) == IF ok THEN faults' = faults ELSE Fault("script")

(***************************************************************************)
(* Reconcile and reconcileNormal                                           *)
(***************************************************************************)
\* A wrong reconcileNormal, which does not look whether the node is bootstrapped.
NormalRepeating(a) ==
    IF a.before.machineRef = None \/ a.before.bootstrapSecret = None
    THEN Send([a EXCEPT !.after.bootstrapped = FALSE]) ELSE Step(a, "fetch")

\* The early returns of reconcileNormal before the bootstrap script is read.
Normal(a) ==
    CASE a.before.machineRef = None \/ a.before.bootstrapSecret = None ->
           Send([a EXCEPT !.after.bootstrapped = FALSE])
      [] a.before.machineRef # None /\ a.before.bootstrapSecret # None
         /\ a.before.bootstrapped -> Send(a)
      [] OTHER -> Step(a, "fetch")

AgentReconcile(h) ==
    /\ agent[h].pc = "idle"
    /\ queued[h]
    /\ LET a == [pc |-> "idle", before |-> host[h], after |-> host[h], failed |-> FALSE]
           next == IF host[h].cleanup
                   THEN Step(a, IF host[h].installed THEN "reset" ELSE "uninstall")
                   ELSE Normal(a)
       IN  agent' = [agent EXCEPT ![h] = IF next.pc = "idle" THEN AgentIdle ELSE next]
    /\ queued' = [queued EXCEPT ![h] = FALSE]
    /\ UNCHANGED <<host, mach, gate, clusterPaused, config, installSecret,
                   uninstallSecret, hostCache, machCache, faults, node>>

getBootstrapScript(h) ==
    /\ agent[h].pc = "fetch"
    /\ LET a == agent[h]
           installing == h \notin SkipInstall /\ ~a.before.installed
       IN  \E o \in {"ok", "failed"}, found \in Found(a.before.bootstrapSecret) :
             /\ Call(o, "agentApi")
             /\ OnHost(h, CASE o # "ok" \/ ~found -> Send(Failed(a))
                            [] o = "ok" /\ found /\ ~installing -> Step(a, "boot")
                            [] o = "ok" /\ found /\ installing
                               /\ a.before.installationSecret = None -> Send(a)
                            [] OTHER -> Step(a, "install"),
                       node[h])

\* The secret is read (or is not there), then the script runs; a script that
\* fails may have left the components on the host.
executeInstallerController(h) ==
    /\ agent[h].pc = "install"
    /\ LET a == agent[h]
           script == a.before.installationSecret
       IN  \/ /\ IF script \in installSecret THEN Fault("agentApi") ELSE UNCHANGED faults
              /\ OnHost(h, Send(Failed(a)), node[h])
           \/ /\ script \in installSecret
              /\ Runs(TRUE)
              /\ OnHost(h, Step([a EXCEPT !.after.installed = TRUE], "boot"),
                        [node[h] EXCEPT !.components = script])
           \/ /\ script \in installSecret
              /\ Runs(FALSE)
              /\ \E components \in {node[h].components, script} :
                   OnHost(h, Send([Failed(a) EXCEPT !.after.installed = FALSE]),
                          [node[h] EXCEPT !.components = components])

\* kubeadm is on the host: installed by the agent, or beforehand when it skips that.
HasComponents(h) == h \in SkipInstall \/ node[h].components # None

\* cleank8sdirectories and bootstrapK8sNode. The bootstrap fails without the
\* components and may fail on a host that is a node already; after a failure
\* the node is reset, and the error of the reset is ignored.
bootstrapK8sNode(h) ==
    /\ agent[h].pc = "boot"
    /\ LET a == agent[h]
           failed == Send([Failed(a) EXCEPT !.after.bootstrapped = FALSE])
       IN  \/ /\ HasComponents(h)
              /\ Runs(TRUE)
              /\ OnHost(h, Send([a EXCEPT !.after.bootstrapped = TRUE]),
                        [node[h] EXCEPT !.joined = a.before.bootstrapSecret])
           \/ /\ HasComponents(h)
              /\ Runs(node[h].joined # None)
              /\ OnHost(h, failed, [node[h] EXCEPT !.joined = None])
           \/ /\ Runs(~HasComponents(h))
              /\ OnHost(h, failed, node[h])

(***************************************************************************)
(* hostCleanUp                                                             *)
(***************************************************************************)
resetNode(h) ==
    /\ agent[h].pc = "reset"
    /\ LET a == agent[h]
       IN  \/ /\ HasComponents(h)
              /\ Runs(TRUE)
              /\ OnHost(h, Step([a EXCEPT !.after.installed = FALSE], "uninstall"),
                        [node[h] EXCEPT !.joined = None])
           \/ /\ Runs(~HasComponents(h))
              /\ \E joined \in {None, node[h].joined} :
                   OnHost(h, Send(Failed(a)), [node[h] EXCEPT !.joined = joined])

\* Independent of the reset; a reference to a secret that is gone is an error.
\* Removing the components of a node that was not reset leaves no node behind.
executeUninstallScript(h) ==
    /\ agent[h].pc = "uninstall"
    /\ LET a == agent[h]
           script == a.before.uninstallationSecret
           absent == [a EXCEPT !.after.bootstrapped = FALSE]
           skip == h \in SkipInstall \/ script = None
       IN  \/ /\ skip
              /\ UNCHANGED faults
              /\ OnHost(h, Step(absent, "release"), node[h])
           \/ /\ ~skip
              /\ IF script \in uninstallSecret THEN Fault("agentApi") ELSE UNCHANGED faults
              /\ OnHost(h, Send(Failed(a)), node[h])
           \/ /\ ~skip /\ script \in uninstallSecret
              /\ Runs(TRUE)
              /\ OnHost(h, Step(absent, "release"), NewNode)
           \/ /\ ~skip /\ script \in uninstallSecret
              /\ Runs(FALSE)
              /\ \E n \in {node[h], NewNode} : OnHost(h, Send(Failed(a)), n)

\* Wrong releases: one forgets the cluster label, one the installation secret.
ReleasedLabelled(b) == [b EXCEPT !.attached = None, !.bootstrapSecret = None,
                                 !.installationSecret = None, !.machineRef = None,
                                 !.cleanup = FALSE]

ReleasedWithSecret(b) == [b EXCEPT !.attached = None, !.cluster = FALSE,
                                   !.bootstrapSecret = None, !.machineRef = None,
                                   !.cleanup = FALSE]

Released(b) == [b EXCEPT !.attached = None, !.cluster = FALSE,
                         !.bootstrapSecret = None, !.installationSecret = None,
                         !.machineRef = None, !.cleanup = FALSE]

\* removeSentinelFile and deleteEndpointIP, then removeAnnotations.
removeAnnotations(h) ==
    /\ agent[h].pc = "release"
    /\ \E ok \in BOOLEAN :
         /\ Runs(ok)
         /\ OnHost(h, IF ok THEN Send([agent[h] EXCEPT !.after = Released(@)])
                      ELSE Send(Failed(agent[h])),
                   node[h])

(***************************************************************************)
(* The requests of the deferred patch.                                     *)
(***************************************************************************)
PatchAgentHost(h, o, new, next) ==
    LET a == IF o = "ok" THEN next ELSE Failed(next)
    IN  /\ Call(o, "agentApi")
        /\ host' = IF o = "failed" THEN host ELSE [host EXCEPT ![h] = new]
        /\ Become(h, a, host'[h] # host[h] /\ ~host'[h].paused)
        /\ UNCHANGED <<mach, gate, clusterPaused, config, installSecret,
                       uninstallSecret, hostCache, machCache, node>>

patchHostConditions(h) ==
    /\ agent[h].pc = "patchConditions"
    /\ \E o \in Outcomes :
         PatchAgentHost(h, o, PatchConditions(host[h], agent[h].before, agent[h].after),
                        SendObject(agent[h]))

patchHostObject(h) ==
    /\ agent[h].pc = "patchObject"
    /\ \E o \in Outcomes :
         PatchAgentHost(h, o, PatchObject(host[h], agent[h].before, agent[h].after),
                        SendStatus(agent[h]))

patchHostStatus(h) ==
    /\ agent[h].pc = "patchStatus"
    /\ \E o \in Outcomes :
         PatchAgentHost(h, o, PatchStatus(host[h], agent[h].before, agent[h].after),
                        Step(agent[h], "idle"))

\* The process stops wherever it is; after the restart the initial list queues
\* the host unless it is paused.
AgentCrash(h) ==
    /\ Fault("agentCrash")
    /\ agent' = [agent EXCEPT ![h] = AgentIdle]
    /\ queued' = [queued EXCEPT ![h] = ~host[h].paused]
    /\ UNCHANGED <<host, mach, gate, clusterPaused, config, installSecret,
                   uninstallSecret, hostCache, machCache, node>>

AgentStep(h) ==
    \/ AgentReconcile(h)
    \/ getBootstrapScript(h)
    \/ executeInstallerController(h)
    \/ bootstrapK8sNode(h)
    \/ resetNode(h)
    \/ executeUninstallScript(h)
    \/ removeAnnotations(h)
    \/ patchHostConditions(h)
    \/ patchHostObject(h)
    \/ patchHostStatus(h)

AgentNext == \E h \in Hosts : AgentStep(h) \/ AgentCrash(h)

============================================================================
