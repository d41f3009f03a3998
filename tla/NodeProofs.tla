----------------------------- MODULE NodeProofs -----------------------------
(***************************************************************************)
(* What a host reports about itself is true: a host that says its          *)
(* bootstrap succeeded, and is not being cleaned up, is a node made from    *)
(* the bootstrap data of the ByoMachine that has it. For any number of     *)
(* hosts, machines and faults, where the manager reads the ByoHosts it     *)
(* writes and no request of an agent fails. The second is needed: the      *)
(* agent sends the conditions first and the labels next, and goes on when  *)
(* the first request fails, so a host can be given back and claimed again   *)
(* while it still reports its last bootstrap.                              *)
(***************************************************************************)
EXTENDS PoolProofs, BootstrapProofs

(***************************************************************************)
(* The inductive invariant                                                 *)
(***************************************************************************)
\* The part of NodeServesOwner about one host; a free host reports nothing.
Truthful(b, n) == /\ b.bootstrapped /\ ~b.cleanup => n.joined = b.attached
                  /\ b.bootstrapped => b.attached # None

\* The agent is about to give its host back.
Returning(a) == a.before.cleanup /\ ~a.after.cleanup

\* Until the agent has sent the conditions, they are those it read.
Unsent(b, a) == b.bootstrapped <=> a.before.bootstrapped

\* A success to report is that of the node on the host, and a host is given
\* back without one.
Reports(b, n, a) ==
    /\ a.after.bootstrapped /\ ~a.before.bootstrapped => /\ b.attached # None
                                                         /\ n.joined = b.attached
    /\ Returning(a) => ~a.after.bootstrapped

\* What the agent knows at each step: while it bootstraps, the host keeps the
\* owner whose bootstrap data it read.
Serves(b, n, a) ==
    /\ a.pc \in {"fetch", "install", "boot"} =>
         /\ ~a.before.bootstrapped
         /\ a.before.bootstrapSecret = b.attached /\ b.attached # None
    /\ a.pc \in {"fetch", "install", "boot", "reset", "uninstall"} =>
         (a.after.bootstrapped => a.before.bootstrapped)
    /\ a.pc = "release" => ~a.after.bootstrapped
    /\ a.pc \in {"fetch", "install", "boot", "reset", "uninstall", "release"} =>
         ~Returning(a) /\ Unsent(b, a)
    /\ a.pc = "patchConditions" => Unsent(b, a) /\ Reports(b, n, a)
    /\ a.pc = "patchObject" /\ Returning(a) => ~b.bootstrapped

NodeInv == \A h \in Hosts : Truthful(host[h], node[h]) /\ Serves(host[h], node[h], agent[h])

\* A reconcile that returns keeps what the steps of its patch need.
LEMMA SendServes ==
    ASSUME NEW b \in ByoHost, NEW n, NEW a \in AgentState, Unsent(b, a), Reports(b, n, a)
    PROVE  Serves(b, n, Send(a))
<1>1. \A pc \in AgentSteps : /\ Step(a, pc).pc = pc
                            /\ Step(a, pc).before = a.before /\ Step(a, pc).after = a.after
  BY DEF Step, AgentState
<1>2. a.before \in ByoHost /\ a.after \in ByoHost
  BY DEF AgentState
<1>3. Serves(b, n, Step(a, "patchConditions"))
  BY <1>1 DEF AgentSteps, Serves, Unsent, Reports, Returning
<1>4. Serves(b, n, Step(a, "idle")) /\ Serves(b, n, Step(a, "patchStatus"))
  BY <1>1 DEF AgentSteps, Serves
<1>5. ASSUME Conditions(a.after) = Conditions(a.before)
      PROVE  Serves(b, n, Step(a, "patchObject"))
  <2>1. a.after.bootstrapped = a.before.bootstrapped
    BY <1>5 DEF Conditions
  <2>2. Returning(a) => ~b.bootstrapped
    BY <2>1 DEF Unsent, Reports
  <2> QED BY <1>1, <2>2 DEF AgentSteps, Serves, Returning
<1> QED BY <1>3, <1>4, <1>5 DEF Send, SendObject, SendStatus

\* The manager takes no host from its owner and reports nothing, so whatever
\* it does, an agent still knows what it knew.
LEMMA ManagerServes ==
    ASSUME TypeOK, TypeOK', NodeInv, ManagerWrite, UNCHANGED <<agent, node>>,
           ManagerEffect \/ AgentEffect
    PROVE  NodeInv'
<1> SUFFICES ASSUME NEW h \in Hosts
             PROVE  Truthful(host'[h], node'[h]) /\ Serves(host'[h], node'[h], agent'[h])
  BY DEF NodeInv
<1>1. /\ host'[h].bootstrapped = host[h].bootstrapped
      /\ host[h].cleanup => host'[h].cleanup
      /\ node'[h] = node[h] /\ agent'[h] = agent[h]
  BY DEF ManagerWrite
<1>2. host[h].attached # None => host'[h].attached = host[h].attached
  BY <1>1 DEF ManagerEffect, AgentEffect, Untouched, Claims, Marks, Installs, Returns,
              Others, Alike
<1>3. Truthful(host[h], node[h]) /\ Serves(host[h], node[h], agent[h])
  BY DEF NodeInv
<1>4. Truthful(host'[h], node'[h])
  BY <1>1, <1>2, <1>3 DEF Truthful
<1>5. Serves(host'[h], node'[h], agent'[h])
  BY <1>1, <1>2, <1>3 DEF Serves, Unsent, Reports
<1> QED BY <1>4, <1>5

\* Every step of an agent keeps the invariant.
LEMMA AgentServes ==
    ASSUME "agentApi" \notin FaultKinds, TypeOK, ReservationInv, PoolInv, NodeInv, AgentNext
    PROVE  NodeInv'
<1>1. PICK h \in Hosts : AgentStep(h) \/ AgentCrash(h)
  BY DEF AgentNext
<1>2. /\ agent[h] \in AgentState /\ host[h] \in ByoHost
      /\ agent[h].before \in ByoHost /\ agent[h].after \in ByoHost
  BY DEF TypeOK, ApiTypeOK, AgentState
<1>3. Truthful(host[h], node[h]) /\ Serves(host[h], node[h], agent[h])
  BY DEF NodeInv
<1>4. \A b, n : Serves(b, n, AgentIdle)
  BY DEF Serves, AgentIdle
\* The agent of one host goes to a; its host becomes b and the node n.
<1>5. ASSUME NEW a, NEW b, NEW n, Truthful(b, n), Serves(b, n, a),
             agent' = [agent EXCEPT ![h] = IF a.pc = "idle" THEN AgentIdle ELSE a],
             host' = [host EXCEPT ![h] = b], node' = [node EXCEPT ![h] = n]
      PROVE  NodeInv'
  <2> SUFFICES ASSUME NEW g \in Hosts
               PROVE  Truthful(host'[g], node'[g]) /\ Serves(host'[g], node'[g], agent'[g])
    BY DEF NodeInv
  <2>1. CASE g = h
    BY <1>4, <1>5, <2>1 DEF TypeOK, ApiTypeOK
  <2>2. CASE g # h
    BY <1>5, <2>2 DEF TypeOK, ApiTypeOK, NodeInv
  <2> QED BY <2>1, <2>2
<1>6. ASSUME NEW a, NEW n, Truthful(host[h], n), Serves(host[h], n, a), OnHost(h, a, n)
      PROVE  NodeInv'
  <2>1. /\ agent' = [agent EXCEPT ![h] = IF a.pc = "idle" THEN AgentIdle ELSE a]
        /\ node' = [node EXCEPT ![h] = n] /\ host' = host
    BY <1>6 DEF OnHost, Become
  <2>2. host' = [host EXCEPT ![h] = host[h]]
    BY <2>1 DEF TypeOK, ApiTypeOK
  <2> QED BY <1>5, <1>6, <2>1, <2>2
\* A request of an agent succeeds.
<1>7. ASSUME NEW o \in Outcomes, NEW new, NEW next, PatchAgentHost(h, o, new, next),
             Truthful(new, node[h]), Serves(new, node[h], next)
      PROVE  NodeInv'
  <2>1. o = "ok"
    BY <1>7 DEF PatchAgentHost, Call, Fault
  <2>2. /\ agent' = [agent EXCEPT ![h] = IF next.pc = "idle" THEN AgentIdle ELSE next]
        /\ host' = [host EXCEPT ![h] = new] /\ node' = node
    BY <1>7, <2>1 DEF PatchAgentHost, Become
  <2>3. node' = [node EXCEPT ![h] = node[h]]
    BY <2>2 DEF TypeOK, ApiTypeOK
  <2> QED BY <1>5, <1>7, <2>2, <2>3
\* The changes a reconcile makes to its copy before it returns.
<1>8. /\ Failed(agent[h]) \in AgentState
      /\ Failed(agent[h]).before = agent[h].before /\ Failed(agent[h]).after = agent[h].after
  BY <1>2, AgentTypes DEF Failed, AgentState
<1>9. ASSUME NEW a \in {agent[h], Failed(agent[h])}, NEW x \in BOOLEAN
      PROVE  /\ a \in AgentState /\ a.before = agent[h].before /\ a.after = agent[h].after
             /\ [a EXCEPT !.after.installed = x] \in AgentState
             /\ [a EXCEPT !.after.installed = x].before = agent[h].before
             /\ [a EXCEPT !.after.installed = x].after.bootstrapped = agent[h].after.bootstrapped
             /\ [a EXCEPT !.after.installed = x].after.cleanup = agent[h].after.cleanup
             /\ [a EXCEPT !.after.bootstrapped = x] \in AgentState
             /\ [a EXCEPT !.after.bootstrapped = x].before = agent[h].before
             /\ [a EXCEPT !.after.bootstrapped = x].after.bootstrapped = x
             /\ [a EXCEPT !.after.bootstrapped = x].after.cleanup = agent[h].after.cleanup
  <2>1. a \in AgentState /\ a.before = agent[h].before /\ a.after = agent[h].after
    BY <1>2, <1>8
  <2>2. [a EXCEPT !.after.installed = x] \in AgentState
        /\ [a EXCEPT !.after.bootstrapped = x] \in AgentState
    BY <2>1, AgentTypes
  <2> QED BY <1>2, <2>1, <2>2 DEF AgentState, ByoHost
\* A reconcile that returns without a new success.
<1>10. ASSUME agent[h].pc \in {"fetch", "install", "boot", "reset", "uninstall", "release"},
              NEW n, NEW a \in AgentState, a.before = agent[h].before,
              a.after.cleanup = agent[h].after.cleanup,
              a.after.bootstrapped => agent[h].after.bootstrapped
       PROVE  Serves(host[h], n, Send(a))
  <2>1. ~Returning(agent[h]) /\ Unsent(host[h], agent[h])
        /\ (agent[h].after.bootstrapped => agent[h].before.bootstrapped)
    BY <1>3, <1>10 DEF Serves
  <2>2. Unsent(host[h], a) /\ Reports(host[h], n, a)
    BY <1>10, <2>1 DEF Unsent, Reports, Returning
  <2> QED BY <1>2, <2>2, SendServes
\* A step that goes on with the same reconcile.
<1>11. ASSUME NEW a \in AgentState, NEW pc \in AgentSteps
       PROVE  /\ Step(a, pc).pc = pc /\ Step(a, pc).before = a.before
              /\ Step(a, pc).after = a.after
  BY DEF Step, AgentState
<1>12. CASE AgentReconcile(h)
  <2> DEFINE a == [pc |-> "idle", before |-> host[h], after |-> host[h], failed |-> FALSE]
             none == [a EXCEPT !.after.bootstrapped = FALSE]
             next == IF host[h].cleanup
                     THEN Step(a, IF host[h].installed THEN "reset" ELSE "uninstall")
                     ELSE Normal(a)
  <2>1. /\ agent' = [agent EXCEPT ![h] = IF next.pc = "idle" THEN AgentIdle ELSE next]
        /\ host' = [host EXCEPT ![h] = host[h]] /\ node' = [node EXCEPT ![h] = node[h]]
    BY <1>12 DEF AgentReconcile, TypeOK, ApiTypeOK
  <2>2. a \in AgentState /\ a.before = host[h] /\ a.after = host[h]
    BY <1>2 DEF AgentState, AgentSteps
  <2> HIDE DEF a
  <2>3. /\ none \in AgentState /\ none.before = host[h]
        /\ ~none.after.bootstrapped
    <3>1. none \in AgentState
      BY <2>2, AgentTypes
    <3>2. none.before = host[h] /\ none.after.bootstrapped = FALSE
      BY <1>2, <2>2 DEF AgentState, ByoHost
    <3> QED BY <3>1, <3>2
  <2>4. Serves(host[h], node[h], Send(a)) /\ Serves(host[h], node[h], Send(none))
    <3>1. Unsent(host[h], a) /\ Reports(host[h], node[h], a)
      BY <2>2 DEF Unsent, Reports, Returning
    <3>2. Unsent(host[h], none) /\ Reports(host[h], node[h], none)
      BY <2>3 DEF Unsent, Reports
    <3> HIDE DEF none
    <3> QED BY <1>2, <2>2, <2>3, <3>1, <3>2, SendServes
  <2>5. ASSUME a.before.bootstrapSecret # None, ~a.before.bootstrapped
        PROVE  Serves(host[h], node[h], Step(a, "fetch"))
    <3>1. host[h].bootstrapSecret = host[h].attached
      BY DEF ReservationInv, ReservationCoherent, Coherent
    <3> QED BY <1>11, <2>2, <2>5, <3>1 DEF Serves, AgentSteps, Returning, Unsent
  <2>6. Serves(host[h], node[h], Normal(a))
    BY <2>4, <2>5 DEF Normal
  <2>7. /\ Serves(host[h], node[h], Step(a, "reset"))
        /\ Serves(host[h], node[h], Step(a, "uninstall"))
    BY <1>11, <2>2 DEF Serves, AgentSteps, Returning, Unsent
  <2>8. Serves(host[h], node[h], next)
    BY <2>6, <2>7
  <2> HIDE DEF next
  <2> QED BY <1>3, <1>5, <2>1, <2>8
<1>13. CASE AgentCrash(h)
  BY <1>4, <1>13 DEF AgentCrash, TypeOK, NodeInv
<1>14. CASE getBootstrapScript(h)
  <2>1. PICK a \in {Send(Failed(agent[h])), Send(agent[h]), Step(agent[h], "boot"),
                    Step(agent[h], "install")} : OnHost(h, a, node[h])
    BY <1>14 DEF getBootstrapScript
  <2>2. agent[h].pc = "fetch"
    BY <1>14 DEF getBootstrapScript
  <2>3. /\ Serves(host[h], node[h], Send(Failed(agent[h])))
        /\ Serves(host[h], node[h], Send(agent[h]))
    BY <1>2, <1>8, <1>10, <2>2
  <2>4. /\ Serves(host[h], node[h], Step(agent[h], "boot"))
        /\ Serves(host[h], node[h], Step(agent[h], "install"))
    BY <1>2, <1>3, <1>11, <2>2 DEF Serves, AgentSteps, Returning, Unsent
  <2> QED BY <1>3, <1>6, <2>1, <2>3, <2>4
<1>15. CASE executeInstallerController(h)
  <2>1. agent[h].pc = "install"
    BY <1>15 DEF executeInstallerController
  <2>2. PICK n : \E a \in {Send(Failed(agent[h])),
                            Step([agent[h] EXCEPT !.after.installed = TRUE], "boot"),
                            Send([Failed(agent[h]) EXCEPT !.after.installed = FALSE])} :
                   OnHost(h, a, n)
    BY <1>15 DEF executeInstallerController
  <2>3. Truthful(host[h], n)
    BY <1>3, <2>1 DEF Serves, Unsent, Truthful
  <2>4. /\ Serves(host[h], n, Send(Failed(agent[h])))
        /\ Serves(host[h], n, Send([Failed(agent[h]) EXCEPT !.after.installed = FALSE]))
    BY <1>8, <1>9, <1>10, <2>1
  <2>5. Serves(host[h], n, Step([agent[h] EXCEPT !.after.installed = TRUE], "boot"))
    <3> DEFINE b == [agent[h] EXCEPT !.after.installed = TRUE]
    <3>1. /\ b \in AgentState /\ b.before = agent[h].before
          /\ b.after.bootstrapped = agent[h].after.bootstrapped
          /\ b.after.cleanup = agent[h].after.cleanup
      BY <1>9
    <3> HIDE DEF b
    <3> DEFINE c == Step(b, "boot")
    <3>2. /\ c.pc = "boot" /\ c.before = agent[h].before
          /\ c.after.bootstrapped = agent[h].after.bootstrapped
          /\ c.after.cleanup = agent[h].after.cleanup
      BY <1>11, <3>1 DEF AgentSteps
    <3> HIDE DEF c
    <3>3. Serves(host[h], n, c)
      BY <1>3, <2>1, <3>2 DEF Serves, Returning, Unsent
    <3> QED BY <3>3 DEF b, c
  <2> QED BY <1>6, <2>2, <2>3, <2>4, <2>5
\* The node joins with the bootstrap data of the owner, which still has the host.
<1>16. CASE bootstrapK8sNode(h)
  <2> DEFINE good == [agent[h] EXCEPT !.after.bootstrapped = TRUE]
             bad == [Failed(agent[h]) EXCEPT !.after.bootstrapped = FALSE]
             joined == [node[h] EXCEPT !.joined = agent[h].before.bootstrapSecret]
  <2>1. agent[h].pc = "boot"
    BY <1>16 DEF bootstrapK8sNode
  <2>2. OnHost(h, Send(good), joined) \/ \E n : OnHost(h, Send(bad), n)
    BY <1>16 DEF bootstrapK8sNode
  <2>3. \A n : Truthful(host[h], n)
    BY <1>3, <2>1 DEF Serves, Unsent, Truthful
  <2>4. \A n : Serves(host[h], n, Send(bad))
    BY <1>9, <1>10, <2>1
  <2>5. Serves(host[h], joined, Send(good))
    <3>1. /\ good \in AgentState /\ good.before = agent[h].before
          /\ good.after.cleanup = agent[h].after.cleanup
      BY <1>9
    <3>2. joined.joined = host[h].attached /\ host[h].attached # None
      <4>1. node[h] \in Node
        BY DEF TypeOK, ApiTypeOK
      <4>2. joined.joined = agent[h].before.bootstrapSecret
        BY <4>1 DEF Node
      <4> HIDE DEF joined
      <4> QED BY <1>3, <2>1, <4>2 DEF Serves
    <3> HIDE DEF good, joined
    <3>3. Unsent(host[h], good) /\ ~Returning(good)
      BY <1>3, <2>1, <3>1 DEF Serves, Unsent, Returning
    <3> QED BY <1>2, <3>1, <3>2, <3>3, SendServes DEF Reports
  <2> HIDE DEF good, bad, joined
  <2> QED BY <1>6, <2>2, <2>3, <2>4, <2>5
\* A host that is cleaned up is marked, whatever becomes of its node.
<1>17. ASSUME agent[h].pc \in {"reset", "uninstall", "release"}
       PROVE  \A n : Truthful(host[h], n)
  <2>1. host[h].cleanup
    BY <1>17 DEF PoolInv, PoolAgent, Alike
  <2> QED BY <1>3, <2>1 DEF Truthful
<1>18. CASE resetNode(h)
  <2> DEFINE reset == [agent[h] EXCEPT !.after.installed = FALSE]
  <2>1. agent[h].pc = "reset"
    BY <1>18 DEF resetNode
  <2>2. PICK n : OnHost(h, Step(reset, "uninstall"), n) \/ OnHost(h, Send(Failed(agent[h])), n)
    BY <1>18 DEF resetNode
  <2>3. Truthful(host[h], n) /\ Serves(host[h], n, Send(Failed(agent[h])))
    BY <1>8, <1>10, <1>17, <2>1
  <2>4. Serves(host[h], n, Step(reset, "uninstall"))
    <3>1. /\ reset \in AgentState /\ reset.before = agent[h].before
          /\ reset.after.bootstrapped = agent[h].after.bootstrapped
          /\ reset.after.cleanup = agent[h].after.cleanup
      BY <1>9
    <3> HIDE DEF reset
    <3> QED BY <1>3, <1>11, <2>1, <3>1 DEF Serves, AgentSteps, Returning, Unsent
  <2> HIDE DEF reset
  <2> QED BY <1>6, <2>2, <2>3, <2>4
<1>19. CASE executeUninstallScript(h)
  <2> DEFINE absent == [agent[h] EXCEPT !.after.bootstrapped = FALSE]
  <2>1. agent[h].pc = "uninstall"
    BY <1>19 DEF executeUninstallScript
  <2>2. PICK n : OnHost(h, Step(absent, "release"), n) \/ OnHost(h, Send(Failed(agent[h])), n)
    BY <1>19 DEF executeUninstallScript
  <2>3. Truthful(host[h], n) /\ Serves(host[h], n, Send(Failed(agent[h])))
    BY <1>8, <1>10, <1>17, <2>1
  <2>4. Serves(host[h], n, Step(absent, "release"))
    <3>1. /\ absent \in AgentState /\ absent.before = agent[h].before
          /\ absent.after.bootstrapped = FALSE
          /\ absent.after.cleanup = agent[h].after.cleanup
      BY <1>9
    <3> HIDE DEF absent
    <3> QED BY <1>3, <1>11, <2>1, <3>1 DEF Serves, AgentSteps, Returning, Unsent
  <2> HIDE DEF absent
  <2> QED BY <1>6, <2>2, <2>3, <2>4
\* The host is given back with the condition the uninstall left: no bootstrap.
<1>20. CASE removeAnnotations(h)
  <2> DEFINE free == [agent[h] EXCEPT !.after = Released(@)]
  <2>1. agent[h].pc = "release"
    BY <1>20 DEF removeAnnotations
  <2>2. OnHost(h, Send(free), node[h]) \/ OnHost(h, Send(Failed(agent[h])), node[h])
    BY <1>20 DEF removeAnnotations
  <2>3. Serves(host[h], node[h], Send(Failed(agent[h])))
    BY <1>8, <1>10, <2>1
  <2>4. Serves(host[h], node[h], Send(free))
    <3>1. free \in AgentState /\ free.before = agent[h].before
      BY <1>2, AgentTypes DEF AgentState
    <3>2. free.after.bootstrapped = agent[h].after.bootstrapped
      BY <1>2 DEF AgentState, ByoHost, Released
    <3> HIDE DEF free
    <3>3. Unsent(host[h], free) /\ Reports(host[h], node[h], free)
      BY <1>3, <2>1, <3>1, <3>2 DEF Serves, Unsent, Reports
    <3> QED BY <1>2, <3>1, <3>3, SendServes
  <2> HIDE DEF free
  <2> QED BY <1>3, <1>6, <2>2, <2>3, <2>4
<1>21. CASE patchHostConditions(h)
  <2> DEFINE a == agent[h]
             new == PatchConditions(host[h], a.before, a.after)
             next == SendObject(a)
  <2>1. a.pc = "patchConditions" /\ \E o \in Outcomes : PatchAgentHost(h, o, new, next)
    BY <1>21 DEF patchHostConditions
  <2>2. Unsent(host[h], a) /\ Reports(host[h], node[h], a)
    BY <1>3, <2>1 DEF Serves
  <2>3. /\ new.attached = host[h].attached /\ new.cleanup = host[h].cleanup
        /\ new.bootstrapped = Merge(host[h].bootstrapped, a.before.bootstrapped,
                                    a.after.bootstrapped)
    BY <1>2 DEF PatchConditions, ByoHost
  <2>4. new.bootstrapped <=> a.after.bootstrapped
    BY <1>2, <2>2, <2>3 DEF Unsent, Merge, ByoHost
  <2> HIDE DEF new
  <2>5. Truthful(new, node[h])
    BY <1>3, <2>2, <2>3, <2>4 DEF Truthful, Reports, Unsent
  <2>6. Serves(new, node[h], next)
    <3>1. \A pc \in AgentSteps : Step(a, pc).pc = pc /\ Returning(Step(a, pc)) = Returning(a)
      BY <1>2, <1>11 DEF Returning
    <3> HIDE DEF a
    <3>2. /\ Serves(new, node[h], Step(a, "idle"))
          /\ Serves(new, node[h], Step(a, "patchStatus"))
          /\ Serves(new, node[h], Step(a, "patchObject"))
      BY <2>2, <2>4, <3>1 DEF Serves, AgentSteps, Reports
    <3> QED BY <3>2 DEF SendObject, SendStatus
  <2> HIDE DEF next
  <2> QED BY <1>7, <2>1, <2>5, <2>6
<1>22. CASE patchHostObject(h)
  <2> DEFINE new == PatchObject(host[h], agent[h].before, agent[h].after)
             next == SendStatus(agent[h])
  <2>1. /\ agent[h].pc = "patchObject"
        /\ \E o \in Outcomes : PatchAgentHost(h, o, new, next)
    BY <1>22 DEF patchHostObject
  <2>2. new.bootstrapped = host[h].bootstrapped
    BY <1>2 DEF PatchObject, ByoHost
  <2>3. Alike(agent[h].after, agent[h].before) \/ Returning(agent[h])
    BY DEF PoolInv, PoolAgent, Fits, GivesBack, Returning
  <2>4. Alike(agent[h].after, agent[h].before) => Alike(new, host[h])
    BY <1>2, PatchAlike
  <2> HIDE DEF new
  <2>5. Truthful(new, node[h])
    BY <1>3, <2>1, <2>2, <2>3, <2>4 DEF Truthful, Serves, Alike
  <2>6. next.pc \in {"idle", "patchStatus"}
    BY <1>2, <1>11 DEF SendStatus, AgentSteps
  <2> HIDE DEF next
  <2>7. Serves(new, node[h], next)
    BY <2>6 DEF Serves
  <2> QED BY <1>7, <2>1, <2>5, <2>7
<1>23. CASE patchHostStatus(h)
  <2> DEFINE new == PatchStatus(host[h], agent[h].before, agent[h].after)
             next == Step(agent[h], "idle")
  <2>1. \E o \in Outcomes : PatchAgentHost(h, o, new, next)
    BY <1>23 DEF patchHostStatus
  <2>2. /\ new.bootstrapped = host[h].bootstrapped /\ new.attached = host[h].attached
        /\ new.cleanup = host[h].cleanup
    BY <1>2 DEF PatchStatus, ByoHost
  <2>3. next.pc = "idle"
    BY <1>2, <1>11 DEF AgentSteps
  <2> HIDE DEF new, next
  <2>4. Truthful(new, node[h]) /\ Serves(new, node[h], next)
    BY <1>3, <2>2, <2>3 DEF Truthful, Serves
  <2> QED BY <1>7, <2>1, <2>4
<1> QED BY <1>1, <1>12, <1>13, <1>14, <1>15, <1>16, <1>18, <1>19, <1>20, <1>21, <1>22, <1>23
        DEF AgentStep

(***************************************************************************)
(* The theorems                                                            *)
(***************************************************************************)
\* The invariant holds in every behaviour.
THEOREM NodeInvariant ==
    ASSUME "ByoHost" \notin Stale, "agentApi" \notin FaultKinds  PROVE Spec => []NodeInv
<1>1. Init => NodeInv
  <2> SUFFICES ASSUME Init PROVE NodeInv
    OBVIOUS
  <2>1. \A h \in Hosts : host[h] = NewHost /\ agent[h] = AgentIdle
    BY DEF Init, ApiInit
  <2>2. \A n : Truthful(NewHost, n) /\ Serves(NewHost, n, AgentIdle)
    BY DEF Truthful, Serves, NewHost, AgentIdle
  <2> QED BY <2>1, <2>2 DEF NodeInv
<1>2. TypeOK /\ TypeOK' /\ ReservationInv /\ PoolInv /\ NodeInv /\ [Next]_vars => NodeInv'
  BY StepWrites, SystemPool, ManagerServes, AgentServes
<1> QED BY <1>1, <1>2, TypeCorrect, ReservationInvariant, PoolInvariant, PTL DEF Spec

\* A host that reports a successful bootstrap and is not marked for cleanup is
\* a node made from the bootstrap data of the ByoMachine that has it.
THEOREM ServesOwner ==
    ASSUME "ByoHost" \notin Stale, "agentApi" \notin FaultKinds
    PROVE  Spec => []NodeServesOwner
<1>1. NodeInv => NodeServesOwner
  BY DEF NodeInv, Truthful, NodeServesOwner
<1> QED BY <1>1, NodeInvariant, PTL

============================================================================
