--------------------------- MODULE HostOperation ---------------------------
(***************************************************************************)
(* byohctl deauthorise and byohctl decommission (PerformHostOperation).    *)
(* Every action is one request to the management cluster, or the purge of  *)
(* the agent package. Any error ends the command and undoes nothing, and   *)
(* so does a user who interrupts it; the command may be run again.         *)
(***************************************************************************)
EXTENDS HostFleet

Continue(h, pc) == [ctl EXCEPT ![h].pc = pc]

End(h) == [ctl EXCEPT ![h] = CtlIdle]

\* Without the saved kubeconfig there is no namespace and no client.
PerformHostOperation(h, op) ==
    /\ ctl[h].pc = "idle"
    /\ disk[h].config
    /\ Quiet => agentUp[h] = "up" \/ disk[h].unit = "broken"
    /\ ctl' = [ctl EXCEPT ![h] = [CtlIdle EXCEPT !.cmd = op, !.pc = "getHost"]]
    /\ UNCHANGED <<objects, disk, agentUp, faults>>

runDeauthorise(h) == PerformHostOperation(h, "deauthorise")

runDecommission(h) == PerformHostOperation(h, "decommission")

\* A wrong PerformHostOperation, which takes the name of the host for that of
\* its Machine.
GetByoHostName(h) ==
    /\ ctl[h].pc = "getHost"
    /\ byohost[h].exists /\ byohost[h].ref # None
    /\ ctl' = [ctl EXCEPT ![h].pc = "getMachine", ![h].m = h]
    /\ UNCHANGED <<objects, disk, agentUp, faults>>

\* Without the object (or when it cannot be read) a decommission asks whether
\* to clean the host up all the same.
GetByoHostObject(h) ==
    /\ ctl[h].pc = "getHost"
    /\ \/ /\ byohost[h].exists /\ byohost[h].ref # None
          /\ ctl' = [ctl EXCEPT ![h].pc = "getMachine", ![h].m = byohost[h].ref]
          /\ faults' = faults
       \/ /\ byohost[h].exists /\ byohost[h].ref = None
          /\ ctl' = IF ctl[h].cmd = "decommission" THEN Continue(h, "delete") ELSE End(h)
          /\ faults' = faults
       \/ /\ IF byohost[h].exists THEN Fault("read") ELSE faults' = faults
          /\ \/ ctl' = End(h)
             \/ ctl[h].cmd = "decommission" /\ ctl' = Continue(h, "purge")
    /\ UNCHANGED <<objects, disk, agentUp>>

GetUnstructuredMachineObject(h, from, to) ==
    /\ ctl[h].pc = from
    /\ IF Found(ctl[h].m)
         THEN ctl' = [ctl EXCEPT ![h].pc = to, ![h].copy = machine[ctl[h].m]]
         ELSE ctl' = End(h)
    /\ UNCHANGED <<objects, disk, agentUp, faults>>

\* The last replica needs the user's consent.
GetMachineDeploymentReplicaCount(h) ==
    /\ ctl[h].pc = "count"
    /\ \/ replicas # 1 /\ ctl' = Continue(h, "fresh")
       \/ replicas = 1 /\ ctl' \in {Continue(h, "exclude"), End(h)}
    /\ UNCHANGED <<objects, disk, agentUp, faults>>

\* An Update of the object m read as copy: the API server takes it when the
\* object has not changed since. The answer may be lost.
UpdateMachine(h, new, next) ==
    LET m == ctl[h].m
    IN /\ \/ /\ machine[m] = ctl[h].copy
             /\ machine' = [machine EXCEPT ![m] = new]
             /\ \/ ctl' = Continue(h, next) /\ faults' = faults
                \/ ctl' = End(h) /\ Fault("lost")
          \/ /\ machine[m] # ctl[h].copy
             /\ ctl' = End(h)
             /\ UNCHANGED <<machine, faults>>
          \/ /\ Fault("write")
             /\ ctl' = End(h)
             /\ machine' = machine
       /\ UNCHANGED <<byohost, replicas, claim, disk, agentUp>>

AnnotateExcludeDrain(h) ==
    /\ ctl[h].pc = "exclude"
    /\ UpdateMachine(h, [ctl[h].copy EXCEPT !.excludeDrain = TRUE], "fresh")

\* A wrong AnnotateMachineObject, which sends the object back as it was read.
AnnotateNothing(h) ==
    /\ ctl[h].pc = "annotate"
    /\ UpdateMachine(h, ctl[h].copy, "getDeployment")

AnnotateDeleteMachine(h) ==
    /\ ctl[h].pc = "annotate"
    /\ UpdateMachine(h, [ctl[h].copy EXCEPT !.deleteMachine = TRUE], "getDeployment")

GetMachineDeployment(h) ==
    /\ ctl[h].pc = "getDeployment"
    /\ ctl' = [ctl EXCEPT ![h].pc = "scale", ![h].count = replicas]
    /\ UNCHANGED <<objects, disk, agentUp, faults>>

ScaleDownMachineDeployment(h) ==
    /\ ctl[h].pc = "scale"
    /\ \/ /\ replicas = ctl[h].count
          /\ replicas' = ctl[h].count - 1
          /\ \/ ctl' = [ctl EXCEPT ![h].pc = "wait", ![h].count = 0] /\ faults' = faults
             \/ ctl' = End(h) /\ Fault("lost")
       \/ /\ replicas # ctl[h].count
          /\ ctl' = End(h)
          /\ UNCHANGED <<replicas, faults>>
       \/ /\ Fault("write")
          /\ ctl' = End(h)
          /\ replicas' = replicas
    /\ UNCHANGED <<byohost, machine, claim, disk, agentUp>>

\* One poll; a host that is still held is polled again.
WaitForMachineRefToBeUnset(h) ==
    /\ ctl[h].pc = "wait"
    /\ \/ ~byohost[h].exists /\ ctl' = End(h) /\ faults' = faults
       \/ /\ byohost[h].exists /\ byohost[h].ref = None
          /\ ctl' = IF ctl[h].cmd = "decommission" THEN Continue(h, "delete") ELSE End(h)
          /\ faults' = faults
       \/ byohost[h].exists /\ byohost[h].ref # None /\ UNCHANGED <<ctl, faults>>
       \/ /\ byohost[h].exists
          /\ Fault("read") \/ Fault("timeout")
          /\ ctl' = End(h)
    /\ UNCHANGED <<objects, disk, agentUp>>

\* A wrong removal, which purges the package when the object is still there.
DeleteIgnoringError(h) ==
    /\ ctl[h].pc = "delete"
    /\ \/ handleDelete(h) /\ byohost' = [byohost EXCEPT ![h] = NoHost]
       \/ ~handleDelete(h) /\ byohost' = byohost
    /\ ctl' = Continue(h, "purge")
    /\ UNCHANGED <<machine, replicas, claim, disk, agentUp, faults>>

DeleteByoHostObject(h) ==
    /\ ctl[h].pc = "delete"
    /\ \/ /\ byohost[h].exists /\ handleDelete(h)
          /\ byohost' = [byohost EXCEPT ![h] = NoHost]
          /\ \/ ctl' = Continue(h, "purge") /\ faults' = faults
             \/ ctl' = End(h) /\ Fault("lost")
       \/ /\ ~(byohost[h].exists /\ handleDelete(h))
          /\ ctl' = End(h)
          /\ UNCHANGED <<byohost, faults>>
       \/ /\ Fault("write")
          /\ ctl' = End(h)
          /\ byohost' = byohost
    /\ UNCHANGED <<machine, replicas, claim, disk, agentUp>>

\* dpkg --purge: the before-remove script stops the service, then removes the
\* files of the agent and ~/.byoh, then byohctl itself. dpkg may refuse before
\* the script, and the script may stop before its end; a package that is not
\* installed is purged without it.
PurgeDebianPackage(h) ==
    /\ ctl[h].pc = "purge"
    /\ ctl' = End(h)
    /\ \/ /\ disk[h].unit # "none"
          /\ disk' = [disk EXCEPT ![h] = NoFiles]
          /\ agentUp' = [agentUp EXCEPT ![h] = "down"]
          /\ faults' = faults
       \/ /\ disk[h].unit = "none"
          /\ UNCHANGED <<disk, agentUp, faults>>
       \/ /\ Fault("purge")
          /\ UNCHANGED <<disk, agentUp>>
       \/ /\ disk[h].unit # "none"
          /\ Fault("prerm")
          /\ disk' = [disk EXCEPT ![h].config = FALSE, ![h].region = None]
          /\ agentUp' = [agentUp EXCEPT ![h] = "down"]
    /\ UNCHANGED objects

OperationStep(h) ==
    \/ GetByoHostObject(h)
    \/ GetUnstructuredMachineObject(h, "getMachine", "count")
    \/ GetMachineDeploymentReplicaCount(h)
    \/ AnnotateExcludeDrain(h)
    \/ GetUnstructuredMachineObject(h, "fresh", "annotate")
    \/ AnnotateDeleteMachine(h)
    \/ GetMachineDeployment(h)
    \/ ScaleDownMachineDeployment(h)
    \/ WaitForMachineRefToBeUnset(h)
    \/ DeleteByoHostObject(h)
    \/ PurgeDebianPackage(h)

============================================================================
