----------------------------- MODULE HostFleet -----------------------------
(***************************************************************************)
(* What byohctl works on: the ByoHosts of a tenant, the Machines of one    *)
(* MachineDeployment (a Machine and its ByoMachine share their name, as    *)
(* byohctl takes for granted), and on every host the files, the package    *)
(* and the agent service. The controllers of the manager, whose steps Byoh *)
(* models, appear here as what they do to a host's reservation.            *)
(***************************************************************************)
EXTENDS Integers, FiniteSets

CONSTANTS
    Hosts,
    Machines,     \* the Machines of the MachineDeployment, all of them created
    None,         \* the nil reference, an absent file
    Regions,
    Asks,         \* the regions the users of a host ask for
    Available,    \* the regions in the tenant's region-config
    Quiet,        \* commands that remove a host find its agent up, and it stays up
    FaultKinds,   \* the kinds of fault that may happen
    MaxFaults     \* how many faults a behaviour may hold

ASSUME FleetAssumption ==
    /\ None \notin Machines \cup Regions \cup Hosts
    /\ Available \subseteq Regions
    /\ Asks \in [Hosts -> SUBSET Regions]
    /\ IsFiniteSet(Machines)
    /\ Quiet \in BOOLEAN
    /\ FaultKinds \subseteq {"onboard", "rollback", "read", "write", "lost", "timeout",
                            "purge", "prerm", "agentApi", "agentCrash"}
    /\ MaxFaults \in Nat

VARIABLES
    byohost,    \* the ByoHost objects
    machine,    \* the Machine objects
    replicas,   \* Spec.Replicas of the MachineDeployment
    claim,      \* attachByoHost between its two requests
    disk,       \* the files and the package of every host
    agentUp,    \* the agent process of every host
    ctl,        \* the byohctl command running on every host
    faults      \* the number of faults so far

objects == <<byohost, machine, replicas, claim>>

(***************************************************************************)
(* State                                                                   *)
(***************************************************************************)
Owner == Machines \cup {None}

ByoHost == [exists : BOOLEAN,
            attached : Owner,               \* the labels that reserve the host
            ref : Owner,                    \* Status.MachineRef
            region : Regions \cup {None}]   \* the label the agent registers with

NoHost == [exists |-> FALSE, attached |-> None, ref |-> None, region |-> None]

Machine == [phase : {"live", "deleting", "gone"},
            deleteMachine : BOOLEAN,    \* cluster.x-k8s.io/delete-machine
            excludeDrain : BOOLEAN]     \* machine.cluster.x-k8s.io/exclude-node-draining

NewMachine == [phase |-> "live", deleteMachine |-> FALSE, excludeDrain |-> FALSE]

Found(m) == machine[m].phase \in {"live", "deleting"}

Live == {m \in Machines : machine[m].phase = "live"}

\* ~/.byoh/config, ~/.byoh/region, the unit file that list-unit-files finds
\* (broken: dpkg unpacked the package and its after-install script failed) and
\* the label in the environment file of the service.
Disk == [config : BOOLEAN, region : Regions \cup {None},
         unit : {"none", "broken", "installed"}, label : Regions \cup {None}]

NoFiles == [config |-> FALSE, region |-> None, unit |-> "none", label |-> None]

\* A command: what it has read so far. copy and count are the objects that an
\* Update sends back with the resource version they were read with.
Ctl == [pc : {"idle", "save", "region", "label", "packages", "dpkg",
              "getHost", "getMachine", "count", "exclude", "fresh", "annotate",
              "getDeployment", "scale", "wait", "delete", "purge"},
        cmd : {"none", "onboard", "deauthorise", "decommission"},
        region : Regions \cup {None}, m : Owner, copy : Machine, count : Int]

CtlIdle == [pc |-> "idle", cmd |-> "none", region |-> None, m |-> None,
            copy |-> NewMachine, count |-> 0]

FleetInit ==
    /\ byohost = [h \in Hosts |-> NoHost]
    /\ machine = [m \in Machines |-> NewMachine]
    /\ replicas = Cardinality(Machines)
    /\ claim = [h |-> None, m |-> None]
    /\ disk = [h \in Hosts |-> NoFiles]
    /\ agentUp = [h \in Hosts |-> "down"]
    /\ ctl = [h \in Hosts |-> CtlIdle]
    /\ faults = 0

Fault(kind) == kind \in FaultKinds /\ faults < MaxFaults /\ faults' = faults + 1

(***************************************************************************)
(* Cluster API                                                             *)
(***************************************************************************)
\* A MachineSet with too many Machines deletes the ones marked for it first.
\* byohctl only ever lowers the replicas, so no Machine is created.
DeleteMachine(m) ==
    /\ m \in Live
    /\ Cardinality(Live) > replicas
    /\ (\E n \in Live : machine[n].deleteMachine) => machine[m].deleteMachine
    /\ machine' = [machine EXCEPT ![m].phase = "deleting"]
    /\ UNCHANGED <<byohost, replicas, claim, disk, agentUp, ctl, faults>>

\* The ByoMachine loses its finalizer once its host is marked for cleanup.
MachineGone(m) ==
    /\ machine[m].phase = "deleting"
    /\ claim.m # m
    /\ machine' = [machine EXCEPT ![m].phase = "gone"]
    /\ UNCHANGED <<byohost, replicas, claim, disk, agentUp, ctl, faults>>

(***************************************************************************)
(* The manager: attachByoHost labels a free host, then sets MachineRef. An *)
(* error of the second request (the object is gone) starts over.           *)
(***************************************************************************)
Claim(h, m) ==
    /\ claim.h = None
    /\ m \in Live
    /\ byohost[h].exists /\ byohost[h].attached = None
    /\ \A g \in Hosts : byohost[g].attached # m
    /\ byohost' = [byohost EXCEPT ![h].attached = m]
    /\ claim' = [h |-> h, m |-> m]
    /\ UNCHANGED <<machine, replicas, disk, agentUp, ctl, faults>>

ClaimStatus ==
    /\ claim.h # None
    /\ byohost' = [byohost EXCEPT ![claim.h].ref =
                     IF byohost[claim.h].exists THEN claim.m ELSE @]
    /\ claim' = [h |-> None, m |-> None]
    /\ UNCHANGED <<machine, replicas, disk, agentUp, ctl, faults>>

\* A wrong webhook, which lets every delete pass.
handleEveryDelete(h) == TRUE

\* The webhook on the delete of a ByoHost looks at its MachineRef only.
handleDelete(h) == byohost[h].ref \notin {m \in Machines : Found(m)}

(***************************************************************************)
(* The agent. systemd starts it again whenever it ends, and every start    *)
(* registers. A claim is two requests in a row, so no host is reinstalled  *)
(* and registered between them.                                            *)
(***************************************************************************)
Register(h) ==
    /\ agentUp[h] = "starting"
    /\ disk[h].config
    /\ claim.h # h
    /\ \/ /\ byohost' = [byohost EXCEPT ![h] =
                           IF @.exists THEN @
                           ELSE [NoHost EXCEPT !.exists = TRUE, !.region = disk[h].label]]
          /\ agentUp' = [agentUp EXCEPT ![h] = "up"]
          /\ faults' = faults
       \/ /\ Fault("agentApi")
          /\ UNCHANGED <<byohost, agentUp>>
    /\ UNCHANGED <<machine, replicas, claim, disk, ctl>>

AgentCrash(h) ==
    /\ agentUp[h] = "up"
    /\ Quiet => ctl[h].pc = "idle"
    /\ Fault("agentCrash")
    /\ agentUp' = [agentUp EXCEPT ![h] = "starting"]
    /\ UNCHANGED <<objects, disk, ctl>>

\* A wrong release, which clears the labels and leaves the MachineRef.
ReleaseLabels(h) ==
    /\ agentUp[h] = "up"
    /\ byohost[h].attached # None
    /\ claim.h # h
    /\ machine[byohost[h].attached].phase \in {"deleting", "gone"}
    /\ byohost' = [byohost EXCEPT ![h].attached = None]
    /\ UNCHANGED <<machine, replicas, claim, disk, agentUp, ctl, faults>>

\* hostCleanUp on a host whose ByoMachine is being deleted.
Release(h) ==
    /\ agentUp[h] = "up"
    /\ byohost[h].attached # None
    /\ claim.h # h
    /\ machine[byohost[h].attached].phase \in {"deleting", "gone"}
    /\ byohost' = [byohost EXCEPT ![h].attached = None, ![h].ref = None]
    /\ UNCHANGED <<machine, replicas, claim, disk, agentUp, ctl, faults>>

============================================================================
