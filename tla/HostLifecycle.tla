--------------------------- MODULE HostLifecycle ---------------------------
(***************************************************************************)
(* The life of a host: byohctl onboard, the agent's registration, the      *)
(* reservation by a Machine, byohctl deauthorise and decommission, and the *)
(* host again from the start. One byohctl command runs on a host at a      *)
(* time; the commands on different hosts, the agents, the manager and      *)
(* Cluster API interleave.                                                 *)
(***************************************************************************)
EXTENDS Onboarding, HostOperation

lifecycleVars == <<byohost, machine, replicas, claim, disk, agentUp, ctl, faults>>

LifecycleNext ==
    \/ \E m \in Machines : DeleteMachine(m) \/ MachineGone(m)
    \/ \E h \in Hosts, m \in Machines : Claim(h, m)
    \/ ClaimStatus
    \/ \E h \in Hosts :
          \/ \E r \in Asks[h] : runOnboard(h, r)
          \/ OnboardStep(h)
          \/ runDeauthorise(h)
          \/ runDecommission(h)
          \/ OperationStep(h)
          \/ Register(h)
          \/ Release(h)
          \/ AgentCrash(h)

LifecycleSpec == FleetInit /\ [][LifecycleNext]_lifecycleVars

\* A command goes on until it ends, Cluster API and the manager requeue until
\* they are done, and a running agent reconciles its host.
LifecycleFairness ==
    /\ \A h \in Hosts : /\ WF_lifecycleVars(OnboardStep(h))
                        /\ WF_lifecycleVars(OperationStep(h))
                        /\ WF_lifecycleVars(Register(h))
                        /\ WF_lifecycleVars(Release(h))
    /\ \A m \in Machines : /\ WF_lifecycleVars(DeleteMachine(m))
                           /\ WF_lifecycleVars(MachineGone(m))
    /\ WF_lifecycleVars(ClaimStatus)

FairLifecycleSpec == LifecycleSpec /\ LifecycleFairness

(***************************************************************************)
(* Properties                                                              *)
(***************************************************************************)

\* Every variable has its type.
LifecycleTypeOK ==
    /\ byohost \in [Hosts -> ByoHost]
    /\ machine \in [Machines -> Machine]
    /\ replicas \in Int
    /\ claim \in [h : Hosts \cup {None}, m : Owner]
    /\ disk \in [Hosts -> Disk]
    /\ agentUp \in [Hosts -> {"down", "starting", "up"}]
    /\ ctl \in [Hosts -> Ctl]
    /\ faults \in 0..MaxFaults

\* A host without the agent package has no ByoHost: a decommissioned host is
\* not offered to Machines (host_operations.go deletes the object, then purges
\* the package; an agent that registers in between would bring it back).
NoGhostHost == \A h \in Hosts : disk[h].unit = "none" => ~byohost[h].exists

\* A host that onboard refuses because the service is known can be
\* decommissioned: the saved kubeconfig that decommission needs is there.
ToolUsable ==
    \A h \in Hosts : ctl[h].pc = "idle" /\ disk[h].unit # "none" => disk[h].config

\* A registered host carries the region that its last onboarding asked for, and
\* it is one of the tenant's: the label goes from the command line through a
\* file, the package script and the service to the ByoHost, and an object that
\* already exists keeps the label it has (host_registrar.go, Register).
RegionHonoured ==
    \A h \in Hosts : agentUp[h] = "up" /\ byohost[h].exists
                     => /\ byohost[h].region = disk[h].label
                        /\ disk[h].label \in Available

\* A Machine that is not being deleted keeps the host that it was given: neither
\* a decommission nor another Machine takes it away.
OwnedHostStays ==
    [][\A h \in Hosts : byohost[h].ref \in Live
                        => byohost'[h].exists /\ byohost'[h].ref = byohost[h].ref]_lifecycleVars

\* Only Machines that somebody asked to remove are removed: the scale-down of
\* one command never takes the Machine of a host that no command was run on.
OnlyAskedMachinesGo ==
    [][\A m \in Machines : machine[m].phase = "live" /\ machine'[m].phase = "deleting"
                           => machine[m].deleteMachine]_lifecycleVars

\* A command that waits for its host to be released does not wait for ever,
\* with two exceptions. Some command marked a Machine and failed before it
\* scaled down: the MachineSet may spend the scale-down of this command on that
\* Machine. Or another Machine took the host before the command saw it free,
\* since the wait only tests MachineRef for nil.
WaitEnds ==
    \A h \in Hosts :
       ctl[h].pc = "wait"
       ~> \/ ctl[h].pc # "wait"
          \/ Cardinality({m \in Machines : machine[m].deleteMachine}) > Cardinality(Machines) - replicas
          \/ byohost[h].ref \notin {None, ctl[h].m}

============================================================================
