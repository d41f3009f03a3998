--------------------------- MODULE LifecycleProofs ---------------------------
(***************************************************************************)
(* The life of a tenant's hosts under byohctl, for any number of hosts,    *)
(* machines, regions, commands and faults: a Machine that is not being     *)
(* deleted keeps its host; the files, the agent and the ByoHost of a host  *)
(* agree; and a scale-down takes only Machines that a command has marked.  *)
(***************************************************************************)
EXTENDS HostLifecycle, FiniteSetTheorems, TLAPS

\* A ByoHost, whatever its region label.
HostRecord(x) ==
    /\ x = [exists |-> x.exists, attached |-> x.attached, ref |-> x.ref, region |-> x.region]
    /\ x.exists \in BOOLEAN /\ x.attached \in Owner /\ x.ref \in Owner

\* The inductive invariant. A host without an object is in no use; MachineRef
\* is set to the machine that has the labels; a claim between its two requests
\* finds the host with its labels and no MachineRef, or finds it gone.
HoldInv ==
    /\ DOMAIN byohost = Hosts
    /\ \A h \in Hosts : /\ HostRecord(byohost[h])
                        /\ ~byohost[h].exists => byohost[h] = NoHost
                        /\ byohost[h].ref # None => byohost[h].ref = byohost[h].attached
    /\ claim \in [h : Hosts \cup {None}, m : Owner]
    /\ claim.h # None => \/ byohost[claim.h] = NoHost
                         \/ byohost[claim.h].attached = claim.m /\ byohost[claim.h].ref = None

Held == \A h \in Hosts : byohost[h].ref \in Live
                         => byohost'[h].exists /\ byohost'[h].ref = byohost[h].ref

\* A step that leaves the reservations alone keeps them.
LEMMA NoReservationStep ==
    ASSUME HoldInv, UNCHANGED <<byohost, claim>>
    PROVE  HoldInv' /\ Held
BY FleetAssumption DEF HoldInv, Held, NoHost, HostRecord, Owner, Live

\* The claim, its status part, the registration, the release and the delete.
LEMMA ReservationStep ==
    ASSUME HoldInv, NEW h \in Hosts
    PROVE  /\ \A m \in Machines : Claim(h, m) => HoldInv' /\ Held
           /\ ClaimStatus => HoldInv' /\ Held
           /\ Register(h) => HoldInv' /\ Held
           /\ Release(h) => HoldInv' /\ Held
           /\ DeleteByoHostObject(h) => HoldInv' /\ Held
<1>0. /\ HostRecord(NoHost) /\ NoHost.ref = None /\ ~NoHost.exists
      /\ NoHost.attached = None
  BY DEF NoHost, HostRecord, Owner
<1>00. \A g \in Hosts : byohost[g].ref \in Live => byohost[g].exists /\ byohost[g].ref # None
  BY <1>0, FleetAssumption DEF HoldInv, Live
<1>1. ASSUME NEW m \in Machines, Claim(h, m) PROVE HoldInv' /\ Held
  <2>1. /\ HostRecord(byohost'[h]) /\ byohost'[h].exists /\ byohost'[h].attached = m
        /\ byohost'[h].ref = byohost[h].ref /\ byohost[h].ref = None
    BY <1>1, FleetAssumption DEF Claim, HoldInv, HostRecord, Owner
  <2>2. DOMAIN byohost' = Hosts /\ \A g \in Hosts \ {h} : byohost'[g] = byohost[g]
    BY <1>1 DEF Claim, HoldInv
  <2>3. claim' \in [h : Hosts \cup {None}, m : Owner] /\ claim'.h = h /\ claim'.m = m
    BY <1>1 DEF Claim, Owner
  <2>4. Held
    BY <1>00, <2>1, <2>2 DEF Held
  <2>5. \A g \in Hosts : /\ HostRecord(byohost'[g])
                         /\ ~byohost'[g].exists => byohost'[g] = NoHost
                         /\ byohost'[g].ref # None => byohost'[g].ref = byohost'[g].attached
    BY <2>1, <2>2 DEF HoldInv
  <2> QED BY <2>1, <2>2, <2>3, <2>4, <2>5 DEF HoldInv, HostRecord
<1>2. ASSUME ClaimStatus PROVE HoldInv' /\ Held
  <2>1. /\ HostRecord(byohost'[claim.h]) /\ byohost[claim.h].ref = None
        /\ \/ byohost'[claim.h] = NoHost
           \/ byohost'[claim.h].exists /\ byohost'[claim.h].ref = byohost'[claim.h].attached
    BY <1>2, <1>0, FleetAssumption DEF ClaimStatus, HoldInv, HostRecord, Owner
  <2>2. DOMAIN byohost' = Hosts /\ \A g \in Hosts \ {claim.h} : byohost'[g] = byohost[g]
    BY <1>2 DEF ClaimStatus, HoldInv
  <2>3. claim' \in [h : Hosts \cup {None}, m : Owner] /\ claim'.h = None
    BY <1>2 DEF ClaimStatus, Owner
  <2> QED BY <1>0, <2>1, <2>2, <2>3, FleetAssumption DEF HoldInv, Held, Live
<1>3. ASSUME Register(h) PROVE HoldInv' /\ Held
  <2>1. CASE byohost[h].exists
    <3>1. DOMAIN byohost' = Hosts /\ \A g \in Hosts : byohost'[g] = byohost[g]
      BY <1>3, <2>1 DEF Register, HoldInv
    <3> QED BY <1>3, <1>0, <3>1, FleetAssumption DEF Register, HoldInv, Held, Live
  <2>2. CASE ~byohost[h].exists /\ byohost' # byohost
    <3>1. /\ HostRecord(byohost'[h]) /\ byohost'[h].exists
          /\ byohost'[h].ref = None /\ byohost[h].ref = None
      <4>1. byohost' = [byohost EXCEPT ![h] =
                          [NoHost EXCEPT !.exists = TRUE, !.region = disk[h].label]]
        BY <1>3, <2>2 DEF Register
      <4>2. byohost'[h] = [NoHost EXCEPT !.exists = TRUE, !.region = disk[h].label]
        BY <4>1 DEF HoldInv
      <4>3. byohost[h].ref = None
        BY <1>0, <2>2 DEF HoldInv
      <4> QED BY Zenon, <4>2, <4>3 DEF HostRecord, NoHost, Owner
    <3>2. DOMAIN byohost' = Hosts /\ \A g \in Hosts \ {h} : byohost'[g] = byohost[g]
      BY <1>3 DEF Register, HoldInv
    <3>3. claim' = claim /\ claim.h # h
      BY <1>3 DEF Register
    <3>4. Held
      BY <1>00, <3>1, <3>2 DEF Held
    <3>5. \A g \in Hosts : /\ HostRecord(byohost'[g])
                           /\ ~byohost'[g].exists => byohost'[g] = NoHost
                           /\ byohost'[g].ref # None => byohost'[g].ref = byohost'[g].attached
      BY <3>1, <3>2 DEF HoldInv
    <3> QED BY <3>2, <3>3, <3>4, <3>5 DEF HoldInv, HostRecord
  <2>3. CASE byohost' = byohost
    BY <1>3, <2>3, NoReservationStep DEF Register
  <2> QED BY <2>1, <2>2, <2>3
<1>4. ASSUME Release(h) PROVE HoldInv' /\ Held
  <2>1. /\ HostRecord(byohost'[h]) /\ byohost'[h].exists = byohost[h].exists
        /\ byohost'[h].ref = None /\ byohost[h].ref \notin Live /\ byohost[h].exists
    <3>1. byohost[h].attached # None /\ byohost[h].attached \notin Live
      BY <1>4 DEF Release, Live
    <3>2. byohost[h].ref \notin Live /\ byohost[h].exists
      BY <3>1, <1>0, <1>00 DEF HoldInv
    <3>3. byohost'[h] = [byohost[h] EXCEPT !.attached = None, !.ref = None]
      BY <1>4 DEF Release, HoldInv
    <3>4. HostRecord(byohost[h])
      BY DEF HoldInv
    <3> QED BY Zenon, <3>2, <3>3, <3>4 DEF HostRecord, Owner
  <2>2. DOMAIN byohost' = Hosts /\ \A g \in Hosts \ {h} : byohost'[g] = byohost[g]
    BY <1>4 DEF Release, HoldInv
  <2>3. claim' = claim /\ claim.h # h
    BY <1>4 DEF Release
  <2>4. Held
    BY <1>00, <2>1, <2>2 DEF Held
  <2>5. \A g \in Hosts : /\ HostRecord(byohost'[g])
                         /\ ~byohost'[g].exists => byohost'[g] = NoHost
                         /\ byohost'[g].ref # None => byohost'[g].ref = byohost'[g].attached
    BY Zenon, <2>1, <2>2 DEF HoldInv
  <2> QED BY <2>2, <2>3, <2>4, <2>5 DEF HoldInv, HostRecord
<1>5. ASSUME DeleteByoHostObject(h) PROVE HoldInv' /\ Held
  BY SMTT(30), <1>5, <1>0, FleetAssumption
     DEF DeleteByoHostObject, handleDelete, Found, HoldInv, Held, HostRecord, Owner, Live
<1> QED BY <1>1, <1>2, <1>3, <1>4, <1>5

\* Every step of every process.
LEMMA LifecycleStep == HoldInv /\ [LifecycleNext]_lifecycleVars => HoldInv' /\ Held
<1> SUFFICES ASSUME HoldInv, [LifecycleNext]_lifecycleVars PROVE HoldInv' /\ Held
  OBVIOUS
<1>1. CASE UNCHANGED lifecycleVars
  BY <1>1, NoReservationStep DEF lifecycleVars
<1>2. CASE \E m \in Machines : DeleteMachine(m) \/ MachineGone(m)
  BY <1>2, NoReservationStep DEF DeleteMachine, MachineGone
<1>3. CASE \E h \in Hosts, m \in Machines : Claim(h, m)
  BY <1>3, ReservationStep
<1>4. CASE ClaimStatus
  <2>1. PICK h \in Hosts : h = claim.h
    BY <1>4 DEF ClaimStatus, HoldInv
  <2> QED BY <1>4, <2>1, ReservationStep
<1>5. ASSUME NEW h \in Hosts, NEW r \in Asks[h], runOnboard(h, r) PROVE HoldInv' /\ Held
  BY <1>5, NoReservationStep DEF runOnboard, objects
<1>6. ASSUME NEW h \in Hosts, OnboardStep(h) PROVE HoldInv' /\ Held
  BY <1>6, NoReservationStep
     DEF OnboardStep, SaveKubeConfig, CheckRegionAvailability, SaveRegion,
         ensureRequiredPackages, installDebianPackage, objects
<1>7. ASSUME NEW h \in Hosts, runDeauthorise(h) \/ runDecommission(h) PROVE HoldInv' /\ Held
  BY <1>7, NoReservationStep DEF runDeauthorise, runDecommission, PerformHostOperation, objects
<1>8. ASSUME NEW h \in Hosts, OperationStep(h) PROVE HoldInv' /\ Held
  <2>1. CASE DeleteByoHostObject(h)
    BY Zenon, <2>1, ReservationStep
  <2>2. CASE ~DeleteByoHostObject(h)
    BY <1>8, <2>2, NoReservationStep
       DEF OperationStep, GetByoHostObject, GetUnstructuredMachineObject,
           GetMachineDeploymentReplicaCount, AnnotateExcludeDrain, AnnotateDeleteMachine,
           UpdateMachine, GetMachineDeployment, ScaleDownMachineDeployment,
           WaitForMachineRefToBeUnset, PurgeDebianPackage, objects
  <2> QED BY <2>1, <2>2
<1>9. ASSUME NEW h \in Hosts, Register(h) \/ Release(h) PROVE HoldInv' /\ Held
  BY <1>9, ReservationStep
<1>10. ASSUME NEW h \in Hosts, AgentCrash(h) PROVE HoldInv' /\ Held
  BY <1>10, NoReservationStep DEF AgentCrash, objects
<1> QED BY <1>1, <1>2, <1>3, <1>4, <1>5, <1>6, <1>7, <1>8, <1>9, <1>10 DEF LifecycleNext

\* The reservations stay consistent in every behaviour of the tenant.
THEOREM HoldInvariant == LifecycleSpec => []HoldInv
<1>1. FleetInit => HoldInv
  <2>1. HostRecord(NoHost) /\ NoHost.ref = None
    BY DEF NoHost, HostRecord, Owner
  <2> SUFFICES ASSUME FleetInit PROVE HoldInv
    OBVIOUS
  <2>2. DOMAIN byohost = Hosts /\ \A h \in Hosts : byohost[h] = NoHost
    BY DEF FleetInit
  <2>3. claim \in [h : Hosts \cup {None}, m : Owner] /\ claim.h = None
    BY DEF FleetInit, Owner
  <2> QED BY <2>1, <2>2, <2>3 DEF HoldInv
<1>2. HoldInv /\ [LifecycleNext]_lifecycleVars => HoldInv'
  BY LifecycleStep
<1> QED BY <1>1, <1>2, PTL DEF LifecycleSpec

\* A Machine that is not being deleted keeps the host it was given: the webhook
\* refuses the delete of a decommission, and no claim, registration or cleanup
\* of the agent takes the host away.
THEOREM HostsStay == LifecycleSpec => OwnedHostStays
<1>1. HoldInv /\ [LifecycleNext]_lifecycleVars => [Held]_lifecycleVars
  BY LifecycleStep
<1> QED BY <1>1, HoldInvariant, PTL DEF LifecycleSpec, OwnedHostStays, Held

(***************************************************************************)
(* The commands on the hosts                                               *)
(***************************************************************************)
Onboarding == {"save", "region", "label", "packages", "dpkg"}

\* The steps of a command that has not scaled down, and of any that removes a host.
Before == {"getMachine", "count", "exclude", "fresh", "annotate", "getDeployment", "scale"}

Removing == Before \cup {"getHost", "wait", "delete", "purge"}

\* A command that needs its Machine has one.
CtlInv == \A h \in Hosts : ctl[h].pc \in Before \cup {"wait"} => ctl[h].m \in Machines

\* An onboarding runs on a host without the package and saves only a region
\* of the tenant; an agent that runs was installed with one. (d, u and c are
\* the disk, the agent and the command of a host.)
Installed(d, u, c) ==
    /\ u # "down" => d.unit = "installed" /\ d.label \in Available
    /\ c.pc \in Onboarding => d.unit = "none"
    /\ c.pc = "label" => c.region \in Available
    /\ c.pc \in {"packages", "dpkg"} => d.region \in Available

\* The kubeconfig is saved first and removed with the package.
Usable(d, c) ==
    /\ d.unit # "none" => d.config
    /\ c.pc \in {"region", "label", "packages", "dpkg"} => d.config

\* A ByoHost b has the agent that registered it; a command that removes the
\* package removed the object first, and no agent starts while it runs.
Registered(b, d, u, c) ==
    /\ b.exists => d.unit = "installed" /\ b.region = d.label /\ d.label \in Available
    /\ c.pc \in Removing => u # "starting"
    /\ c.pc = "purge" => ~b.exists

\* The second needs a before-remove script that runs to its end, the third an
\* agent that does not restart under a command and a command that can read.
Sound(b, d, u, c) ==
    /\ Installed(d, u, c)
    /\ "prerm" \notin FaultKinds => Usable(d, c)
    /\ Quiet /\ "read" \notin FaultKinds => Registered(b, d, u, c)

SoundInv == \A h \in Hosts : Sound(byohost[h], disk[h], agentUp[h], ctl[h])

(***************************************************************************)
(* The scale-downs                                                         *)
(***************************************************************************)
Marked == {m \in Machines : machine[m].deleteMachine}

\* A Machine that a command on h may still scale down for: one that has not
\* yet done so has read it, or the next one will.
MayScale(h, m) == \/ ctl[h].pc \in Before /\ ctl[h].m = m
                  \/ byohost[h].ref = m /\ ~(ctl[h].pc = "wait" /\ ctl[h].m = m)

Unspent == {m \in Machines : \E h \in Hosts : MayScale(h, m)}

\* The hosts that a Machine has to do with.
Uses(h, m) == \/ byohost[h].attached = m
              \/ claim.h = h /\ claim.m = m
              \/ ctl[h].pc \in Before \cup {"wait"} /\ ctl[h].m = m

\* A Machine has one host, which its command works on; a command marks its
\* Machine before it scales down; what is deleted was marked, and no marked
\* Machine gets a host.
OwnInv ==
    /\ \A m \in Machines, g, h \in Hosts : Uses(g, m) /\ Uses(h, m) => g = h
    /\ \A h \in Hosts : ctl[h].pc \in Before \cup {"wait"} /\ ctl[h].m \in Live
                          => byohost[h].ref = ctl[h].m
    /\ \A h \in Hosts : ctl[h].pc \in {"getDeployment", "scale"} => ctl[h].m \in Marked
    /\ \A m \in Marked \cap Live : \E h \in Hosts : byohost[h].ref = m
    /\ Machines \ Live \subseteq Marked
    /\ claim.h # None => claim.m \in Machines \ Marked

\* Every scale-down was made by a command for a Machine of its own that it had
\* marked, so there are no more of them than marked Machines that no command
\* will scale down for again.
SpentInv == Cardinality(Machines) - replicas <= Cardinality(Marked \ Unspent)

ScaleInv == OwnInv /\ SpentInv

(***************************************************************************)
(* Types                                                                   *)
(***************************************************************************)
\* A command goes on, or ends.
LEMMA CtlMoves ==
    ASSUME LifecycleTypeOK, CtlInv, NEW h \in Hosts
    PROVE  /\ ctl' = End(h) \/ ctl' = Exit(h) \/ UNCHANGED ctl => CtlInv' /\ ctl' \in [Hosts -> Ctl]
           /\ \A pc \in Onboarding \cup Removing :
                /\ ctl' = Continue(h, pc) \/ ctl' = Goto(h, pc)
                /\ pc \in Before \cup {"wait"} => ctl[h].m \in Machines
                => CtlInv' /\ ctl' \in [Hosts -> Ctl]
<1>1. ctl \in [Hosts -> Ctl] /\ ctl[h] \in Ctl
  BY DEF LifecycleTypeOK
<1>2. ASSUME NEW c \in Ctl, c.pc \in Before \cup {"wait"} => c.m \in Machines,
             ctl' = [ctl EXCEPT ![h] = c]
      PROVE  CtlInv' /\ ctl' \in [Hosts -> Ctl]
  BY <1>1, <1>2 DEF CtlInv
<1>3. CtlIdle \in Ctl /\ CtlIdle.pc = "idle"
  BY DEF CtlIdle, Ctl, Owner, NewMachine, Machine
<1>4. ASSUME NEW pc \in Onboarding \cup Removing
      PROVE  /\ [ctl[h] EXCEPT !.pc = pc] \in Ctl
             /\ [ctl[h] EXCEPT !.pc = pc].pc = pc /\ [ctl[h] EXCEPT !.pc = pc].m = ctl[h].m
  BY <1>1, <1>4 DEF Ctl, Onboarding, Removing, Before
<1>5. CASE ctl' = End(h) \/ ctl' = Exit(h)
  BY <1>2, <1>3, <1>5 DEF End, Exit, Before
<1>6. CASE UNCHANGED ctl
  BY <1>1, <1>6 DEF CtlInv
<1>7. ASSUME NEW pc \in Onboarding \cup Removing,
             ctl' = Continue(h, pc) \/ ctl' = Goto(h, pc),
             pc \in Before \cup {"wait"} => ctl[h].m \in Machines
      PROVE  CtlInv' /\ ctl' \in [Hosts -> Ctl]
  <2>1. ctl' = [ctl EXCEPT ![h] = [ctl[h] EXCEPT !.pc = pc]]
    BY <1>1, <1>7 DEF Continue, Goto
  <2> QED BY Zenon, <1>2, <1>4, <1>7, <2>1
<1> QED BY <1>5, <1>6, <1>7

\* No fault beyond the last.
LEMMA FaultTypes ==
    ASSUME LifecycleTypeOK, faults' = faults \/ \E kind : Fault(kind)
    PROVE  faults' \in 0..MaxFaults
BY FleetAssumption DEF LifecycleTypeOK, Fault

\* The changes the commands make to a host, and to what they know.
LEMMA DiskTypes ==
    ASSUME NEW d \in Disk
    PROVE  /\ NoFiles \in Disk
           /\ [d EXCEPT !.config = TRUE] \in Disk
           /\ [d EXCEPT !.config = FALSE, !.region = None] \in Disk
           /\ \A r \in Regions \cup {None} : [d EXCEPT !.region = r] \in Disk
           /\ \A u \in {"none", "broken"} : [d EXCEPT !.unit = u] \in Disk
           /\ [d EXCEPT !.unit = "installed", !.label = d.region] \in Disk
<1>1. NoFiles \in Disk
  BY DEF NoFiles, Disk
<1>2. [d EXCEPT !.config = TRUE] \in Disk
  BY Zenon DEF Disk
<1>3. [d EXCEPT !.config = FALSE, !.region = None] \in Disk
  BY Zenon DEF Disk
<1>4. \A r \in Regions \cup {None} : [d EXCEPT !.region = r] \in Disk
  BY DEF Disk
<1>5. \A u \in {"none", "broken"} : [d EXCEPT !.unit = u] \in Disk
  BY DEF Disk
<1>6. [d EXCEPT !.unit = "installed", !.label = d.region] \in Disk
  BY Zenon DEF Disk
<1> QED BY <1>1, <1>2, <1>3, <1>4, <1>5, <1>6

LEMMA CtlTypes ==
    ASSUME NEW c \in Ctl
    PROVE  /\ CtlIdle \in Ctl
           /\ \A r \in Regions : [c EXCEPT !.cmd = "onboard", !.pc = "save", !.region = r] \in Ctl
           /\ \A op \in {"deauthorise", "decommission"} :
                [c EXCEPT !.cmd = op, !.pc = "getHost"] \in Ctl
           /\ [c EXCEPT !.pc = "packages", !.region = None] \in Ctl
           /\ \A m \in Owner : [c EXCEPT !.pc = "getMachine", !.m = m] \in Ctl
           /\ \A x \in Machine, pc \in {"count", "annotate"} :
                [c EXCEPT !.pc = pc, !.copy = x] \in Ctl
           /\ \A n \in Int : [c EXCEPT !.pc = "scale", !.count = n] \in Ctl
           /\ [c EXCEPT !.pc = "wait", !.count = 0] \in Ctl
<1>1. CtlIdle \in Ctl
  BY DEF CtlIdle, Ctl, Owner, NewMachine, Machine
<1>2. \A r \in Regions : [c EXCEPT !.cmd = "onboard", !.pc = "save", !.region = r] \in Ctl
  BY Zenon DEF Ctl
<1>3. \A op \in {"deauthorise", "decommission"} : [c EXCEPT !.cmd = op, !.pc = "getHost"] \in Ctl
  BY Zenon DEF Ctl
<1>4. [c EXCEPT !.pc = "packages", !.region = None] \in Ctl
  BY Zenon DEF Ctl
<1>5. \A m \in Owner : [c EXCEPT !.pc = "getMachine", !.m = m] \in Ctl
  BY Zenon DEF Ctl
<1>6. \A x \in Machine, pc \in {"count", "annotate"} : [c EXCEPT !.pc = pc, !.copy = x] \in Ctl
  BY Zenon DEF Ctl
<1>7. \A n \in Int : [c EXCEPT !.pc = "scale", !.count = n] \in Ctl
  BY Zenon DEF Ctl
<1>8. [c EXCEPT !.pc = "wait", !.count = 0] \in Ctl
  <2>1. ASSUME NEW n \in Int PROVE [c EXCEPT !.pc = "wait", !.count = n] \in Ctl
    BY ZenonT(30) DEF Ctl
  <2>2. 0 \in Int
    OBVIOUS
  <2> QED BY <2>1, <2>2, Zenon
<1> QED BY Zenon, <1>1, <1>2, <1>3, <1>4, <1>5, <1>6, <1>7, <1>8

\* The steps of byohctl onboard.
LEMMA OnboardTypes ==
    ASSUME LifecycleTypeOK, CtlInv, NEW h \in Hosts,
           OnboardStep(h) \/ \E r \in Asks[h] : runOnboard(h, r)
    PROVE  LifecycleTypeOK' /\ CtlInv'
<1>1. ctl \in [Hosts -> Ctl] /\ ctl[h] \in Ctl /\ disk \in [Hosts -> Disk] /\ disk[h] \in Disk
  BY DEF LifecycleTypeOK
<1>2. ASSUME CtlInv', ctl' \in [Hosts -> Ctl], disk' \in [Hosts -> Disk], UNCHANGED objects,
             faults' = faults \/ \E kind : Fault(kind),
             agentUp' = agentUp \/ agentUp' = [agentUp EXCEPT ![h] = "starting"]
      PROVE  LifecycleTypeOK' /\ CtlInv'
  <2>1. faults' \in 0..MaxFaults
    BY <1>2, FaultTypes
  <2> QED BY <1>2, <2>1 DEF LifecycleTypeOK, objects
<1>3. ASSUME NEW r \in Asks[h], runOnboard(h, r) PROVE LifecycleTypeOK' /\ CtlInv'
  <2> DEFINE c == [CtlIdle EXCEPT !.cmd = "onboard", !.pc = "save", !.region = r]
  <2>1. r \in Regions
    BY Zenon, <1>3, FleetAssumption
  <2>2. c \in Ctl /\ c.pc = "save"
    <3>1. CtlIdle \in Ctl
      BY ZenonT(30), <1>1, CtlTypes
    <3> QED BY ZenonT(30), <2>1, <3>1, CtlTypes DEF CtlIdle
  <2>3. ctl' = [ctl EXCEPT ![h] = c]
    BY Zenon, <1>3 DEF runOnboard
  <2> HIDE DEF c
  <2>4. CtlInv' /\ ctl' \in [Hosts -> Ctl]
    BY <1>1, <2>2, <2>3 DEF CtlInv, Before
  <2> QED BY Zenon, <1>1, <1>2, <1>3, <2>4 DEF runOnboard
<1>4. CASE SaveKubeConfig(h)
  <2>1. disk' \in [Hosts -> Disk]
    BY Zenon, <1>1, <1>4, DiskTypes DEF SaveKubeConfig
  <2>2. CtlInv' /\ ctl' \in [Hosts -> Ctl]
    <3>1. ctl' = Goto(h, "region") \/ ctl' = Exit(h)
      BY <1>4 DEF SaveKubeConfig
    <3>2. "region" \in Onboarding /\ "region" \notin Before \cup {"wait"}
      BY DEF Onboarding, Before
    <3> QED BY <3>1, <3>2, CtlMoves
  <2> QED BY Zenon, <1>2, <1>4, <2>1, <2>2 DEF SaveKubeConfig
<1>5. CASE CheckRegionAvailability(h)
  <2>1. disk' \in [Hosts -> Disk]
    BY Zenon, <1>1, <1>5, DiskTypes DEF CheckRegionAvailability
  <2>2. CtlInv' /\ ctl' \in [Hosts -> Ctl]
    <3>1. ctl' = Goto(h, "label") \/ ctl' = Exit(h)
      BY <1>5 DEF CheckRegionAvailability
    <3>2. "label" \in Onboarding /\ "label" \notin Before \cup {"wait"}
      BY DEF Onboarding, Before
    <3> QED BY <3>1, <3>2, CtlMoves
  <2> QED BY Zenon, <1>2, <1>5, <2>1, <2>2 DEF CheckRegionAvailability
<1>6. CASE SaveRegion(h)
  <2>1. disk' \in [Hosts -> Disk]
    BY SMTT(30), <1>1, <1>6 DEF SaveRegion, Disk, Ctl
  <2>2. CASE ctl' = Exit(h)
    BY <1>2, <1>6, <2>1, <2>2, CtlMoves DEF SaveRegion
  <2>3. CASE ctl' = [ctl EXCEPT ![h].pc = "packages", ![h].region = None]
    <3>1. CtlInv' /\ ctl' \in [Hosts -> Ctl]
      BY ZenonT(30), <1>1, <2>3 DEF CtlInv, Ctl, Before
    <3> QED BY <1>2, <1>6, <2>1, <3>1 DEF SaveRegion
  <2> QED BY <1>6, <2>2, <2>3 DEF SaveRegion
<1>7. CASE ensureRequiredPackages(h)
  <2>1. CtlInv' /\ ctl' \in [Hosts -> Ctl]
    <3>1. ctl' = Goto(h, "dpkg") \/ ctl' = Exit(h)
      BY <1>7 DEF ensureRequiredPackages
    <3>2. "dpkg" \in Onboarding /\ "dpkg" \notin Before \cup {"wait"}
      BY DEF Onboarding, Before
    <3> QED BY <3>1, <3>2, CtlMoves
  <2> QED BY <1>1, <1>2, <1>7, <2>1 DEF ensureRequiredPackages
<1>8. CASE installDebianPackage(h)
  <2>1. disk' \in [Hosts -> Disk]
    BY ZenonT(30), <1>1, <1>8, DiskTypes DEF installDebianPackage
  <2>2. CtlInv' /\ ctl' \in [Hosts -> Ctl]
    BY <1>8, CtlMoves DEF installDebianPackage
  <2> QED BY <1>2, <1>8, <2>1, <2>2 DEF installDebianPackage
<1> QED BY <1>3, <1>4, <1>5, <1>6, <1>7, <1>8 DEF OnboardStep

\* The steps of byohctl deauthorise and decommission.
LEMMA OperationTypes ==
    ASSUME LifecycleTypeOK, CtlInv, NEW h \in Hosts,
           OperationStep(h) \/ runDeauthorise(h) \/ runDecommission(h)
    PROVE  LifecycleTypeOK' /\ CtlInv'
<1>1. /\ ctl \in [Hosts -> Ctl] /\ ctl[h] \in Ctl /\ disk \in [Hosts -> Disk] /\ disk[h] \in Disk
      /\ byohost \in [Hosts -> ByoHost] /\ machine \in [Machines -> Machine] /\ replicas \in Int
  BY DEF LifecycleTypeOK
<1>2. ctl[h].pc \in Before \cup {"wait"} => ctl[h].m \in Machines
  BY DEF CtlInv
\* The parts that a step may change.
<1>3. ASSUME CtlInv', ctl' \in [Hosts -> Ctl], disk' \in [Hosts -> Disk],
             byohost' \in [Hosts -> ByoHost], machine' \in [Machines -> Machine],
             replicas' \in Int, UNCHANGED claim,
             faults' = faults \/ \E kind : Fault(kind),
             agentUp' = agentUp \/ agentUp' = [agentUp EXCEPT ![h] = "down"]
      PROVE  LifecycleTypeOK' /\ CtlInv'
  <2>1. faults' \in 0..MaxFaults
    BY <1>3, FaultTypes
  <2> QED BY <1>3, <2>1 DEF LifecycleTypeOK
<1>4. ASSUME NEW c \in Ctl, c.pc \in Before \cup {"wait"} => c.m \in Machines,
             ctl' = [ctl EXCEPT ![h] = c]
      PROVE  CtlInv' /\ ctl' \in [Hosts -> Ctl]
  BY <1>1, <1>4 DEF CtlInv
<1>5. ASSUME CtlInv', ctl' \in [Hosts -> Ctl], UNCHANGED <<objects, disk, agentUp>>,
             faults' = faults \/ \E kind : Fault(kind)
      PROVE  LifecycleTypeOK' /\ CtlInv'
  BY <1>1, <1>3, <1>5 DEF objects
<1>6. ASSUME NEW op \in {"deauthorise", "decommission"}, PerformHostOperation(h, op)
      PROVE  LifecycleTypeOK' /\ CtlInv'
  <2> DEFINE c == [CtlIdle EXCEPT !.cmd = op, !.pc = "getHost"]
  <2>1. c \in Ctl /\ c.pc = "getHost"
    <3>1. CtlIdle \in Ctl
      BY Zenon, <1>1, CtlTypes
    <3> QED BY ZenonT(30), <3>1, CtlTypes DEF CtlIdle
  <2>2. ctl' = [ctl EXCEPT ![h] = c]
    BY <1>6 DEF PerformHostOperation
  <2> HIDE DEF c
  <2>3. CtlInv' /\ ctl' \in [Hosts -> Ctl]
    BY Zenon, <1>4, <2>1, <2>2 DEF Before
  <2> QED BY Zenon, <1>5, <1>6, <2>3 DEF PerformHostOperation
<1>7. CASE GetByoHostObject(h)
  <2>1. CASE /\ byohost[h].ref # None
             /\ ctl' = [ctl EXCEPT ![h].pc = "getMachine", ![h].m = byohost[h].ref]
    <3> DEFINE c == [ctl[h] EXCEPT !.pc = "getMachine", !.m = byohost[h].ref]
    <3>1. byohost[h].ref \in Machines
      BY <1>1, <2>1 DEF ByoHost, Owner
    <3>2. c \in Ctl /\ c.m = byohost[h].ref /\ ctl' = [ctl EXCEPT ![h] = c]
      <4>1. c \in Ctl
        BY Zenon, <1>1, <3>1, CtlTypes DEF Owner
      <4>2. c.m = byohost[h].ref
        BY <1>1 DEF Ctl
      <4> QED BY Zenon, <1>1, <2>1, <4>1, <4>2
    <3> HIDE DEF c
    <3>3. CtlInv' /\ ctl' \in [Hosts -> Ctl]
      BY Zenon, <1>4, <3>1, <3>2
    <3> QED BY <1>5, <1>7, <3>3 DEF GetByoHostObject
  <2>2. CASE ctl' \in {Continue(h, "delete"), Continue(h, "purge"), End(h)}
    <3>1. {"delete", "purge"} \subseteq Removing \ (Before \cup {"wait"})
      BY DEF Removing, Before
    <3>2. CtlInv' /\ ctl' \in [Hosts -> Ctl]
      BY <2>2, <3>1, CtlMoves
    <3> QED BY <1>5, <1>7, <3>2 DEF GetByoHostObject
  <2> QED BY <1>7, <2>1, <2>2 DEF GetByoHostObject
<1>8. ASSUME NEW from \in {"getMachine", "fresh"}, NEW to \in {"count", "annotate"},
             GetUnstructuredMachineObject(h, from, to)
      PROVE  LifecycleTypeOK' /\ CtlInv'
  <2>1. ctl[h].m \in Machines /\ machine[ctl[h].m] \in Machine
    BY <1>1, <1>2, <1>8 DEF GetUnstructuredMachineObject, Before
  <2>2. CASE ctl' = [ctl EXCEPT ![h].pc = to, ![h].copy = machine[ctl[h].m]]
    <3> DEFINE c == [ctl[h] EXCEPT !.pc = to, !.copy = machine[ctl[h].m]]
    <3>1. c \in Ctl /\ c.m = ctl[h].m /\ ctl' = [ctl EXCEPT ![h] = c]
      <4>1. c \in Ctl
        BY Zenon, <1>1, <2>1, CtlTypes
      <4>2. c.m = ctl[h].m
        BY <1>1 DEF Ctl
      <4> QED BY Zenon, <1>1, <2>2, <4>1, <4>2
    <3> HIDE DEF c
    <3>2. CtlInv' /\ ctl' \in [Hosts -> Ctl]
      BY Zenon, <1>4, <2>1, <3>1
    <3> QED BY <1>5, <1>8, <3>2 DEF GetUnstructuredMachineObject
  <2>3. CASE ctl' = End(h)
    BY <1>5, <1>8, <2>3, CtlMoves DEF GetUnstructuredMachineObject
  <2> QED BY <1>8, <2>2, <2>3 DEF GetUnstructuredMachineObject
<1>9. CASE GetMachineDeploymentReplicaCount(h)
  <2>1. ctl[h].m \in Machines /\ {"fresh", "exclude"} \subseteq Removing
    BY <1>2, <1>9 DEF GetMachineDeploymentReplicaCount, Before, Removing
  <2>2. ctl' \in {Continue(h, "fresh"), Continue(h, "exclude"), End(h)}
    BY <1>9 DEF GetMachineDeploymentReplicaCount
  <2>3. CtlInv' /\ ctl' \in [Hosts -> Ctl]
    BY <2>1, <2>2, CtlMoves
  <2> QED BY <1>5, <1>9, <2>3 DEF GetMachineDeploymentReplicaCount
\* An Update of the Machine.
<1>10. ASSUME NEW new \in Machine, NEW next \in {"fresh", "getDeployment"},
              ctl[h].m \in Machines, UpdateMachine(h, new, next)
       PROVE  LifecycleTypeOK' /\ CtlInv'
  <2>1. ctl' \in {Continue(h, next), End(h)}
    BY <1>10 DEF UpdateMachine
  <2>2. CtlInv' /\ ctl' \in [Hosts -> Ctl]
    <3>1. next \in Removing
      BY <1>10 DEF Removing, Before
    <3> QED BY <1>10, <2>1, <3>1, CtlMoves
  <2>3. machine' \in [Machines -> Machine]
    BY <1>1, <1>10 DEF UpdateMachine
  <2> QED BY <1>1, <1>3, <1>10, <2>2, <2>3 DEF UpdateMachine
<1>11. CASE AnnotateExcludeDrain(h) \/ AnnotateDeleteMachine(h)
  <2>1. ctl[h].m \in Machines
    BY <1>2, <1>11 DEF AnnotateExcludeDrain, AnnotateDeleteMachine, Before
  <2>2. /\ [ctl[h].copy EXCEPT !.excludeDrain = TRUE] \in Machine
        /\ [ctl[h].copy EXCEPT !.deleteMachine = TRUE] \in Machine
    BY Zenon, <1>1 DEF Ctl, Machine
  <2> QED BY <1>10, <1>11, <2>1, <2>2 DEF AnnotateExcludeDrain, AnnotateDeleteMachine
<1>12. CASE GetMachineDeployment(h)
  <2> DEFINE c == [ctl[h] EXCEPT !.pc = "scale", !.count = replicas]
  <2>1. c \in Ctl /\ c.m = ctl[h].m /\ ctl' = [ctl EXCEPT ![h] = c]
    <3>1. c \in Ctl
      BY Zenon, <1>1, CtlTypes
    <3>2. c.m = ctl[h].m
      BY <1>1 DEF Ctl
    <3> QED BY Zenon, <1>1, <1>12, <3>1, <3>2 DEF GetMachineDeployment
  <2> HIDE DEF c
  <2>2. ctl[h].m \in Machines
    BY <1>2, <1>12 DEF GetMachineDeployment, Before
  <2>3. CtlInv' /\ ctl' \in [Hosts -> Ctl]
    BY Zenon, <1>4, <2>1, <2>2
  <2> QED BY <1>5, <1>12, <2>3 DEF GetMachineDeployment
<1>13. CASE ScaleDownMachineDeployment(h)
  <2>1. replicas' \in Int
    BY <1>1, <1>13 DEF ScaleDownMachineDeployment, Ctl
  <2>2. CtlInv' /\ ctl' \in [Hosts -> Ctl]
    <3>1. CASE ctl' = End(h)
      BY <3>1, CtlMoves
    <3>2. CASE ctl' = [ctl EXCEPT ![h].pc = "wait", ![h].count = 0]
      <4> DEFINE c == [ctl[h] EXCEPT !.pc = "wait", !.count = 0]
      <4>1. c \in Ctl /\ c.m = ctl[h].m /\ ctl' = [ctl EXCEPT ![h] = c]
        <5>1. c \in Ctl
          BY Zenon, <1>1, CtlTypes
        <5>2. c.m = ctl[h].m
          BY <1>1 DEF Ctl
        <5> QED BY Zenon, <1>1, <3>2, <5>1, <5>2
      <4> HIDE DEF c
      <4>2. ctl[h].m \in Machines
        BY <1>2, <1>13 DEF ScaleDownMachineDeployment, Before
      <4> QED BY Zenon, <1>4, <4>1, <4>2
    <3> QED BY <1>13, <3>1, <3>2 DEF ScaleDownMachineDeployment
  <2> QED BY <1>1, <1>3, <1>13, <2>1, <2>2 DEF ScaleDownMachineDeployment
<1>14. CASE WaitForMachineRefToBeUnset(h)
  <2>1. ctl' \in {ctl, Continue(h, "delete"), End(h)}
    BY <1>14 DEF WaitForMachineRefToBeUnset
  <2>2. "delete" \in Removing \ (Before \cup {"wait"})
    BY DEF Removing, Before
  <2>3. CtlInv' /\ ctl' \in [Hosts -> Ctl]
    BY <2>1, <2>2, CtlMoves
  <2> QED BY <1>5, <1>14, <2>3 DEF WaitForMachineRefToBeUnset
<1>15. CASE DeleteByoHostObject(h)
  <2>1. ctl' \in {Continue(h, "purge"), End(h)}
    BY <1>15 DEF DeleteByoHostObject
  <2>2. "purge" \in Removing \ (Before \cup {"wait"})
    BY DEF Removing, Before
  <2>3. CtlInv' /\ ctl' \in [Hosts -> Ctl]
    BY <2>1, <2>2, CtlMoves
  <2>4. byohost' \in [Hosts -> ByoHost]
    <3>1. NoHost \in ByoHost
      BY DEF NoHost, ByoHost, Owner
    <3> QED BY <1>1, <1>15, <3>1 DEF DeleteByoHostObject
  <2> QED BY <1>1, <1>3, <1>15, <2>3, <2>4 DEF DeleteByoHostObject
<1>16. CASE PurgeDebianPackage(h)
  <2>1. disk' \in [Hosts -> Disk]
    BY Zenon, <1>1, <1>16, DiskTypes DEF PurgeDebianPackage
  <2>2. CtlInv' /\ ctl' \in [Hosts -> Ctl]
    BY <1>16, CtlMoves DEF PurgeDebianPackage
  <2> QED BY Zenon, <1>1, <1>3, <1>16, <2>1, <2>2 DEF PurgeDebianPackage, objects
<1> QED BY <1>6, <1>7, <1>8, <1>9, <1>11, <1>12, <1>13, <1>14, <1>15, <1>16
        DEF OperationStep, runDeauthorise, runDecommission

\* Every step of every process keeps the types.
LEMMA TypeStep ==
    ASSUME LifecycleTypeOK, CtlInv, [LifecycleNext]_lifecycleVars
    PROVE  LifecycleTypeOK' /\ CtlInv'
<1>1. ASSUME UNCHANGED ctl PROVE CtlInv'
  BY <1>1 DEF CtlInv
<1>2. CASE UNCHANGED lifecycleVars
  BY <1>1, <1>2 DEF lifecycleVars, LifecycleTypeOK
<1>3. ASSUME NEW m \in Machines, DeleteMachine(m) \/ MachineGone(m)
      PROVE  LifecycleTypeOK' /\ CtlInv'
  <2>1. machine' \in [Machines -> Machine]
    BY <1>3 DEF DeleteMachine, MachineGone, LifecycleTypeOK, Machine
  <2> QED BY <1>1, <1>3, <2>1 DEF DeleteMachine, MachineGone, LifecycleTypeOK
<1>4. ASSUME NEW h \in Hosts, NEW m \in Machines, Claim(h, m)
      PROVE  LifecycleTypeOK' /\ CtlInv'
  <2>1. byohost' \in [Hosts -> ByoHost]
    BY SMTT(30), <1>4 DEF Claim, LifecycleTypeOK, ByoHost, Owner
  <2>2. claim' \in [h : Hosts \cup {None}, m : Owner]
    BY <1>4 DEF Claim, Owner
  <2> QED BY <1>1, <1>4, <2>1, <2>2 DEF Claim, LifecycleTypeOK
<1>5. CASE ClaimStatus
  <2>1. byohost' \in [Hosts -> ByoHost]
    <3>1. claim.h \in Hosts /\ claim.m \in Owner /\ byohost[claim.h] \in ByoHost
      BY <1>5 DEF ClaimStatus, LifecycleTypeOK
    <3>2. \A o \in Owner : [byohost[claim.h] EXCEPT !.ref = o] \in ByoHost
      BY <3>1 DEF ByoHost
    <3>3. byohost[claim.h].ref \in Owner
      BY <3>1 DEF ByoHost
    <3> QED BY <1>5, <3>1, <3>2, <3>3 DEF ClaimStatus, LifecycleTypeOK
  <2>2. claim' \in [h : Hosts \cup {None}, m : Owner]
    BY <1>5 DEF ClaimStatus, Owner
  <2> QED BY <1>1, <1>5, <2>1, <2>2 DEF ClaimStatus, LifecycleTypeOK
<1>6. ASSUME NEW h \in Hosts, Register(h) PROVE LifecycleTypeOK' /\ CtlInv'
  <2>1. disk[h].label \in Regions \cup {None} /\ byohost[h] \in ByoHost
    BY DEF LifecycleTypeOK, Disk
  <2>2. [NoHost EXCEPT !.exists = TRUE, !.region = disk[h].label] \in ByoHost
    <3>1. NoHost \in ByoHost
      BY DEF NoHost, ByoHost, Owner
    <3> QED BY Zenon, <2>1, <3>1 DEF ByoHost
  <2>3. byohost' \in [Hosts -> ByoHost]
    BY <1>6, <2>1, <2>2 DEF Register, LifecycleTypeOK
  <2>4. agentUp' \in [Hosts -> {"down", "starting", "up"}]
    BY <1>6 DEF Register, LifecycleTypeOK
  <2>5. faults' \in 0..MaxFaults
    BY <1>6, FaultTypes DEF Register
  <2> QED BY <1>1, <1>6, <2>3, <2>4, <2>5 DEF Register, LifecycleTypeOK
<1>7. ASSUME NEW h \in Hosts, Release(h) PROVE LifecycleTypeOK' /\ CtlInv'
  <2>1. byohost' \in [Hosts -> ByoHost]
    <3>1. byohost' = [byohost EXCEPT ![h] = [byohost[h] EXCEPT !.attached = None, !.ref = None]]
      BY Zenon, <1>7 DEF Release, LifecycleTypeOK
    <3>2. \A b \in ByoHost : [b EXCEPT !.attached = None, !.ref = None] \in ByoHost
      BY Zenon DEF ByoHost, Owner
    <3> QED BY Zenon, <3>1, <3>2 DEF LifecycleTypeOK
  <2> QED BY <1>1, <1>7, <2>1 DEF Release, LifecycleTypeOK
<1>8. ASSUME NEW h \in Hosts, AgentCrash(h) PROVE LifecycleTypeOK' /\ CtlInv'
  <2>1. faults' \in 0..MaxFaults
    BY <1>8, FaultTypes DEF AgentCrash
  <2> QED BY <1>1, <1>8, <2>1 DEF AgentCrash, LifecycleTypeOK, objects
<1> QED BY <1>2, <1>3, <1>4, <1>5, <1>6, <1>7, <1>8, OnboardTypes, OperationTypes
        DEF LifecycleNext

\* Every variable keeps its type, and a command that needs its Machine has one.
THEOREM LifecycleTypes == LifecycleSpec => [](LifecycleTypeOK /\ CtlInv)
<1>1. FleetInit => LifecycleTypeOK /\ CtlInv
  <2> SUFFICES ASSUME FleetInit PROVE LifecycleTypeOK /\ CtlInv
    OBVIOUS
  <2>1. byohost \in [Hosts -> ByoHost]
    BY DEF FleetInit, NoHost, ByoHost, Owner
  <2>2. machine \in [Machines -> Machine]
    BY DEF FleetInit, NewMachine, Machine
  <2>3. replicas \in Int
    BY FleetAssumption, FS_CardinalityType DEF FleetInit
  <2>4. claim \in [h : Hosts \cup {None}, m : Owner] /\ faults \in 0..MaxFaults
    BY FleetAssumption DEF FleetInit, Owner
  <2>5. disk \in [Hosts -> Disk]
    BY DEF FleetInit, NoFiles, Disk
  <2>6. CtlIdle \in Ctl /\ CtlIdle.pc = "idle"
    BY DEF CtlIdle, Ctl, Owner, NewMachine, Machine
  <2>7. ctl \in [Hosts -> Ctl] /\ CtlInv
    BY <2>6 DEF FleetInit, CtlInv, Before
  <2> QED BY <2>1, <2>2, <2>3, <2>4, <2>5, <2>7 DEF FleetInit, LifecycleTypeOK
<1>2. LifecycleTypeOK /\ CtlInv /\ [LifecycleNext]_lifecycleVars => LifecycleTypeOK' /\ CtlInv'
  BY TypeStep
<1> QED BY <1>1, <1>2, PTL DEF LifecycleSpec

(***************************************************************************)
(* The commands and the agent of a host                                    *)
(***************************************************************************)
\* Every step is about one host.
LEMMA LocalSound ==
    ASSUME LifecycleTypeOK, SoundInv, NEW h \in Hosts, NEW b, NEW d, NEW u, NEW c,
           byohost' = [byohost EXCEPT ![h] = b], disk' = [disk EXCEPT ![h] = d],
           agentUp' = [agentUp EXCEPT ![h] = u], ctl' = [ctl EXCEPT ![h] = c],
           Sound(b, d, u, c)
    PROVE  SoundInv'
<1> SUFFICES ASSUME NEW g \in Hosts
             PROVE  Sound(byohost'[g], disk'[g], agentUp'[g], ctl'[g])
  BY DEF SoundInv
<1>1. CASE g = h
  BY <1>1 DEF LifecycleTypeOK
<1>2. CASE g # h
  BY <1>2 DEF LifecycleTypeOK, SoundInv
<1> QED BY <1>1, <1>2

\* The steps of byohctl onboard.
LEMMA OnboardSound ==
    ASSUME LifecycleTypeOK, SoundInv, NEW h \in Hosts,
           OnboardStep(h) \/ \E r \in Asks[h] : runOnboard(h, r)
    PROVE  SoundInv'
<1> DEFINE b == byohost[h]
           d == disk[h]
           u == agentUp[h]
           c == ctl[h]
<1>1. /\ b \in ByoHost /\ d \in Disk /\ c \in Ctl /\ u \in {"down", "starting", "up"}
      /\ Sound(b, d, u, c) /\ byohost' = [byohost EXCEPT ![h] = b]
  <2>1. byohost' = byohost
    BY Zenon DEF OnboardStep, SaveKubeConfig, CheckRegionAvailability, SaveRegion,
           ensureRequiredPackages, installDebianPackage, runOnboard, objects
  <2> QED BY Zenon, <2>1 DEF LifecycleTypeOK, SoundInv
<1>2. /\ disk' = disk => disk' = [disk EXCEPT ![h] = d]
      /\ agentUp' = agentUp => agentUp' = [agentUp EXCEPT ![h] = u]
  BY DEF LifecycleTypeOK
\* A command that ends.
<1>3. ASSUME NEW e, NEW v, Sound(b, e, v, c) PROVE Sound(b, e, v, CtlIdle)
  BY <1>3 DEF Sound, Installed, Usable, Registered, CtlIdle, Onboarding, Removing, Before
<1>4. ASSUME ctl' = Exit(h), disk' = disk, agentUp' = agentUp PROVE SoundInv'
  <2>1. ctl' = [ctl EXCEPT ![h] = CtlIdle]
    BY <1>4 DEF Exit
  <2>2. Sound(b, d, u, CtlIdle)
    BY <1>1, <1>3
  <2> HIDE DEF b, d, u, c
  <2> QED BY Zenon, <1>1, <1>2, <1>4, <2>1, <2>2, LocalSound
<1>5. ASSUME NEW r \in Asks[h], runOnboard(h, r) PROVE SoundInv'
  <2> DEFINE e == [CtlIdle EXCEPT !.cmd = "onboard", !.pc = "save", !.region = r]
  <2>1. /\ ctl' = [ctl EXCEPT ![h] = e] /\ disk' = disk /\ agentUp' = agentUp
        /\ d.unit = "none"
    BY Zenon, <1>5 DEF runOnboard
  <2>2. e.pc = "save"
    BY DEF CtlIdle
  <2> HIDE DEF b, d, u, c, e
  <2>3. Sound(b, d, u, e)
    BY <1>1, <2>1, <2>2 DEF Sound, Installed, Usable, Registered, Onboarding, Removing, Before
  <2> QED BY Zenon, <1>1, <1>2, <2>1, <2>3, LocalSound
\* A step to pc that changes the disk to e, and only there.
<1>6. ASSUME NEW pc, NEW e, disk' = [disk EXCEPT ![h] = e], agentUp' = agentUp,
             ctl' = Goto(h, pc), Sound(b, e, u, [c EXCEPT !.pc = pc])
      PROVE  SoundInv'
  <2>1. ctl' = [ctl EXCEPT ![h] = [c EXCEPT !.pc = pc]]
    BY <1>6 DEF Goto, LifecycleTypeOK
  <2> HIDE DEF b, d, u, c
  <2> QED BY Zenon, <1>1, <1>2, <1>6, <2>1, LocalSound
<1>7. \A pc : [c EXCEPT !.pc = pc].pc = pc /\ [c EXCEPT !.pc = pc].region = c.region
  BY <1>1 DEF Ctl
<1>8. CASE SaveKubeConfig(h)
  <2> DEFINE e == [d EXCEPT !.config = TRUE]
             f == [c EXCEPT !.pc = "region"]
  <2>1. CASE ctl' = Exit(h) /\ disk' = disk
    BY <1>4, <1>8, <2>1 DEF SaveKubeConfig
  <2>2. CASE ctl' = Goto(h, "region") /\ disk' = [disk EXCEPT ![h].config = TRUE]
    <3>1. disk' = [disk EXCEPT ![h] = e] /\ agentUp' = agentUp /\ c.pc = "save"
      BY <1>8, <2>2 DEF SaveKubeConfig, LifecycleTypeOK
    <3>2. /\ e.unit = d.unit /\ e.label = d.label /\ e.config
          /\ f.pc = "region"
      BY <1>1, <1>7 DEF Disk
    <3>3. Sound(b, e, u, f)
      <4> HIDE DEF b, d, u, c, e, f
      <4> QED BY <1>1, <3>1, <3>2
              DEF Sound, Installed, Usable, Registered, Onboarding, Removing, Before
    <3> HIDE DEF b, d, u, e
    <3> QED BY Zenon, <1>6, <2>2, <3>1, <3>3
  <2> QED BY <1>8, <2>1, <2>2 DEF SaveKubeConfig
<1>9. CASE CheckRegionAvailability(h)
  <2> DEFINE e == [d EXCEPT !.config = FALSE, !.region = None]
             f == [c EXCEPT !.pc = "label"]
  <2>0. c.pc = "region" /\ agentUp' = agentUp
    BY <1>9 DEF CheckRegionAvailability
  <2>1. CASE ctl' = Exit(h) /\ disk' = disk
    BY <1>4, <2>0, <2>1
  <2>2. CASE c.region \in Available /\ ctl' = Goto(h, "label") /\ disk' = disk
    <3>1. f.pc = "label" /\ f.region = c.region
      BY <1>7
    <3>2. Sound(b, d, u, f)
      <4> HIDE DEF b, d, u, c, f
      <4> QED BY <1>1, <2>0, <2>2, <3>1
              DEF Sound, Installed, Usable, Registered, Onboarding, Removing, Before
    <3> HIDE DEF b, d, u
    <3> QED BY <1>2, <1>6, <2>0, <2>2, <3>2
  <2>3. CASE ctl' = Exit(h) /\ disk' = [disk EXCEPT ![h].config = FALSE, ![h].region = None]
    <3>1. disk' = [disk EXCEPT ![h] = e] /\ ctl' = [ctl EXCEPT ![h] = CtlIdle]
      BY Zenon, <2>3 DEF LifecycleTypeOK, Exit
    <3>2. e.unit = d.unit /\ e.label = d.label
      BY <1>1 DEF Disk
    <3>3. Sound(b, e, u, CtlIdle)
      <4> HIDE DEF b, d, u, c, e
      <4> QED BY <1>1, <2>0, <3>2
              DEF Sound, Installed, Usable, Registered, CtlIdle, Onboarding, Removing, Before
    <3> HIDE DEF b, d, u, c, e
    <3> QED BY Zenon, <1>1, <1>2, <2>0, <3>1, <3>3, LocalSound
  <2> QED BY Zenon, <1>9, <2>1, <2>2, <2>3 DEF CheckRegionAvailability
<1>10. CASE SaveRegion(h)
  <2> DEFINE e == [d EXCEPT !.region = c.region]
             f == [c EXCEPT !.pc = "packages", !.region = None]
  <2>0. c.pc = "label" /\ agentUp' = agentUp
    BY <1>10 DEF SaveRegion
  <2>1. CASE ctl' = Exit(h) /\ disk' = disk
    BY <1>4, <2>0, <2>1
  <2>2. CASE /\ ctl' = [ctl EXCEPT ![h].pc = "packages", ![h].region = None]
             /\ disk' = [disk EXCEPT ![h].region = ctl[h].region]
    <3>1. disk' = [disk EXCEPT ![h] = e] /\ ctl' = [ctl EXCEPT ![h] = f]
      BY Zenon, <2>2 DEF LifecycleTypeOK
    <3>2. /\ e.unit = d.unit /\ e.label = d.label /\ e.config = d.config
          /\ e.region = c.region /\ f.pc = "packages"
      BY <1>1 DEF Disk, Ctl
    <3>3. Sound(b, e, u, f)
      <4> HIDE DEF b, d, u, c, e, f
      <4> QED BY <1>1, <2>0, <3>2
              DEF Sound, Installed, Usable, Registered, Onboarding, Removing, Before
    <3> HIDE DEF b, d, u, c, e, f
    <3> QED BY Zenon, <1>1, <1>2, <2>0, <3>1, <3>3, LocalSound
  <2> QED BY <1>10, <2>1, <2>2 DEF SaveRegion
<1>11. CASE ensureRequiredPackages(h)
  <2> DEFINE f == [c EXCEPT !.pc = "dpkg"]
  <2>1. c.pc = "packages" /\ disk' = disk /\ agentUp' = agentUp
    BY <1>11 DEF ensureRequiredPackages
  <2>2. CASE ctl' = Exit(h)
    BY <1>4, <2>1, <2>2
  <2>3. CASE ctl' = Goto(h, "dpkg")
    <3>1. f.pc = "dpkg"
      BY <1>7
    <3>2. Sound(b, d, u, f)
      <4> HIDE DEF b, d, u, c, f
      <4> QED BY <1>1, <2>1, <3>1
              DEF Sound, Installed, Usable, Registered, Onboarding, Removing, Before
    <3> HIDE DEF b, d, u
    <3> QED BY <1>2, <1>6, <2>1, <2>3, <3>2
  <2> QED BY <1>11, <2>2, <2>3 DEF ensureRequiredPackages
<1>12. CASE installDebianPackage(h)
  <2> DEFINE e == [d EXCEPT !.unit = "installed", !.label = d.region]
             broken(x) == [d EXCEPT !.unit = x]
  <2>1. c.pc = "dpkg" /\ ctl' = [ctl EXCEPT ![h] = CtlIdle]
    BY <1>12 DEF installDebianPackage, Exit
  \* The host had no package, so it has no agent and no object.
  <2>2. /\ d.unit = "none" /\ u = "down" /\ d.region \in Available
        /\ "prerm" \notin FaultKinds => d.config
        /\ Quiet /\ "read" \notin FaultKinds => ~b.exists
    <3> HIDE DEF b, d, u, c
    <3> QED BY <1>1, <2>1 DEF Sound, Installed, Usable, Registered, Onboarding
  <2>3. CASE /\ disk' = [disk EXCEPT ![h].unit = "installed", ![h].label = disk[h].region]
             /\ agentUp' = [agentUp EXCEPT ![h] = "starting"]
    <3>1. disk' = [disk EXCEPT ![h] = e]
      BY Zenon, <2>3 DEF LifecycleTypeOK
    <3>2. e.unit = "installed" /\ e.label = d.region /\ e.config = d.config
      BY <1>1 DEF Disk
    <3>3. Sound(b, e, "starting", CtlIdle)
      <4> HIDE DEF b, d, u, c, e
      <4> QED BY <2>2, <3>2
              DEF Sound, Installed, Usable, Registered, CtlIdle, Onboarding, Removing, Before
    <3> HIDE DEF b, d, u, c, e
    <3> QED BY Zenon, <1>1, <2>1, <2>3, <3>1, <3>3, LocalSound
  <2>4. ASSUME NEW x \in {"none", "broken"}, disk' = [disk EXCEPT ![h].unit = x],
               agentUp' = agentUp
        PROVE  SoundInv'
    <3>1. disk' = [disk EXCEPT ![h] = broken(x)]
      BY <2>4 DEF LifecycleTypeOK
    <3>2. broken(x).unit = x /\ broken(x).config = d.config
      BY <1>1 DEF Disk
    <3>3. Sound(b, broken(x), u, CtlIdle)
      <4> HIDE DEF b, d, u, c, broken
      <4> QED BY <2>2, <3>2
              DEF Sound, Installed, Usable, Registered, CtlIdle, Onboarding, Removing, Before
    <3> HIDE DEF b, d, u, c, broken
    <3> QED BY Zenon, <1>1, <1>2, <2>1, <2>4, <3>1, <3>3, LocalSound
  <2> QED BY <1>12, <2>3, <2>4 DEF installDebianPackage
<1> QED BY <1>5, <1>8, <1>9, <1>10, <1>11, <1>12 DEF OnboardStep

\* The steps of byohctl deauthorise and decommission.
LEMMA OperationSound ==
    ASSUME LifecycleTypeOK, SoundInv, NEW h \in Hosts,
           OperationStep(h) \/ runDeauthorise(h) \/ runDecommission(h)
    PROVE  SoundInv'
<1> DEFINE b == byohost[h]
           d == disk[h]
           u == agentUp[h]
           c == ctl[h]
<1>1. /\ b \in ByoHost /\ d \in Disk /\ c \in Ctl /\ u \in {"down", "starting", "up"}
      /\ Sound(b, d, u, c)
  BY DEF LifecycleTypeOK, SoundInv
<1>2. /\ byohost' = byohost => byohost' = [byohost EXCEPT ![h] = b]
      /\ disk' = disk => disk' = [disk EXCEPT ![h] = d]
      /\ agentUp' = agentUp => agentUp' = [agentUp EXCEPT ![h] = u]
      /\ ctl' = ctl => ctl' = [ctl EXCEPT ![h] = c]
  BY DEF LifecycleTypeOK
<1>3. ASSUME NEW a, NEW e, NEW v, Sound(a, e, v, c) PROVE Sound(a, e, v, CtlIdle)
  BY <1>3 DEF Sound, Installed, Usable, Registered, CtlIdle, Onboarding, Removing, Before
\* A command that goes on to a request, or ends.
<1>4. ASSUME c.pc \in Removing, byohost' = byohost, disk' = disk, agentUp' = agentUp,
             NEW f, ctl' = [ctl EXCEPT ![h] = f], f.pc \in (Removing \ {"purge"}) \cup {"idle"}
      PROVE  SoundInv'
  <2> HIDE DEF b, d, u, c
  <2>1. Sound(b, d, u, f)
    BY <1>1, <1>4 DEF Sound, Installed, Usable, Registered, Onboarding, Removing, Before
  <2> QED BY Zenon, <1>2, <1>4, <2>1, LocalSound
<1>5. /\ End(h) = [ctl EXCEPT ![h] = CtlIdle] /\ CtlIdle.pc = "idle"
      /\ \A pc : /\ Continue(h, pc) = [ctl EXCEPT ![h] = [c EXCEPT !.pc = pc]]
                 /\ [c EXCEPT !.pc = pc].pc = pc
  BY <1>1 DEF End, Continue, CtlIdle, Ctl, LifecycleTypeOK
<1>0. ASSUME c.pc \in Removing, byohost' = byohost, disk' = disk, agentUp' = agentUp,
             ctl' = End(h)
      PROVE  SoundInv'
  <2>1. ctl' = [ctl EXCEPT ![h] = CtlIdle] /\ CtlIdle.pc \in (Removing \ {"purge"}) \cup {"idle"}
    BY <1>0, <1>5
  <2> HIDE DEF b, d, u, c
  <2> QED BY Zenon, <1>0, <1>4, <2>1
<1>6. ASSUME c.pc \in Removing, byohost' = byohost, disk' = disk, agentUp' = agentUp,
             NEW pc \in Removing \ {"purge"}, ctl' \in {Continue(h, pc), End(h)}
      PROVE  SoundInv'
  <2> DEFINE f == [c EXCEPT !.pc = pc]
  <2>1. CASE ctl' = Continue(h, pc)
    <3>1. ctl' = [ctl EXCEPT ![h] = f] /\ f.pc \in (Removing \ {"purge"}) \cup {"idle"}
      BY <1>5, <1>6, <2>1
    <3> HIDE DEF b, d, u, c, f
    <3> QED BY Zenon, <1>4, <1>6, <3>1
  <2> QED BY <1>0, <1>6, <2>1
<1>7. ASSUME NEW op, PerformHostOperation(h, op) PROVE SoundInv'
  <2> DEFINE f == [CtlIdle EXCEPT !.cmd = op, !.pc = "getHost"]
  <2>1. /\ c.pc = "idle" /\ byohost' = byohost /\ disk' = disk /\ agentUp' = agentUp
        /\ ctl' = [ctl EXCEPT ![h] = f] /\ (Quiet => u = "up" \/ d.unit = "broken")
    BY <1>7 DEF PerformHostOperation, objects
  <2>2. f.pc = "getHost"
    BY DEF CtlIdle
  <2> HIDE DEF b, d, u, c, f
  <2>3. Sound(b, d, u, f)
    BY <1>1, <2>1, <2>2 DEF Sound, Installed, Usable, Registered, Onboarding, Removing, Before
  <2> QED BY Zenon, <1>2, <2>1, <2>3, LocalSound
<1>8. CASE GetByoHostObject(h)
  <2> DEFINE f == [c EXCEPT !.pc = "getMachine", !.m = b.ref]
             g == [c EXCEPT !.pc = "purge"]
  <2>1. c.pc = "getHost" /\ byohost' = byohost /\ disk' = disk /\ agentUp' = agentUp
    BY <1>8 DEF GetByoHostObject, objects
  <2>2. c.pc \in Removing /\ {"getMachine", "delete"} \subseteq Removing \ {"purge"}
    BY <2>1 DEF Removing, Before
  <2>3. CASE ctl' = [ctl EXCEPT ![h].pc = "getMachine", ![h].m = byohost[h].ref]
    <3>1. ctl' = [ctl EXCEPT ![h] = f] /\ f.pc = "getMachine"
      BY Zenon, <1>1, <2>3 DEF LifecycleTypeOK, Ctl
    <3> HIDE DEF b, d, u, c, f
    <3> QED BY Zenon, <1>4, <2>1, <2>2, <3>1
  <2>4. CASE ctl' \in {Continue(h, "delete"), End(h)}
    BY <1>6, <2>1, <2>2, <2>4
  <2>5. CASE ctl' = Continue(h, "purge") /\ (b.exists => "read" \in FaultKinds)
    <3>1. ctl' = [ctl EXCEPT ![h] = g] /\ g.pc = "purge"
      BY <1>5, <2>5
    <3> HIDE DEF b, d, u, c, g
    <3>2. Sound(b, d, u, g)
      BY <1>1, <2>1, <2>5, <3>1
         DEF Sound, Installed, Usable, Registered, Onboarding, Removing, Before
    <3> QED BY Zenon, <1>2, <2>1, <3>1, <3>2, LocalSound
  <2> QED BY <1>8, <2>3, <2>4, <2>5 DEF GetByoHostObject, Fault
<1>9. ASSUME NEW from \in {"getMachine", "fresh"}, NEW to \in {"count", "annotate"},
             GetUnstructuredMachineObject(h, from, to)
      PROVE  SoundInv'
  <2> DEFINE f == [c EXCEPT !.pc = to, !.copy = machine[c.m]]
  <2>1. c.pc = from /\ byohost' = byohost /\ disk' = disk /\ agentUp' = agentUp
    BY <1>9 DEF GetUnstructuredMachineObject, objects
  <2>2. ctl' = [ctl EXCEPT ![h] = f] \/ ctl' = End(h)
    BY Zenon, <1>9 DEF GetUnstructuredMachineObject, LifecycleTypeOK
  <2>3. f.pc = to /\ from \in Removing /\ to \in Removing \ {"purge"}
    BY <1>1, <1>9 DEF Ctl, Removing, Before
  <2> HIDE DEF b, d, u, c, f
  <2>4. CASE ctl' = [ctl EXCEPT ![h] = f]
    BY Zenon, <1>4, <2>1, <2>3, <2>4
  <2> QED BY <1>0, <2>1, <2>2, <2>3, <2>4
<1>10. CASE GetMachineDeploymentReplicaCount(h)
  <2>1. /\ c.pc \in Removing /\ byohost' = byohost /\ disk' = disk /\ agentUp' = agentUp
        /\ {"fresh", "exclude"} \subseteq Removing \ {"purge"}
    BY <1>10 DEF GetMachineDeploymentReplicaCount, objects, Removing, Before
  <2>2. ctl' \in {Continue(h, "fresh"), End(h)} \/ ctl' \in {Continue(h, "exclude"), End(h)}
    BY <1>10 DEF GetMachineDeploymentReplicaCount
  <2> QED BY <1>6, <2>1, <2>2
<1>11. CASE AnnotateExcludeDrain(h) \/ AnnotateDeleteMachine(h)
  <2>1. /\ c.pc \in Removing /\ byohost' = byohost /\ disk' = disk /\ agentUp' = agentUp
        /\ {"fresh", "getDeployment"} \subseteq Removing \ {"purge"}
    BY <1>11 DEF AnnotateExcludeDrain, AnnotateDeleteMachine, UpdateMachine, Removing, Before
  <2>2. \/ ctl' \in {Continue(h, "fresh"), End(h)}
        \/ ctl' \in {Continue(h, "getDeployment"), End(h)}
    BY <1>11 DEF AnnotateExcludeDrain, AnnotateDeleteMachine, UpdateMachine
  <2> QED BY <1>6, <2>1, <2>2
<1>12. CASE GetMachineDeployment(h) \/ ScaleDownMachineDeployment(h)
  <2> DEFINE f == [c EXCEPT !.pc = "scale", !.count = replicas]
             g == [c EXCEPT !.pc = "wait", !.count = 0]
  <2>1. c.pc \in Removing /\ byohost' = byohost /\ disk' = disk /\ agentUp' = agentUp
    BY <1>12 DEF GetMachineDeployment, ScaleDownMachineDeployment, objects, Removing, Before
  <2>2. \/ ctl' = [ctl EXCEPT ![h] = f] \/ ctl' = [ctl EXCEPT ![h] = g] \/ ctl' = End(h)
    BY Zenon, <1>12 DEF GetMachineDeployment, ScaleDownMachineDeployment, LifecycleTypeOK
  <2>3. f.pc = "scale" /\ g.pc = "wait" /\ {"scale", "wait"} \subseteq Removing \ {"purge"}
    BY <1>1 DEF Ctl, Removing, Before
  <2> HIDE DEF b, d, u, c, f, g
  <2>4. CASE ctl' = [ctl EXCEPT ![h] = f]
    BY Zenon, <1>4, <2>1, <2>3, <2>4
  <2>5. CASE ctl' = [ctl EXCEPT ![h] = g]
    BY Zenon, <1>4, <2>1, <2>3, <2>5
  <2> QED BY <1>0, <2>1, <2>2, <2>4, <2>5
<1>13. CASE WaitForMachineRefToBeUnset(h)
  <2>1. /\ c.pc = "wait" /\ byohost' = byohost /\ disk' = disk /\ agentUp' = agentUp
        /\ {"wait", "delete"} \subseteq Removing \ {"purge"}
    BY <1>13 DEF WaitForMachineRefToBeUnset, objects, Removing
  <2>2. ctl' \in {Continue(h, "delete"), End(h)} \/ ctl' = ctl
    BY <1>13 DEF WaitForMachineRefToBeUnset
  <2>3. CASE ctl' = ctl
    <3> HIDE DEF b, d, u, c
    <3> QED BY <1>2, <1>4, <2>1, <2>3
  <2> QED BY <1>6, <2>1, <2>2, <2>3
<1>14. CASE DeleteByoHostObject(h)
  <2> DEFINE g == [c EXCEPT !.pc = "purge"]
  <2>1. c.pc = "delete" /\ disk' = disk /\ agentUp' = agentUp
    BY <1>14 DEF DeleteByoHostObject
  <2>2. CASE byohost' = byohost /\ ctl' = End(h)
    <3>1. c.pc \in Removing /\ "delete" \in Removing \ {"purge"}
      BY <2>1 DEF Removing
    <3> QED BY <1>6, <2>1, <2>2, <3>1
  <2>3. CASE /\ byohost' = [byohost EXCEPT ![h] = NoHost]
             /\ ctl' \in {Continue(h, "purge"), End(h)}
    <3>1. \/ ctl' = [ctl EXCEPT ![h] = g] \/ ctl' = [ctl EXCEPT ![h] = CtlIdle]
      BY <1>5, <2>3
    <3>2. g.pc = "purge" /\ ~NoHost.exists
      BY <1>5 DEF NoHost
    <3>3. Sound(NoHost, d, u, g) /\ Sound(NoHost, d, u, CtlIdle)
      <4> HIDE DEF b, d, u, c, g
      <4>1. Sound(NoHost, d, u, g)
        BY <1>1, <2>1, <3>2
           DEF Sound, Installed, Usable, Registered, Onboarding, Removing, Before
      <4>2. Sound(NoHost, d, u, CtlIdle)
        BY <1>1, <1>5, <2>1, <3>2
           DEF Sound, Installed, Usable, Registered, Onboarding, Removing, Before
      <4> QED BY Zenon, <4>1, <4>2
    <3> HIDE DEF b, d, u, c, g
    <3> QED BY Zenon, <1>2, <2>1, <2>3, <3>1, <3>3, LocalSound
  <2> QED BY <1>14, <2>2, <2>3 DEF DeleteByoHostObject
<1>15. CASE PurgeDebianPackage(h)
  <2> DEFINE e == [d EXCEPT !.config = FALSE, !.region = None]
  <2>1. c.pc = "purge" /\ byohost' = byohost /\ ctl' = [ctl EXCEPT ![h] = CtlIdle]
    BY <1>15 DEF PurgeDebianPackage, End, objects
  <2>2. Quiet /\ "read" \notin FaultKinds => ~b.exists
    <3> HIDE DEF b, d, u, c
    <3> QED BY <1>1, <2>1 DEF Sound, Registered
  <2>3. CASE disk' = disk /\ agentUp' = agentUp
    <3>1. c.pc \in Removing
      BY <2>1 DEF Removing
    <3> HIDE DEF b, d, u, c
    <3> QED BY <1>0, <1>5, <2>1, <2>3, <3>1
  <2>4. CASE disk' = [disk EXCEPT ![h] = NoFiles] /\ agentUp' = [agentUp EXCEPT ![h] = "down"]
    <3> HIDE DEF b, d, u, c
    <3>1. Sound(b, NoFiles, "down", CtlIdle)
      BY <1>5, <2>2
         DEF NoFiles, Sound, Installed, Usable, Registered, Onboarding, Removing, Before
    <3> QED BY Zenon, <1>2, <2>1, <2>4, <3>1, LocalSound
  <2>5. CASE /\ "prerm" \in FaultKinds
             /\ disk' = [disk EXCEPT ![h].config = FALSE, ![h].region = None]
             /\ agentUp' = [agentUp EXCEPT ![h] = "down"]
    <3>1. disk' = [disk EXCEPT ![h] = e]
      BY Zenon, <2>5 DEF LifecycleTypeOK
    <3> HIDE DEF b, d, u, c, e
    <3>2. Sound(b, e, "down", CtlIdle)
      BY <1>5, <2>2, <2>5 DEF Sound, Installed, Registered, Onboarding, Removing, Before
    <3> QED BY Zenon, <1>2, <2>1, <2>5, <3>1, <3>2, LocalSound
  <2> QED BY Zenon, <1>15, <2>3, <2>4, <2>5 DEF PurgeDebianPackage, Fault
<1> QED BY <1>7, <1>8, <1>9, <1>10, <1>11, <1>12, <1>13, <1>14, <1>15
        DEF OperationStep, runDeauthorise, runDecommission

\* The agents, the manager and Cluster API.
LEMMA OtherSound ==
    ASSUME LifecycleTypeOK, SoundInv,
           \/ \E h \in Hosts : Register(h) \/ Release(h) \/ AgentCrash(h)
           \/ \E h \in Hosts, m \in Machines : Claim(h, m)
           \/ ClaimStatus
    PROVE  SoundInv'
\* Who owns a host does not matter.
<1>1. ASSUME NEW h \in Hosts, NEW b, byohost' = [byohost EXCEPT ![h] = b],
             b.exists = byohost[h].exists, b.region = byohost[h].region,
             disk' = disk, agentUp' = agentUp, ctl' = ctl
      PROVE  SoundInv'
  <2> DEFINE d == disk[h]
             u == agentUp[h]
             c == ctl[h]
  <2>1. Sound(b, d, u, c)
    BY <1>1 DEF SoundInv, Sound, Registered
  <2>2. /\ disk' = [disk EXCEPT ![h] = d] /\ agentUp' = [agentUp EXCEPT ![h] = u]
        /\ ctl' = [ctl EXCEPT ![h] = c]
    BY <1>1 DEF LifecycleTypeOK
  <2> HIDE DEF d, u, c
  <2> QED BY Zenon, <1>1, <2>1, <2>2, LocalSound
<1>2. ASSUME NEW h \in Hosts, Register(h) PROVE SoundInv'
  <2> DEFINE d == disk[h]
             c == ctl[h]
             b == IF byohost[h].exists THEN byohost[h]
                  ELSE [NoHost EXCEPT !.exists = TRUE, !.region = d.label]
  <2>1. disk' = [disk EXCEPT ![h] = d] /\ ctl' = [ctl EXCEPT ![h] = c]
    BY ZenonT(30), <1>2 DEF Register, LifecycleTypeOK
  <2>2. agentUp[h] = "starting"
    BY ZenonT(30), <1>2 DEF Register
  <2>3. CASE UNCHANGED <<byohost, agentUp>>
    BY Zenon, <1>2, <2>3 DEF Register, SoundInv
  <2>4. CASE byohost' = [byohost EXCEPT ![h] = b] /\ agentUp' = [agentUp EXCEPT ![h] = "up"]
    <3>1. b.exists = TRUE /\ b.region = IF byohost[h].exists THEN byohost[h].region ELSE d.label
      BY Zenon DEF NoHost, LifecycleTypeOK, ByoHost
    <3>2. Sound(byohost[h], d, "starting", c)
      BY <2>2 DEF SoundInv
    <3> HIDE DEF b, c, d
    <3>3. Sound(b, d, "up", c)
      BY <3>1, <3>2 DEF Sound, Installed, Usable, Registered, Removing
    <3> QED BY ZenonT(30), <2>1, <2>4, <3>3, LocalSound
  <2>5. \/ UNCHANGED <<byohost, agentUp>>
        \/ byohost' = [byohost EXCEPT ![h] = b] /\ agentUp' = [agentUp EXCEPT ![h] = "up"]
    BY Zenon, <1>2 DEF Register
  <2> QED BY Zenon, <2>3, <2>4, <2>5
<1>3. ASSUME NEW h \in Hosts, Release(h) PROVE SoundInv'
  <2> DEFINE b == [byohost[h] EXCEPT !.attached = None, !.ref = None]
  <2>1. byohost' = [byohost EXCEPT ![h] = b]
    BY Zenon, <1>3 DEF Release, LifecycleTypeOK
  <2>2. b.exists = byohost[h].exists /\ b.region = byohost[h].region
    BY DEF LifecycleTypeOK, ByoHost
  <2> HIDE DEF b
  <2> QED BY Zenon, <1>1, <1>3, <2>1, <2>2 DEF Release
<1>4. ASSUME NEW h \in Hosts, AgentCrash(h) PROVE SoundInv'
  <2> DEFINE b == byohost[h]
             d == disk[h]
             c == ctl[h]
  <2>1. /\ disk' = [disk EXCEPT ![h] = d] /\ ctl' = [ctl EXCEPT ![h] = c]
        /\ byohost' = [byohost EXCEPT ![h] = b] /\ agentUp' = [agentUp EXCEPT ![h] = "starting"]
    BY Zenon, <1>4 DEF AgentCrash, LifecycleTypeOK, objects
  <2>2. Sound(b, d, "up", c) /\ (Quiet => c.pc = "idle")
    BY <1>4 DEF AgentCrash, SoundInv
  <2> HIDE DEF b, c, d
  <2>3. Sound(b, d, "starting", c)
    BY <2>2 DEF Sound, Installed, Usable, Registered, Removing, Before
  <2> QED BY Zenon, <2>1, <2>3, LocalSound
<1>5. ASSUME NEW h \in Hosts, NEW m \in Machines, Claim(h, m) PROVE SoundInv'
  <2> DEFINE b == [byohost[h] EXCEPT !.attached = m]
  <2>1. byohost' = [byohost EXCEPT ![h] = b]
    BY <1>5 DEF Claim, LifecycleTypeOK
  <2>2. b.exists = byohost[h].exists /\ b.region = byohost[h].region
    BY DEF LifecycleTypeOK, ByoHost
  <2> HIDE DEF b
  <2> QED BY Zenon, <1>1, <1>5, <2>1, <2>2 DEF Claim
<1>6. CASE ClaimStatus
  <2> DEFINE h == claim.h
             b == [byohost[h] EXCEPT !.ref = IF byohost[h].exists THEN claim.m ELSE @]
  <2>1. h \in Hosts
    BY <1>6 DEF ClaimStatus, LifecycleTypeOK
  <2>2. byohost' = [byohost EXCEPT ![h] = b]
    BY <1>6, <2>1 DEF ClaimStatus, LifecycleTypeOK
  <2>3. b.exists = byohost[h].exists /\ b.region = byohost[h].region
    BY <2>1 DEF LifecycleTypeOK, ByoHost
  <2> HIDE DEF b, h
  <2> QED BY Zenon, <1>1, <1>6, <2>1, <2>2, <2>3 DEF ClaimStatus
<1> QED BY <1>2, <1>3, <1>4, <1>5, <1>6

LEMMA SoundStep ==
    ASSUME LifecycleTypeOK, SoundInv, [LifecycleNext]_lifecycleVars
    PROVE  SoundInv'
<1>1. CASE UNCHANGED <<byohost, disk, agentUp, ctl>>
  BY <1>1 DEF SoundInv
<1>2. ASSUME NEW m \in Machines, DeleteMachine(m) \/ MachineGone(m) PROVE SoundInv'
  BY <1>1, <1>2 DEF DeleteMachine, MachineGone
<1>3. CASE UNCHANGED lifecycleVars
  BY <1>1, <1>3 DEF lifecycleVars
<1> QED BY <1>2, <1>3, OnboardSound, OperationSound, OtherSound DEF LifecycleNext

\* The phases of a host agree: what is on its disk, its agent, its ByoHost and
\* the command that runs on it (byohctl onboard, deauthorise and decommission).
THEOREM SoundInvariant == LifecycleSpec => []SoundInv
<1>1. FleetInit => SoundInv
  BY DEF FleetInit, SoundInv, Sound, Installed, Usable, Registered, NoHost, NoFiles, CtlIdle,
         Onboarding, Removing, Before
<1>2. LifecycleTypeOK /\ SoundInv /\ [LifecycleNext]_lifecycleVars => SoundInv'
  BY SoundStep
<1> QED BY <1>1, <1>2, LifecycleTypes, PTL DEF LifecycleSpec

\* A host without the agent package has no ByoHost: the object is deleted, then
\* the package purged (host_operations.go), and no agent registers in between
\* unless it restarts or the tool takes a failed read for a missing object.
THEOREM NoGhost ==
    ASSUME Quiet, "read" \notin FaultKinds
    PROVE  LifecycleSpec => []NoGhostHost
<1>1. SoundInv => NoGhostHost
  BY DEF SoundInv, Sound, Registered, NoGhostHost
<1> QED BY <1>1, SoundInvariant, PTL

\* A host that onboard refuses can be decommissioned: its kubeconfig is there,
\* if the before-remove script of the package runs to its end.
THEOREM ToolStaysUsable ==
    ASSUME "prerm" \notin FaultKinds
    PROVE  LifecycleSpec => []ToolUsable
<1>1. SoundInv => ToolUsable
  BY DEF SoundInv, Sound, Usable, ToolUsable
<1> QED BY <1>1, SoundInvariant, PTL

\* A registered host carries the region of its last onboarding, one of the
\* tenant's: no object of an earlier life is left for Register to find.
THEOREM RegionKept ==
    ASSUME Quiet, "read" \notin FaultKinds
    PROVE  LifecycleSpec => []RegionHonoured
<1>1. SoundInv => RegionHonoured
  BY DEF SoundInv, Sound, Registered, RegionHonoured
<1> QED BY <1>1, SoundInvariant, PTL

(***************************************************************************)
(* Who is scaled down                                                      *)
(***************************************************************************)
LEMMA MarkedFinite == IsFiniteSet(Marked) /\ IsFiniteSet(Marked')
<1>1. Marked \in SUBSET Machines /\ Marked' \in SUBSET Machines
  BY DEF Marked
<1> QED BY Zenon, <1>1, FleetAssumption, FS_Subset

\* A step that spends no scale-down and gives none back.
LEMMA SpentKept ==
    ASSUME LifecycleTypeOK, SpentInv, replicas' = replicas, Marked \subseteq Marked',
           Marked \cap Unspent' \subseteq Unspent
    PROVE  SpentInv'
<1> DEFINE S == Marked \ Unspent
           T == Marked' \ Unspent'
<1>1. S \in SUBSET T /\ T \in SUBSET Marked'
  OBVIOUS
<1>2. IsFiniteSet(T)
  BY <1>1, MarkedFinite, FS_Subset
<1>3. Cardinality(S) <= Cardinality(T) /\ IsFiniteSet(S)
  BY <1>1, <1>2, FS_Subset
<1>4. Cardinality(S) \in Nat /\ Cardinality(T) \in Nat /\ Cardinality(Machines) \in Nat
  BY <1>2, <1>3, FS_CardinalityType, FleetAssumption
<1>5. replicas \in Int /\ Cardinality(Machines) - replicas <= Cardinality(S)
  BY DEF LifecycleTypeOK, SpentInv
<1>6. SpentInv' <=> Cardinality(Machines) - replicas <= Cardinality(T)
  BY DEF SpentInv
<1> HIDE DEF S, T
<1> QED BY <1>3, <1>4, <1>5, <1>6

\* A step of a command that leaves the hosts alone, and of the Machines all
\* that matters here.
LEMMA ControlScale ==
    ASSUME LifecycleTypeOK, HoldInv, ScaleInv, NEW h \in Hosts, NEW f,
           byohost' = byohost, claim' = claim, replicas' = replicas,
           Marked' = Marked, Live' = Live, ctl' = [ctl EXCEPT ![h] = f],
           f.pc \in Before \cup {"wait"}
             => \/ ctl[h].pc = "getHost" /\ f.pc = "getMachine" /\ f.m = byohost[h].ref
                \/ ctl[h].pc \in Before \cup {"wait"} /\ f.m = ctl[h].m,
           f.pc \in {"getDeployment", "scale"} => f.m \in Marked,
           ctl[h].pc = "wait" => f = ctl[h] \/ (byohost[h].ref = None /\ f.pc \notin Before)
    PROVE  ScaleInv'
<1>1. \A g \in Hosts : ctl'[g] = IF g = h THEN f ELSE ctl[g]
  BY DEF LifecycleTypeOK
<1>2. None \notin Machines
  BY FleetAssumption
<1>3. ASSUME NEW g \in Hosts, NEW m \in Machines, Uses(g, m)' PROVE Uses(g, m)
  <2>1. byohost[g].ref = m => byohost[g].attached = m
    BY Zenon, <1>2 DEF HoldInv
  <2> QED BY Zenon, <1>1, <1>3, <2>1 DEF Uses
<1>4. Unspent' \subseteq Unspent
  <2> SUFFICES ASSUME NEW m \in Machines, NEW g \in Hosts, MayScale(g, m)' PROVE MayScale(g, m)
    BY DEF Unspent
  <2> QED BY Zenon, <1>1, <1>2 DEF MayScale, Before
<1>5. SpentInv'
  BY Zenon, <1>4, SpentKept DEF ScaleInv
<1>6. OwnInv'
  <2>1. \A m \in Machines, g, k \in Hosts : Uses(g, m)' /\ Uses(k, m)' => g = k
    BY <1>3 DEF ScaleInv, OwnInv
  <2>2. ASSUME NEW g \in Hosts, ctl'[g].pc \in Before \cup {"wait"}, ctl'[g].m \in Live
        PROVE  byohost[g].ref = ctl'[g].m
    BY <1>1, <2>2 DEF ScaleInv, OwnInv
  <2>3. \A g \in Hosts : ctl'[g].pc \in {"getDeployment", "scale"} => ctl'[g].m \in Marked
    BY <1>1 DEF ScaleInv, OwnInv
  <2> QED BY ZenonT(30), <2>1, <2>2, <2>3 DEF ScaleInv, OwnInv
<1> QED BY <1>5, <1>6 DEF ScaleInv

\* A host is free again, or its object changes in what does not matter here:
\* Release, DeleteByoHostObject and Register.
LEMMA FreeScale ==
    ASSUME LifecycleTypeOK, HoldInv, ScaleInv, NEW h \in Hosts, NEW b,
           byohost' = [byohost EXCEPT ![h] = b],
           \/ b.ref = None /\ b.attached = None /\ byohost[h].ref \notin Live
           \/ b.ref = byohost[h].ref /\ b.attached = byohost[h].attached,
           claim' = claim, replicas' = replicas, machine' = machine,
           \A g \in Hosts : \/ ctl'[g] = ctl[g]
                            \/ /\ ctl'[g].pc \notin Before \cup {"wait"}
                               /\ ctl[g].pc \notin Before \cup {"wait"}
    PROVE  ScaleInv'
<1>1. \A g \in Hosts : byohost'[g] = IF g = h THEN b ELSE byohost[g]
  BY DEF LifecycleTypeOK
<1>2. None \notin Machines /\ Live \subseteq Machines
  BY FleetAssumption DEF Live
<1>3. Marked' = Marked /\ Live' = Live
  BY DEF Marked, Live
<1>4. ASSUME NEW g \in Hosts, NEW m \in Machines, Uses(g, m)' PROVE Uses(g, m)
  BY <1>1, <1>2, <1>4 DEF Uses
<1>5. Unspent' \subseteq Unspent
  <2> SUFFICES ASSUME NEW m \in Machines, NEW g \in Hosts, MayScale(g, m)' PROVE MayScale(g, m)
    BY DEF Unspent
  <2> QED BY <1>1, <1>2 DEF MayScale
<1>6. SpentInv'
  BY <1>3, <1>5, SpentKept DEF ScaleInv
<1>7. OwnInv'
  <2>1. \A m \in Machines, g, k \in Hosts : Uses(g, m)' /\ Uses(k, m)' => g = k
    BY <1>4 DEF ScaleInv, OwnInv
  <2>2. ASSUME NEW g \in Hosts, ctl'[g].pc \in Before \cup {"wait"}, ctl'[g].m \in Live
        PROVE  byohost'[g].ref = ctl'[g].m
    BY SMTT(30), <1>1, <1>2, <2>2 DEF ScaleInv, OwnInv
  <2>3. \A g \in Hosts : ctl'[g].pc \in {"getDeployment", "scale"} => ctl'[g].m \in Marked
    BY DEF ScaleInv, OwnInv, Before
  <2>4. ASSUME NEW m \in Marked \cap Live PROVE \E g \in Hosts : byohost'[g].ref = m
    <3>1. PICK g \in Hosts : byohost[g].ref = m
      BY <2>4 DEF ScaleInv, OwnInv
    <3> QED BY <1>1, <2>4, <3>1
  <2> QED BY Zenon, <1>3, <2>1, <2>2, <2>3, <2>4 DEF ScaleInv, OwnInv
<1> QED BY Zenon, <1>6, <1>7 DEF ScaleInv

\* attachByoHost labels a free host for a Machine that no command has marked.
LEMMA ClaimScale ==
    ASSUME LifecycleTypeOK, HoldInv, ScaleInv, NEW h \in Hosts, NEW n \in Machines, Claim(h, n)
    PROVE  ScaleInv'
<1> DEFINE b == [byohost[h] EXCEPT !.attached = n]
<1>1. /\ b.attached = n /\ b.ref = byohost[h].ref
      /\ \A g \in Hosts : byohost'[g] = IF g = h THEN b ELSE byohost[g]
  BY DEF Claim, LifecycleTypeOK, ByoHost
<1> HIDE DEF b
<1>2. None \notin Machines /\ None \notin Hosts
  BY FleetAssumption
<1>3. Marked' = Marked /\ Live' = Live
  BY DEF Marked, Live, Claim
<1>4. /\ claim.h = None /\ claim'.h = h /\ claim'.m = n /\ n \in Live /\ ctl' = ctl
      /\ byohost[h].attached = None /\ \A g \in Hosts : byohost[g].attached # n
      /\ replicas' = replicas
  BY Zenon DEF Claim
<1>5. \A g \in Hosts : byohost'[g].ref = byohost[g].ref /\ byohost[g].ref # n
  BY <1>1, <1>2, <1>4 DEF HoldInv
<1>6. ASSUME NEW g \in Hosts, NEW m \in Machines, Uses(g, m)' PROVE IF m = n THEN g = h ELSE Uses(g, m)
  <2>1. ctl[g].pc \in Before \cup {"wait"} => ctl[g].m # n
    BY <1>4, <1>5 DEF ScaleInv, OwnInv
  <2> QED BY Zenon, <1>1, <1>2, <1>4, <1>6, <2>1 DEF Uses
<1>7. n \notin Marked
  BY <1>4, <1>5 DEF ScaleInv, OwnInv
<1>8. Unspent' = Unspent
  BY <1>4, <1>5 DEF Unspent, MayScale
<1>9. SpentInv'
  BY Zenon, <1>3, <1>4, <1>8, SpentKept DEF ScaleInv
<1>10. OwnInv'
  <2>1. \A m \in Machines, g, k \in Hosts : Uses(g, m)' /\ Uses(k, m)' => g = k
    BY <1>6 DEF ScaleInv, OwnInv
  <2> QED BY SMTT(30), <1>3, <1>4, <1>5, <1>7, <2>1 DEF ScaleInv, OwnInv
<1> QED BY <1>9, <1>10 DEF ScaleInv

\* attachByoHost sets MachineRef.
LEMMA ClaimStatusScale ==
    ASSUME LifecycleTypeOK, HoldInv, ScaleInv, ClaimStatus
    PROVE  ScaleInv'
<1> DEFINE h == claim.h
           n == claim.m
           b == [byohost[h] EXCEPT !.ref = IF byohost[h].exists THEN n ELSE @]
<1>1. h \in Hosts /\ n \in Machines /\ n \notin Marked
  BY DEF ClaimStatus, LifecycleTypeOK, ScaleInv, OwnInv
<1>2. /\ b.attached = byohost[h].attached
      /\ b.ref = byohost[h].ref \/ b.ref = n
      /\ \A g \in Hosts : byohost'[g] = IF g = h THEN b ELSE byohost[g]
  BY <1>1 DEF ClaimStatus, LifecycleTypeOK, ByoHost
<1>3. byohost[h].ref = None
  BY <1>1, FleetAssumption DEF HoldInv, NoHost
<1>4. None \notin Machines /\ None \notin Hosts /\ Live \subseteq Machines
  BY FleetAssumption DEF Live
<1>5. Marked' = Marked /\ Live' = Live
  BY DEF Marked, Live, ClaimStatus
<1>6. claim'.h = None /\ ctl' = ctl /\ replicas' = replicas
  BY DEF ClaimStatus
<1> HIDE DEF b, h, n
<1>7. ASSUME NEW g \in Hosts
      PROVE  byohost'[g].ref = byohost[g].ref \/ (g = h /\ byohost'[g].ref = n)
  <2>1. CASE g = h
    BY <1>2, <2>1
  <2>2. CASE g # h
    BY <1>2, <2>2
  <2> QED BY <2>1, <2>2
<1>8. ASSUME NEW g \in Hosts, NEW m \in Machines, Uses(g, m)' PROVE Uses(g, m)
  <2>1. byohost'[g].attached = byohost[g].attached
    BY <1>2
  <2> QED BY <1>4, <1>6, <1>8, <2>1 DEF Uses
<1>9. Marked \cap Unspent' \subseteq Unspent
  <2> SUFFICES ASSUME NEW m \in Marked, m \in Machines, NEW g \in Hosts, MayScale(g, m)'
               PROVE  MayScale(g, m)
    BY DEF Unspent
  <2> QED BY <1>1, <1>6, <1>7 DEF MayScale
<1>10. SpentInv'
  BY Zenon, <1>5, <1>6, <1>9, SpentKept DEF ScaleInv
<1>11. OwnInv'
  <2>1. \A m \in Machines, g, k \in Hosts : Uses(g, m)' /\ Uses(k, m)' => g = k
    BY <1>8 DEF ScaleInv, OwnInv
  <2>2. ASSUME NEW g \in Hosts, ctl[g].pc \in Before \cup {"wait"}, ctl[g].m \in Live
        PROVE  byohost'[g].ref = ctl[g].m
    <3>1. byohost[g].ref = ctl[g].m /\ ctl[g].m # None
      BY <1>4, <2>2 DEF ScaleInv, OwnInv
    <3> QED BY Zenon, <1>3, <1>7, <3>1
  <2>3. ASSUME NEW m \in Marked \cap Live PROVE \E g \in Hosts : byohost'[g].ref = m
    <3>1. PICK g \in Hosts : byohost[g].ref = m
      BY <2>3 DEF ScaleInv, OwnInv
    <3> QED BY Zenon, <1>3, <1>4, <1>7, <2>3, <3>1
  <2> QED BY <1>5, <1>6, <2>1, <2>2, <2>3 DEF ScaleInv, OwnInv
<1> QED BY <1>10, <1>11 DEF ScaleInv

\* AnnotateMachineObject marks the Machine of the command.
LEMMA MarkScale ==
    ASSUME LifecycleTypeOK, CtlInv, HoldInv, ScaleInv, NEW h \in Hosts, ctl[h].pc = "annotate",
           machine[ctl[h].m] = ctl[h].copy,
           machine' = [machine EXCEPT ![ctl[h].m] = [ctl[h].copy EXCEPT !.deleteMachine = TRUE]],
           ctl' = Continue(h, "getDeployment"), UNCHANGED <<byohost, claim, replicas>>
    PROVE  ScaleInv'
<1> DEFINE n == ctl[h].m
           f == [ctl[h] EXCEPT !.pc = "getDeployment"]
<1>1. n \in Machines
  BY DEF CtlInv, Before
<1>2. /\ f.pc = "getDeployment" /\ f.m = n
      /\ \A g \in Hosts : ctl'[g] = IF g = h THEN f ELSE ctl[g]
  BY DEF LifecycleTypeOK, Ctl, Continue
<1>3. Marked' = Marked \cup {n} /\ Live' = Live
  BY <1>1 DEF Marked, Live, LifecycleTypeOK, Machine
<1>4. None \notin Machines /\ None \notin Hosts
  BY FleetAssumption
<1>5. ctl[h].pc \in Before /\ n = ctl[h].m
  BY DEF Before
<1> HIDE DEF n, f
<1>6. ASSUME NEW g \in Hosts, NEW m \in Machines PROVE Uses(g, m)' <=> Uses(g, m)
  BY <1>2, <1>5 DEF Uses, Before
<1>7. Unspent' = Unspent
  <2> SUFFICES ASSUME NEW m \in Machines, NEW g \in Hosts
               PROVE  MayScale(g, m)' <=> MayScale(g, m)
    BY DEF Unspent
  <2> QED BY <1>2, <1>5 DEF MayScale, Before
<1>8. SpentInv'
  BY <1>3, <1>7, SpentKept DEF ScaleInv
<1>9. OwnInv'
  <2>1. \A m \in Machines, g, k \in Hosts : Uses(g, m)' /\ Uses(k, m)' => g = k
    BY <1>6 DEF ScaleInv, OwnInv
  <2>2. ASSUME NEW g \in Hosts, ctl'[g].pc \in Before \cup {"wait"}, ctl'[g].m \in Live
        PROVE  byohost[g].ref = ctl'[g].m
    BY <1>2, <1>5, <2>2 DEF ScaleInv, OwnInv
  <2>3. \A g \in Hosts : ctl'[g].pc \in {"getDeployment", "scale"} => ctl'[g].m \in Marked'
    BY <1>2, <1>3 DEF ScaleInv, OwnInv
  <2>4. ASSUME NEW m \in Marked' \cap Live PROVE \E g \in Hosts : byohost[g].ref = m
    <3>1. CASE m = n
      BY <1>5, <2>4, <3>1 DEF ScaleInv, OwnInv
    <3> QED BY <1>3, <2>4, <3>1 DEF ScaleInv, OwnInv
  <2>5. ASSUME claim.h # None, claim.m = n PROVE n \in Marked
    <3>1. claim.h \in Hosts
      BY <2>5 DEF LifecycleTypeOK
    <3>2. Uses(claim.h, n) /\ Uses(h, n)
      BY <1>5, <2>5 DEF Uses
    <3>3. claim.h = h
      BY <1>1, <3>1, <3>2 DEF ScaleInv, OwnInv
    <3>4. byohost[h].ref = None
      BY <2>5, <3>3 DEF HoldInv, NoHost
    <3>5. n \notin Live
      BY <1>1, <1>4, <1>5, <3>4 DEF ScaleInv, OwnInv
    <3> QED BY <1>1, <3>5 DEF ScaleInv, OwnInv
  <2> QED BY <1>3, <2>1, <2>2, <2>3, <2>4, <2>5 DEF ScaleInv, OwnInv
<1> QED BY <1>8, <1>9 DEF ScaleInv

\* ScaleDownMachineDeployment spends the mark of the command's Machine.
LEMMA SpendScale ==
    ASSUME LifecycleTypeOK, CtlInv, HoldInv, ScaleInv, NEW h \in Hosts, ctl[h].pc = "scale",
           replicas = ctl[h].count, replicas' = ctl[h].count - 1,
           ctl' = [ctl EXCEPT ![h].pc = "wait", ![h].count = 0],
           UNCHANGED <<byohost, claim, machine>>
    PROVE  ScaleInv'
<1> DEFINE n == ctl[h].m
           f == [ctl[h] EXCEPT !.pc = "wait", !.count = 0]
<1>1. n \in Machines /\ n \in Marked
  BY DEF CtlInv, Before, ScaleInv, OwnInv
<1>2. /\ f.pc = "wait" /\ f.m = n
      /\ \A g \in Hosts : ctl'[g] = IF g = h THEN f ELSE ctl[g]
  BY DEF LifecycleTypeOK, Ctl
<1>3. Marked' = Marked /\ Live' = Live /\ replicas \in Int /\ replicas' = replicas - 1
  BY DEF Marked, Live, LifecycleTypeOK
<1>4. None \notin Machines
  BY FleetAssumption
<1>5. ctl[h].pc \in Before /\ n = ctl[h].m
  BY DEF Before
<1> HIDE DEF n, f
<1>6. ASSUME NEW g \in Hosts, NEW m \in Machines PROVE Uses(g, m)' <=> Uses(g, m)
  BY Zenon, <1>2, <1>5 DEF Uses
<1>7. OwnInv'
  <2>1. \A m \in Machines, g, k \in Hosts : Uses(g, m)' /\ Uses(k, m)' => g = k
    BY <1>6 DEF ScaleInv, OwnInv
  <2>2. ASSUME NEW g \in Hosts, ctl'[g].pc \in Before \cup {"wait"}, ctl'[g].m \in Live
        PROVE  byohost[g].ref = ctl'[g].m
    <3>1. ctl[g].pc \in Before \cup {"wait"} /\ ctl[g].m = ctl'[g].m
      <4>1. CASE g = h
        <5>1. ctl'[g] = f
          BY Zenon, <1>2, <4>1
        <5> QED BY <1>2, <1>5, <4>1, <5>1
      <4>2. CASE g # h
        <5>1. ctl'[g] = ctl[g]
          BY Zenon, <1>2, <4>2
        <5> QED BY Zenon, <2>2, <5>1
      <4> QED BY <4>1, <4>2
    <3> QED BY <2>2, <3>1 DEF ScaleInv, OwnInv
  <2>3. ASSUME NEW g \in Hosts, ctl'[g].pc \in {"getDeployment", "scale"}
        PROVE  ctl'[g].m \in Marked
    <3>1. CASE g = h
      <4>1. ctl'[g] = f
        BY Zenon, <1>2, <3>1
      <4> QED BY <1>2, <2>3, <4>1
    <3>2. CASE g # h
      <4>1. ctl'[g] = ctl[g]
        BY Zenon, <1>2, <3>2
      <4> QED BY <2>3, <4>1 DEF ScaleInv, OwnInv
    <3> QED BY <3>1, <3>2
  <2> QED BY ZenonT(30), <1>3, <2>1, <2>2, <2>3 DEF ScaleInv, OwnInv
<1>8. Unspent' \subseteq Unspent /\ n \in Unspent /\ n \notin Unspent'
  <2>1. ASSUME NEW m \in Machines, NEW g \in Hosts, MayScale(g, m)' PROVE MayScale(g, m) /\ m # n
    <3>1. Uses(h, n)
      BY <1>5 DEF Uses
    <3>2. MayScale(g, m) /\ ~(g = h /\ m = n)
      BY <1>2, <1>5, <2>1 DEF MayScale, Before
    <3>3. Uses(g, m)
      BY <1>4, <3>2 DEF MayScale, Uses, HoldInv
    <3> QED BY <1>1, <3>1, <3>2, <3>3 DEF ScaleInv, OwnInv
  <2>2. MayScale(h, n)
    BY <1>5 DEF MayScale
  <2>3. Unspent' \subseteq Unspent /\ n \notin Unspent'
    BY <2>1 DEF Unspent
  <2> QED BY <1>1, <2>2, <2>3 DEF Unspent
<1>9. SpentInv'
  <2> DEFINE S == Marked \ Unspent
             T == Marked' \ Unspent'
  <2>1. S \cup {n} \in SUBSET T /\ n \notin S /\ T \in SUBSET Marked /\ S \in SUBSET Marked
    BY <1>1, <1>3, <1>8
  <2>2. IsFiniteSet(T) /\ IsFiniteSet(S)
    BY <2>1, MarkedFinite, FS_Subset
  <2> DEFINE U == S \cup {n}
  <2>3. Cardinality(U) = Cardinality(S) + 1 /\ U \in SUBSET T
    BY Zenon, <2>1, <2>2, FS_AddElement
  <2>4. Cardinality(S) \in Nat /\ Cardinality(T) \in Nat /\ Cardinality(Machines) \in Nat
    BY <2>2, FS_CardinalityType, FleetAssumption
  <2>5. Cardinality(Machines) - replicas <= Cardinality(S)
    BY DEF ScaleInv, SpentInv
  <2>6. SpentInv' <=> Cardinality(Machines) - (replicas - 1) <= Cardinality(T)
    BY <1>3 DEF SpentInv
  <2> HIDE DEF S, T, U
  <2>7. Cardinality(U) <= Cardinality(T)
    BY <2>2, <2>3, FS_Subset
  <2> QED BY <1>3, <2>3, <2>4, <2>5, <2>6, <2>7
<1> QED BY <1>7, <1>9 DEF ScaleInv

\* A MachineSet has a marked Machine to delete whenever it has one too many.
LEMMA DeleteScale ==
    ASSUME LifecycleTypeOK, ScaleInv, NEW n \in Machines, DeleteMachine(n)
    PROVE  ScaleInv' /\ machine[n].deleteMachine
<1>1. n \in Marked
  <2> SUFFICES ASSUME n \notin Marked PROVE FALSE
    OBVIOUS
  <2> DEFINE S == Marked \ Unspent
             D == Machines \ Live
  <2>1. n \in Live /\ Cardinality(Live) > replicas
    BY DEF DeleteMachine
  <2>2. Marked \cap Live = {}
    BY DEF DeleteMachine, Marked
  <2>3. /\ S \in SUBSET D /\ D \in SUBSET Machines /\ Live \in SUBSET Machines
        /\ D \cup Live = Machines /\ D \cap Live = {}
    BY <2>2 DEF Marked, Live
  <2>4. IsFiniteSet(D) /\ IsFiniteSet(Live) /\ IsFiniteSet(Machines)
    BY <2>3, FleetAssumption, FS_Subset
  <2>5. Cardinality(S) <= Cardinality(D) /\ IsFiniteSet(S)
    BY <2>3, <2>4, FS_Subset
  <2>6. Cardinality({}) = 0
    BY FS_EmptySet
  <2>7. Cardinality(Machines) = Cardinality(D) + Cardinality(Live) - Cardinality(D \cap Live)
    <3> HIDE DEF D
    <3> QED BY <2>3, <2>4, FS_Union
  <2>8. /\ Cardinality(S) \in Nat /\ Cardinality(D) \in Nat /\ Cardinality(Live) \in Nat
        /\ Cardinality(Machines) \in Nat /\ replicas \in Int
    BY <2>4, <2>5, FS_CardinalityType DEF LifecycleTypeOK
  <2>9. Cardinality(Machines) - replicas <= Cardinality(S)
    BY DEF ScaleInv, SpentInv
  <2>10. Cardinality(D \cap Live) = 0
    BY <2>3, <2>6
  <2> HIDE DEF S, D
  <2> QED BY <2>1, <2>5, <2>7, <2>8, <2>9, <2>10
<1>2. Marked' = Marked /\ Live' = Live \ {n}
  BY DEF DeleteMachine, Marked, Live, LifecycleTypeOK, Machine
<1>3. Unspent' = Unspent /\ \A g \in Hosts, m \in Machines : Uses(g, m)' <=> Uses(g, m)
  BY DEF DeleteMachine, Unspent, MayScale, Uses
<1>4. SpentInv'
  BY <1>2, <1>3, SpentKept DEF ScaleInv, DeleteMachine
<1>5. OwnInv'
  <2>1. \A m \in Machines, g, k \in Hosts : Uses(g, m)' /\ Uses(k, m)' => g = k
    BY Zenon, <1>3 DEF ScaleInv, OwnInv
  <2>2. Machines \ Live' \subseteq Marked
    BY <1>1, <1>2 DEF ScaleInv, OwnInv
  <2> QED BY Zenon, <1>2, <2>1, <2>2 DEF ScaleInv, OwnInv, DeleteMachine
<1> QED BY <1>1, <1>4, <1>5 DEF ScaleInv, Marked

\* A command of byohctl. An answer that is lost, or a wait that is given up,
\* would let the next command scale down for the same Machine.
LEMMA OperationScale ==
    ASSUME {"lost", "timeout", "read"} \cap FaultKinds = {},
           LifecycleTypeOK, CtlInv, HoldInv, ScaleInv, NEW h \in Hosts,
           OperationStep(h) \/ runDeauthorise(h) \/ runDecommission(h)
    PROVE  ScaleInv'
<1> DEFINE c == ctl[h]
<1>1. /\ End(h) = [ctl EXCEPT ![h] = CtlIdle] /\ CtlIdle.pc \notin Before \cup {"wait"}
      /\ \A pc : /\ Continue(h, pc) = [ctl EXCEPT ![h] = [c EXCEPT !.pc = pc]]
                 /\ [c EXCEPT !.pc = pc].pc = pc
                 /\ [c EXCEPT !.pc = pc].m = c.m
  BY DEF End, Continue, CtlIdle, Ctl, LifecycleTypeOK, Before
<1>2. /\ UNCHANGED machine => Marked' = Marked /\ Live' = Live
      /\ \A kind : Fault(kind) => kind \notin {"lost", "timeout", "read"}
  BY Zenon DEF Marked, Live, Fault
\* The hosts and the Machines stay as they are.
<1>3. ASSUME UNCHANGED <<byohost, claim, replicas>>, Marked' = Marked, Live' = Live,
             NEW f, ctl' = [ctl EXCEPT ![h] = f], f.pc \notin {"getDeployment", "scale"},
             \/ c.pc # "wait" /\ f.pc \notin Before \cup {"wait"}
             \/ c.pc \in Before /\ f.pc # "wait" /\ f.m = c.m
             \/ f = c
             \/ byohost[h].ref = None /\ f.pc \notin Before \cup {"wait"}
      PROVE  ScaleInv'
  <2>1. c.pc = "wait" => f = c \/ (byohost[h].ref = None /\ f.pc \notin Before)
    BY Zenon, <1>3 DEF Before
  <2>2. f.pc \in Before \cup {"wait"} => c.pc \in Before \cup {"wait"} /\ f.m = c.m
    BY Zenon, <1>3
  <2> HIDE DEF c
  <2>3. c = ctl[h]
    BY DEF c
  <2> QED BY ZenonT(30), <1>3, <2>1, <2>2, <2>3, ControlScale
<1>4. ASSUME UNCHANGED <<byohost, claim, replicas>>, Marked' = Marked, Live' = Live,
             c.pc # "wait", ctl' = End(h)
      PROVE  ScaleInv'
  <2>1. ctl' = [ctl EXCEPT ![h] = CtlIdle] /\ CtlIdle.pc \notin {"getDeployment", "scale"}
    BY <1>1, <1>4 DEF Before
  <2> HIDE DEF c
  <2> QED BY Zenon, <1>1, <1>3, <1>4, <2>1
<1>5. ASSUME UNCHANGED <<byohost, claim, replicas>>, Marked' = Marked, Live' = Live,
             NEW pc, ctl' = Continue(h, pc), pc \notin {"getDeployment", "scale", "wait"},
             \/ c.pc \in Before
             \/ c.pc # "wait" /\ pc \notin Before
             \/ byohost[h].ref = None /\ pc \notin Before
      PROVE  ScaleInv'
  <2> DEFINE f == [c EXCEPT !.pc = pc]
  <2>1. ctl' = [ctl EXCEPT ![h] = f] /\ f.pc = pc /\ f.m = c.m
    BY <1>1, <1>5
  <2> HIDE DEF c, f
  <2> QED BY Zenon, <1>3, <1>5, <2>1
<1>6. ASSUME NEW op, PerformHostOperation(h, op) PROVE ScaleInv'
  <2> DEFINE f == [CtlIdle EXCEPT !.cmd = op, !.pc = "getHost"]
  <2>1. ctl' = [ctl EXCEPT ![h] = f] /\ f.pc = "getHost" /\ c.pc = "idle"
    BY <1>6 DEF PerformHostOperation, CtlIdle
  <2>2. UNCHANGED <<byohost, claim, replicas, machine>>
    BY <1>6 DEF PerformHostOperation, objects
  <2> HIDE DEF c, f
  <2> QED BY Zenon, <1>2, <1>3, <2>1, <2>2 DEF Before
<1>7. CASE GetByoHostObject(h)
  <2>1. c.pc = "getHost" /\ UNCHANGED <<byohost, claim, replicas, machine>>
    BY <1>7 DEF GetByoHostObject, objects
  <2>2. CASE ctl' = End(h)
    BY <1>2, <1>4, <2>1, <2>2
  <2>3. CASE ctl' \in {Continue(h, "delete"), Continue(h, "purge")}
    BY Zenon, <1>2, <1>5, <2>1, <2>3 DEF Before
  <2>4. CASE ctl' = [ctl EXCEPT ![h].pc = "getMachine", ![h].m = byohost[h].ref]
    <3> DEFINE f == [c EXCEPT !.pc = "getMachine", !.m = byohost[h].ref]
    <3>1. ctl' = [ctl EXCEPT ![h] = f] /\ f.pc = "getMachine" /\ f.m = byohost[h].ref
      BY ZenonT(30), <2>4 DEF LifecycleTypeOK, Ctl
    <3>2. c = ctl[h]
      OBVIOUS
    <3> HIDE DEF c, f
    <3> QED BY Zenon, <1>2, <2>1, <3>1, <3>2, ControlScale
  <2> QED BY <1>7, <2>2, <2>3, <2>4 DEF GetByoHostObject
<1>8. ASSUME NEW from \in {"getMachine", "fresh"}, NEW to \in {"count", "annotate"},
             GetUnstructuredMachineObject(h, from, to)
      PROVE  ScaleInv'
  <2> DEFINE f == [c EXCEPT !.pc = to, !.copy = machine[c.m]]
  <2>1. c.pc = from /\ UNCHANGED <<byohost, claim, replicas, machine>>
    BY <1>8 DEF GetUnstructuredMachineObject, objects
  <2>2. ctl' = [ctl EXCEPT ![h] = f] \/ ctl' = End(h)
    BY Zenon, <1>8 DEF GetUnstructuredMachineObject, LifecycleTypeOK
  <2>3. /\ f.pc = to /\ f.m = c.m /\ from \in Before
        /\ to \notin {"getDeployment", "scale", "wait"} /\ from # "wait"
    BY DEF Ctl, LifecycleTypeOK, Before
  <2> HIDE DEF c, f
  <2>4. CASE ctl' = [ctl EXCEPT ![h] = f]
    BY Zenon, <1>2, <1>3, <2>1, <2>3, <2>4
  <2> QED BY <1>2, <1>4, <2>1, <2>2, <2>3, <2>4
<1>9. CASE GetMachineDeploymentReplicaCount(h)
  <2>1. c.pc = "count" /\ "count" \in Before /\ UNCHANGED <<byohost, claim, replicas, machine>>
    BY <1>9 DEF GetMachineDeploymentReplicaCount, objects, Before
  <2>2. ctl' \in {Continue(h, "fresh"), Continue(h, "exclude"), End(h)}
    BY Zenon, <1>9 DEF GetMachineDeploymentReplicaCount
  <2> QED BY Zenon, <1>2, <1>4, <1>5, <2>1, <2>2
<1>10. ASSUME NEW new, NEW next, UpdateMachine(h, new, next), c.pc \in Before
       PROVE  \/ ScaleInv'
              \/ /\ machine[c.m] = c.copy /\ machine' = [machine EXCEPT ![c.m] = new]
                 /\ ctl' = Continue(h, next) /\ UNCHANGED <<byohost, claim, replicas>>
  <2>1. UNCHANGED <<byohost, claim, replicas>> /\ c.pc # "wait"
    BY Zenon, <1>10 DEF UpdateMachine, Before
  <2>2. CASE ctl' = End(h) /\ machine' = machine
    BY Zenon, <1>2, <1>4, <2>1, <2>2
  <2> QED BY ZenonT(30), <1>2, <1>10, <2>1, <2>2 DEF UpdateMachine
<1>11. CASE AnnotateExcludeDrain(h)
  <2> DEFINE new == [c.copy EXCEPT !.excludeDrain = TRUE]
  <2>1. c.pc = "exclude" /\ "exclude" \in Before /\ UpdateMachine(h, new, "fresh")
    BY <1>11 DEF AnnotateExcludeDrain, Before
  <2>2. CASE /\ machine[c.m] = c.copy /\ machine' = [machine EXCEPT ![c.m] = new]
             /\ ctl' = Continue(h, "fresh") /\ UNCHANGED <<byohost, claim, replicas>>
    <3>1. c.m \in Machines
      BY <2>1 DEF CtlInv
    <3>2. Marked' = Marked /\ Live' = Live
      BY SMTT(30), <2>2, <3>1 DEF Marked, Live, LifecycleTypeOK, Machine
    <3> QED BY <1>5, <2>1, <2>2, <3>2
  <2> HIDE DEF new
  <2> QED BY <1>10, <2>1, <2>2
<1>12. CASE AnnotateDeleteMachine(h)
  <2> DEFINE new == [c.copy EXCEPT !.deleteMachine = TRUE]
  <2>1. c.pc = "annotate" /\ "annotate" \in Before /\ UpdateMachine(h, new, "getDeployment")
    BY <1>12 DEF AnnotateDeleteMachine, Before
  <2>2. CASE /\ machine[c.m] = c.copy /\ machine' = [machine EXCEPT ![c.m] = new]
             /\ ctl' = Continue(h, "getDeployment") /\ UNCHANGED <<byohost, claim, replicas>>
    BY Zenon, <2>1, <2>2, MarkScale
  <2> HIDE DEF new
  <2> QED BY <1>10, <2>1, <2>2
<1>13. CASE GetMachineDeployment(h)
  <2> DEFINE f == [c EXCEPT !.pc = "scale", !.count = replicas]
  <2>1. c.pc = "getDeployment" /\ UNCHANGED <<byohost, claim, replicas, machine>>
    BY <1>13 DEF GetMachineDeployment, objects
  <2>2. ctl' = [ctl EXCEPT ![h] = f] /\ f.pc = "scale" /\ f.m = c.m
    BY Zenon, <1>13 DEF GetMachineDeployment, LifecycleTypeOK, Ctl
  <2>3. c.m \in Marked /\ c = ctl[h] /\ c.pc \in Before /\ f.pc # "getMachine" /\ c.pc # "wait"
    BY <2>1, <2>2 DEF ScaleInv, OwnInv, Before
  <2> HIDE DEF c, f
  <2> QED BY Zenon, <1>2, <2>1, <2>2, <2>3, ControlScale
<1>14. CASE ScaleDownMachineDeployment(h)
  <2>1. c.pc = "scale" /\ UNCHANGED <<byohost, claim, machine>>
    BY <1>14 DEF ScaleDownMachineDeployment
  <2>2. CASE ctl' = End(h) /\ replicas' = replicas
    BY <1>2, <1>4, <2>1, <2>2
  <2>3. CASE /\ replicas = ctl[h].count /\ replicas' = ctl[h].count - 1
             /\ ctl' = [ctl EXCEPT ![h].pc = "wait", ![h].count = 0]
    BY Zenon, <2>1, <2>3, SpendScale
  <2> QED BY <1>2, <1>14, <2>2, <2>3 DEF ScaleDownMachineDeployment
<1>15. CASE WaitForMachineRefToBeUnset(h)
  <2>1. c.pc = "wait" /\ UNCHANGED <<byohost, claim, replicas, machine>>
    BY Zenon, <1>15 DEF WaitForMachineRefToBeUnset, objects
  <2>2. ~byohost[h].exists => byohost[h].ref = None
    BY DEF HoldInv, NoHost
  <2>3. CASE byohost[h].ref = None /\ ctl' = End(h)
    <3>1. ctl' = [ctl EXCEPT ![h] = CtlIdle] /\ CtlIdle.pc \notin {"getDeployment", "scale"}
      BY Zenon, <1>1, <2>3 DEF Before
    <3> HIDE DEF c
    <3> QED BY Zenon, <1>1, <1>2, <1>3, <2>1, <2>3, <3>1
  <2>4. CASE byohost[h].ref = None /\ ctl' = Continue(h, "delete")
    BY <1>2, <1>5, <2>1, <2>4 DEF Before
  <2>5. CASE ctl' = ctl
    <3>1. ctl' = [ctl EXCEPT ![h] = c] /\ c.pc \notin {"getDeployment", "scale"}
      BY <2>1, <2>5 DEF LifecycleTypeOK
    <3> HIDE DEF c
    <3> QED BY Zenon, <1>2, <1>3, <2>1, <3>1
  <2> QED BY <1>2, <1>15, <2>2, <2>3, <2>4, <2>5 DEF WaitForMachineRefToBeUnset
<1>16. CASE DeleteByoHostObject(h)
  <2>1. c.pc = "delete" /\ UNCHANGED <<claim, replicas, machine>>
    BY Zenon, <1>16 DEF DeleteByoHostObject
  <2>2. CASE byohost' = byohost /\ ctl' = End(h)
    BY Zenon, <1>2, <1>4, <2>1, <2>2
  <2>3. CASE /\ handleDelete(h) /\ byohost' = [byohost EXCEPT ![h] = NoHost]
             /\ ctl' = Continue(h, "purge")
    <3>1. NoHost.ref = None /\ NoHost.attached = None /\ byohost[h].ref \notin Live
      BY <2>3 DEF NoHost, handleDelete, Found, Live
    <3>2. ASSUME NEW g \in Hosts
          PROVE  \/ ctl'[g] = ctl[g]
                 \/ /\ ctl'[g].pc \notin Before \cup {"wait"}
                    /\ ctl[g].pc \notin Before \cup {"wait"}
      BY <2>1, <2>3 DEF Continue, LifecycleTypeOK, Ctl, Before
    <3> HIDE DEF c
    <3> QED BY ZenonT(30), <2>1, <2>3, <3>1, <3>2, FreeScale
  <2> QED BY ZenonT(30), <1>2, <1>16, <2>2, <2>3 DEF DeleteByoHostObject
<1>17. CASE PurgeDebianPackage(h)
  BY Zenon, <1>2, <1>4, <1>17 DEF PurgeDebianPackage, objects
<1> QED BY Zenon, <1>6, <1>7, <1>8, <1>9, <1>11, <1>12, <1>13, <1>14, <1>15, <1>16, <1>17
        DEF OperationStep, runDeauthorise, runDecommission

\* byohctl onboard has no part in it.
LEMMA OnboardScale ==
    ASSUME LifecycleTypeOK, HoldInv, ScaleInv, NEW h \in Hosts,
           OnboardStep(h) \/ \E r \in Asks[h] : runOnboard(h, r)
    PROVE  ScaleInv'
<1> DEFINE b == byohost[h]
<1>1. UNCHANGED <<claim, replicas, machine>> /\ byohost' = [byohost EXCEPT ![h] = b]
  BY ZenonT(30) DEF OnboardStep, SaveKubeConfig, CheckRegionAvailability, SaveRegion, ensureRequiredPackages,
         installDebianPackage, runOnboard, objects, LifecycleTypeOK
<1>2. ctl[h].pc \notin Before \cup {"wait"}
  BY Zenon DEF OnboardStep, SaveKubeConfig, CheckRegionAvailability, SaveRegion, ensureRequiredPackages,
         installDebianPackage, runOnboard, Before
<1>3. PICK f : ctl' = [ctl EXCEPT ![h] = f] /\ f.pc \notin Before \cup {"wait"}
  <2>1. CtlIdle.pc \notin Before \cup {"wait"}
    BY DEF CtlIdle, Before
  <2>2. CASE ctl' = Exit(h)
    BY Zenon, <2>1, <2>2 DEF Exit
  <2>3. ASSUME NEW pc \in {"region", "label", "dpkg"}, ctl' = Goto(h, pc)
        PROVE  \E f : ctl' = [ctl EXCEPT ![h] = f] /\ f.pc \notin Before \cup {"wait"}
    <3> DEFINE f == [ctl[h] EXCEPT !.pc = pc]
    <3>1. ctl' = [ctl EXCEPT ![h] = f] /\ f.pc = pc
      BY <2>3 DEF Goto, LifecycleTypeOK, Ctl
    <3> HIDE DEF f
    <3> QED BY Zenon, <3>1 DEF Before
  <2>4. CASE ctl' = [ctl EXCEPT ![h].pc = "packages", ![h].region = None]
    <3> DEFINE f == [ctl[h] EXCEPT !.pc = "packages", !.region = None]
    <3>1. ctl' = [ctl EXCEPT ![h] = f] /\ f.pc = "packages"
      BY ZenonT(30), <2>4 DEF LifecycleTypeOK, Ctl
    <3> HIDE DEF f
    <3> QED BY Zenon, <3>1 DEF Before
  <2>5. ASSUME NEW r, runOnboard(h, r)
        PROVE  \E f : ctl' = [ctl EXCEPT ![h] = f] /\ f.pc \notin Before \cup {"wait"}
    <3> DEFINE f == [CtlIdle EXCEPT !.cmd = "onboard", !.pc = "save", !.region = r]
    <3>1. ctl' = [ctl EXCEPT ![h] = f] /\ f.pc = "save"
      BY Zenon, <2>5 DEF runOnboard, CtlIdle
    <3> HIDE DEF f
    <3> QED BY ZenonT(30), <3>1 DEF Before
  <2> QED BY Zenon, <2>2, <2>3, <2>4, <2>5 DEF OnboardStep, SaveKubeConfig, CheckRegionAvailability,
             SaveRegion, ensureRequiredPackages, installDebianPackage
<1>4. ASSUME NEW g \in Hosts
      PROVE  \/ ctl'[g] = ctl[g]
             \/ /\ ctl'[g].pc \notin Before \cup {"wait"}
                /\ ctl[g].pc \notin Before \cup {"wait"}
  BY <1>2, <1>3 DEF LifecycleTypeOK
<1>5. b.ref = byohost[h].ref /\ b.attached = byohost[h].attached
  OBVIOUS
<1> HIDE DEF b
<1> QED BY Zenon, <1>1, <1>4, <1>5, FreeScale

\* The agents, and a Machine that is gone.
LEMMA AgentScale ==
    ASSUME LifecycleTypeOK, HoldInv, ScaleInv,
           \/ \E h \in Hosts : Register(h) \/ Release(h) \/ AgentCrash(h)
           \/ \E m \in Machines : MachineGone(m)
           \/ UNCHANGED lifecycleVars
    PROVE  ScaleInv'
<1>1. ASSUME UNCHANGED <<byohost, claim, replicas, ctl>>, Marked' = Marked, Live' = Live
      PROVE  ScaleInv'
  <2>1. SpentInv'
    BY Zenon, <1>1 DEF ScaleInv, SpentInv, Unspent, MayScale
  <2>2. OwnInv'
    <3>1. \A m \in Machines, h \in Hosts : Uses(h, m)' = Uses(h, m)
      BY Zenon, <1>1 DEF Uses
    <3>2. \A m \in Machines, g, h \in Hosts : Uses(g, m)' /\ Uses(h, m)' => g = h
      BY Zenon, <3>1 DEF ScaleInv, OwnInv
    <3>3. \A h \in Hosts : ctl'[h].pc \in Before \cup {"wait"} /\ ctl'[h].m \in Live'
                            => byohost'[h].ref = ctl'[h].m
      BY Zenon, <1>1 DEF ScaleInv, OwnInv
    <3>4. \A h \in Hosts : ctl'[h].pc \in {"getDeployment", "scale"} => ctl'[h].m \in Marked'
      BY Zenon, <1>1 DEF ScaleInv, OwnInv
    <3>5. \A m \in Marked' \cap Live' : \E h \in Hosts : byohost'[h].ref = m
      BY Zenon, <1>1 DEF ScaleInv, OwnInv
    <3>6. /\ Machines \ Live' \subseteq Marked'
          /\ claim'.h # None => claim'.m \in Machines \ Marked'
      BY Zenon, <1>1 DEF ScaleInv, OwnInv
    <3> QED BY Zenon, <3>2, <3>3, <3>4, <3>5, <3>6 DEF OwnInv
  <2> QED BY Zenon, <2>1, <2>2 DEF ScaleInv
<1>2. ASSUME NEW h \in Hosts, AgentCrash(h) PROVE ScaleInv'
  BY Zenon, <1>1, <1>2 DEF AgentCrash, objects, Marked, Live
<1>3. CASE UNCHANGED lifecycleVars
  BY <1>1, <1>3 DEF lifecycleVars, Marked, Live
<1>4. ASSUME NEW m \in Machines, MachineGone(m) PROVE ScaleInv'
  <2>1. Marked' = Marked /\ Live' = Live
    BY <1>4 DEF MachineGone, Marked, Live, LifecycleTypeOK, Machine
  <2> QED BY <1>1, <1>4, <2>1 DEF MachineGone
<1>5. ASSUME NEW h \in Hosts, Release(h) PROVE ScaleInv'
  <2> DEFINE b == [byohost[h] EXCEPT !.attached = None, !.ref = None]
  <2>1. byohost' = [byohost EXCEPT ![h] = b] /\ b.ref = None /\ b.attached = None
    BY ZenonT(30), <1>5 DEF Release, LifecycleTypeOK, ByoHost
  <2>2. byohost[h].ref \notin Live
    BY <1>5, FleetAssumption DEF Release, HoldInv, Live
  <2> HIDE DEF b
  <2> QED BY Zenon, <1>5, <2>1, <2>2, FreeScale DEF Release
<1>6. ASSUME NEW h \in Hosts, Register(h) PROVE ScaleInv'
  <2> DEFINE n == [NoHost EXCEPT !.exists = TRUE, !.region = disk[h].label]
             b == IF byohost[h].exists THEN byohost[h] ELSE n
  <2>1. CASE byohost' = byohost
    BY ZenonT(30), <1>1, <1>6, <2>1 DEF Register, Marked, Live
  <2>2. CASE byohost' = [byohost EXCEPT ![h] = b]
    <3>1. n.ref = NoHost.ref /\ n.attached = NoHost.attached
      BY Zenon DEF NoHost
    <3>2. ~byohost[h].exists => byohost[h] = NoHost
      BY DEF HoldInv
    <3>3. b.ref = byohost[h].ref /\ b.attached = byohost[h].attached
      <4> HIDE DEF n
      <4>1. CASE byohost[h].exists
        <5>1. b = byohost[h]
          BY <4>1
        <5> QED BY <5>1
      <4>2. CASE ~byohost[h].exists
        <5>1. b = n
          BY Zenon, <4>2
        <5> QED BY <3>1, <3>2, <4>2, <5>1
      <4> QED BY <4>1, <4>2
    <3> HIDE DEF b
    <3> QED BY Zenon, <1>6, <2>2, <3>3, FreeScale DEF Register
  <2>3. byohost' = byohost \/ byohost' = [byohost EXCEPT ![h] = b]
    BY ZenonT(30), <1>6 DEF Register
  <2> QED BY <2>1, <2>2, <2>3
<1> QED BY <1>2, <1>3, <1>4, <1>5, <1>6

LEMMA ScaleStep ==
    ASSUME {"lost", "timeout", "read"} \cap FaultKinds = {},
           LifecycleTypeOK, CtlInv, HoldInv, ScaleInv, [LifecycleNext]_lifecycleVars
    PROVE  ScaleInv'
BY Zenon, AgentScale, OnboardScale, OperationScale, ClaimScale, ClaimStatusScale, DeleteScale
   DEF LifecycleNext

\* A Machine is asked to go by DeleteMachine alone: an Update sends back the
\* phase that it has read.
LEMMA AskedStep ==
    ASSUME LifecycleTypeOK, CtlInv, ScaleInv, [LifecycleNext]_lifecycleVars,
           NEW m \in Machines, machine[m].phase = "live", machine'[m].phase = "deleting"
    PROVE  machine[m].deleteMachine
<1>1. machine' # machine
  OBVIOUS
<1>2. ASSUME NEW n \in Machines, DeleteMachine(n) PROVE machine[m].deleteMachine
  <2>1. m = n
    BY <1>2 DEF DeleteMachine, LifecycleTypeOK
  <2> QED BY <1>2, <2>1, DeleteScale
<1>3. ASSUME NEW n \in Machines, MachineGone(n) PROVE FALSE
  BY <1>3 DEF MachineGone, LifecycleTypeOK, Machine
<1>4. ASSUME NEW h \in Hosts, OperationStep(h) PROVE FALSE
  <2> DEFINE n == ctl[h].m
  <2>1. AnnotateExcludeDrain(h) \/ AnnotateDeleteMachine(h)
    BY <1>1, <1>4 DEF OperationStep, GetByoHostObject, GetUnstructuredMachineObject,
       GetMachineDeploymentReplicaCount, GetMachineDeployment, ScaleDownMachineDeployment,
       WaitForMachineRefToBeUnset, DeleteByoHostObject, PurgeDebianPackage, objects
  <2>2. n \in Machines
    BY <2>1 DEF AnnotateExcludeDrain, AnnotateDeleteMachine, CtlInv, Before
  <2>3. /\ machine[n] = ctl[h].copy
        /\ \/ machine' = [machine EXCEPT ![n] = [ctl[h].copy EXCEPT !.excludeDrain = TRUE]]
           \/ machine' = [machine EXCEPT ![n] = [ctl[h].copy EXCEPT !.deleteMachine = TRUE]]
    BY <1>1, <2>1 DEF AnnotateExcludeDrain, AnnotateDeleteMachine, UpdateMachine
  <2> QED BY SMTT(30), <2>2, <2>3 DEF LifecycleTypeOK, Machine
<1>5. CASE UNCHANGED machine
  BY <1>1, <1>5
<1> QED BY Zenon, <1>2, <1>3, <1>4, <1>5 DEF LifecycleNext, lifecycleVars, Claim, ClaimStatus, runOnboard,
      OnboardStep, SaveKubeConfig, CheckRegionAvailability, SaveRegion, ensureRequiredPackages,
      installDebianPackage, runDeauthorise, runDecommission, PerformHostOperation, Register,
      Release, AgentCrash, objects

\* Every scale-down was made for a marked Machine of its own, as long as no
\* command loses an answer or gives up its wait (then the next one scales down
\* for the same Machine again).
THEOREM ScaleInvariant ==
    ASSUME {"lost", "timeout", "read"} \cap FaultKinds = {}
    PROVE  LifecycleSpec => []ScaleInv
<1>1. FleetInit => ScaleInv
  <2> SUFFICES ASSUME FleetInit PROVE ScaleInv
    OBVIOUS
  <2>1. None \notin Machines /\ None \notin Hosts
    BY FleetAssumption
  <2>2. Marked = {} /\ Live = Machines
    BY DEF FleetInit, NewMachine, Marked, Live
  <2>3. /\ \A h \in Hosts : byohost[h].attached = None /\ ctl[h].pc = "idle"
        /\ claim.h = None
    BY DEF FleetInit, NoHost, CtlIdle
  <2>4. OwnInv
    BY <2>1, <2>2, <2>3 DEF OwnInv, Uses, Before
  <2>5. Marked \ Unspent = {} /\ replicas = Cardinality(Machines)
    BY <2>2 DEF FleetInit
  <2>6. SpentInv
    <3>1. Cardinality(Machines) \in Nat
      BY FS_CardinalityType, FleetAssumption
    <3>2. Cardinality(Marked \ Unspent) = 0
      BY <2>5, FS_EmptySet
    <3> QED BY <2>5, <3>1, <3>2 DEF SpentInv
  <2> QED BY <2>4, <2>6 DEF ScaleInv
<1>2. LifecycleTypeOK /\ CtlInv /\ HoldInv /\ ScaleInv /\ [LifecycleNext]_lifecycleVars
      => ScaleInv'
  BY ScaleStep
<1> QED BY <1>1, <1>2, LifecycleTypes, HoldInvariant, PTL DEF LifecycleSpec

\* Only Machines that somebody asked to remove are removed: no scale-down takes
\* the Machine of a host that no command was run on (ScaleDownMachineDeployment
\* and the MachineSet, which deletes marked Machines first).
THEOREM OnlyAsked ==
    ASSUME {"lost", "timeout", "read"} \cap FaultKinds = {}
    PROVE  LifecycleSpec => OnlyAskedMachinesGo
<1> DEFINE Asked == \A m \in Machines : machine[m].phase = "live" /\ machine'[m].phase = "deleting"
                                        => machine[m].deleteMachine
<1>1. LifecycleTypeOK /\ CtlInv /\ ScaleInv /\ [LifecycleNext]_lifecycleVars
      => [Asked]_lifecycleVars
  BY AskedStep
<1> QED BY <1>1, LifecycleTypes, ScaleInvariant, PTL DEF LifecycleSpec, OnlyAskedMachinesGo

=============================================================================
