SPECIFICATION FairLifecycleSpec

CONSTANTS
    h1 = h1
    h2 = h2
    Hosts = {h1, h2}
    Machines = {m1, m2}
    None = None
    Regions = {"east", "west", "mars"}
    Available = {"east", "west"}
    Asks <- Moving
    Quiet = TRUE
    FaultKinds = {"onboard", "rollback", "write", "purge", "agentApi", "agentCrash"}
    MaxFaults = 1

INVARIANTS LifecycleTypeOK NoGhostHost ToolUsable RegionHonoured

PROPERTIES  OnlyAskedMachinesGo 
