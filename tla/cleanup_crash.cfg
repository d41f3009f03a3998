SPECIFICATION FairSpec

CONSTANTS
    Hosts = {h1}
    Machines = {m1}
    None = None
    WithInstaller = {m1}
    SkipInstall = {}
    Stale = {}
    FaultKinds = {"agentCrash"}
    MaxFaults = 1

PROPERTY HostReturned

CHECK_DEADLOCK FALSE
