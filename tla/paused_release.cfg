SPECIFICATION FairSpec

CONSTANTS
    Hosts = {h1}
    Machines = {m1}
    None = None
    WithInstaller = {}
    SkipInstall = {h1}
    Stale = {}
    FaultKinds = {"pause"}
    MaxFaults = 1

PROPERTY HostReturned

CHECK_DEADLOCK FALSE
