SPECIFICATION CFairSpec

CONSTANTS
    Hosts = {h1}
    Machines = {m1}
    None = None
    WithInstaller = {m1}
    SkipInstall = {}
    Stale = {}
    FaultKinds = {"script", "clusterApi"}
    MaxFaults = 2
    SameName = TRUE

 

PROPERTIES HostReturned Provisioned ClusterGone

CHECK_DEADLOCK FALSE
