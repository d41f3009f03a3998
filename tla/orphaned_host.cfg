SPECIFICATION Spec

CONSTANTS
    Hosts = {h1}
    Machines = {m1}
    None = None
    WithInstaller = {}
    SkipInstall = {h1}
    Stale = {}
    FaultKinds = {}
    MaxFaults = 0

INVARIANT NoOrphanedHost

CHECK_DEADLOCK FALSE
