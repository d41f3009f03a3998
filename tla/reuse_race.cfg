SPECIFICATION FairSpec

CONSTANTS
    Hosts = {h1}
    Machines = {m1, m2}
    None = None
    WithInstaller = {}
    SkipInstall = {h1}
    Stale = {}
    FaultKinds = {}
    MaxFaults = 0

PROPERTY Provisioned

CHECK_DEADLOCK FALSE
