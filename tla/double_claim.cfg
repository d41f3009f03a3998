SPECIFICATION Spec

CONSTANTS
    Hosts = {h1}
    Machines = {m1, m2}
    None = None
    WithInstaller = {}
    SkipInstall = {h1}
    Stale = {"ByoHost"}
    FaultKinds = {}
    MaxFaults = 0

PROPERTY ImplementsHostPool

CHECK_DEADLOCK FALSE
