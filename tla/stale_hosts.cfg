SPECIFICATION Spec

CONSTANTS
    Hosts = {h1}
    Machines = {m1, m2}
    None = None
    WithInstaller = {}
    SkipInstall = {h1}
    Stale = {"ByoHost"}
    FaultKinds = {"agentApi"}
    MaxFaults = 1

SYMMETRY Symmetry

INVARIANT ReservationCoherent

PROPERTY BootstrapOnce

CHECK_DEADLOCK FALSE
