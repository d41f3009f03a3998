SPECIFICATION Spec

CONSTANTS
    Hosts = {h1}
    Machines = {m1, m2}
    None = None
    WithInstaller = {m1, m2}
    SkipInstall = {}
    Stale = {}
    FaultKinds = {}
    MaxFaults = 0

SYMMETRY Symmetry

INVARIANT FreshUninstallSecret

CHECK_DEADLOCK FALSE
