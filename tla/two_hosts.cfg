SPECIFICATION Spec

CONSTANTS
    Hosts = {h1, h2}
    Machines = {m1}
    None = None
    WithInstaller = {}
    SkipInstall = {h1, h2}
    Stale = {"ByoMachine"}
    FaultKinds = {"managerApi", "agentApi", "script", "managerCrash", "agentCrash", "pause"}
    MaxFaults = 1

SYMMETRY Symmetry

PROPERTIES ReleasedBeforeGone ImplementsHostPool

CHECK_DEADLOCK FALSE
