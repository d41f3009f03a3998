SPECIFICATION Spec

CONSTANTS
    Hosts = {h1}
    Machines = {m1, m2}
    None = None
    WithInstaller = {m1, m2}
    SkipInstall = {}
    Stale = {}
    FaultKinds = {"managerApi", "script", "managerCrash", "agentCrash"}
    MaxFaults = 1

SYMMETRY Symmetry

INVARIANTS TypeOK ReservationCoherent OwnInstallationSecret NodeServesOwner

PROPERTIES BootstrapOnce ReleasedBeforeGone ImplementsHostPool

CHECK_DEADLOCK FALSE
