SPECIFICATION AFairSpec

CONSTANTS
    MaxTokens = 2
    MaxKeys = 4
    MaxCerts = 3
    MaxEnding = 1
    Rotation = TRUE
    Scripts <- TwoScripts
    Paths = {"run", "etc"}
    Cleaned = {"run"}
    None = None
    FaultKinds = {"managerApi", "agentApi", "agentCrash", "keyRemove", "csrTimeout", "clean", "file", "script"}
    MaxFaults = 1

INVARIANTS ATypeOK KubeconfigPairs PublishedTokenBacked FilesOfScript

PROPERTIES CertificateNotOlder  Renewed ScriptRuns

CHECK_DEADLOCK FALSE
