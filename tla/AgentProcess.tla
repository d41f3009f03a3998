---------------------------- MODULE AgentProcess ----------------------------
(***************************************************************************)
(* The agent process on one host: systemd starts it again whenever it      *)
(* ends, wherever it was. The rotation goroutine and the reconciler run    *)
(* side by side in it.                                                     *)
(***************************************************************************)
EXTENDS CloudInit

avars == <<tokenVars, faults, credVars, initVars>>

AInit == TokenInit /\ CredInit /\ CloudInitInit

Stop == proc' = Down /\ flow' = FlowIdle /\ ci' = CiIdle

ProcessCrash ==
    /\ proc.pc # "down"
    /\ Fault("agentCrash")
    /\ Stop
    /\ UNCHANGED <<tokenVars, file, csr, issued, ending, keys, network, files, script, joined>>

\* A watcher unit, or the operator, restarts the service when the kubeconfig
\* has changed. The package installs no such unit, so it may never happen.
WatcherRestart ==
    /\ proc.pc = "run" /\ file.config # proc.config
    /\ Stop
    /\ UNCHANGED <<tokenVars, faults, file, csr, issued, ending, keys, network,
                   files, script, joined>>

Manager == BkStep /\ UNCHANGED <<credVars, initVars>>

\* A process that ends takes its reconcile with it.
Credentials ==
    /\ main \/ FlowStep \/ RegisterHost
    /\ ci' = IF proc'.pc = "down" THEN CiIdle ELSE ci
    /\ UNCHANGED <<files, script, joined>>

Controllers == (ByoAdmissionReconcile \/ Sign) /\ UNCHANGED initVars

Collect == CollectCsr /\ UNCHANGED initVars

Rotate == certRotation /\ UNCHANGED initVars

Outside ==
    \/ /\ (\E t \in Tokens : TokenExpires(t)) \/ NewBootstrapKubeconfig
       /\ UNCHANGED <<credVars, initVars>>
    \/ (CopyBootstrapKubeconfig \/ CertificateEnds) /\ UNCHANGED initVars
    \/ (\E s \in Scripts : Assign(s)) \/ GiveBack

ANext ==
    \/ Manager
    \/ Credentials
    \/ Controllers
    \/ Collect
    \/ Rotate
    \/ NetworkUp /\ UNCHANGED initVars
    \/ CloudInitStep
    \/ ProcessCrash
    \/ WatcherRestart
    \/ Outside

ASpec == AInit /\ [][ANext]_avars

\* systemd restarts the process and its goroutines go on; the controllers and
\* the collector of the management cluster do their work; the network comes
\* up. Nobody has to refresh a bootstrap token or to use the host.
AFairness ==
    /\ WF_avars(Credentials)
    /\ WF_avars(Controllers)
    /\ WF_avars(Collect)
    /\ WF_avars(Rotate)
    /\ WF_avars(NetworkUp /\ UNCHANGED initVars)
    /\ WF_avars(CloudInitStep)

AFairSpec == ASpec /\ AFairness

(***************************************************************************)
(* Properties                                                              *)
(***************************************************************************)
\* Every variable has its type.
ATypeOK ==
    /\ generated \in 0..MaxTokens
    /\ secrets \subseteq Tokens /\ expired \subseteq Tokens /\ published \in 0..MaxTokens
    /\ bk \in [pc : {"idle", "secret", "publish"}, token : 0..MaxTokens]
    /\ faults \in 0..MaxFaults
    /\ file \in HostFiles
    /\ csr \in Csr
    /\ issued \in 0..MaxCerts /\ ending \in 0..MaxCerts /\ keys \in 0..MaxKeys
    /\ flow \in Flow
    /\ proc \in Proc
    /\ network \in BOOLEAN
    /\ script \in Scripts \cup {None}
    /\ joined \in BOOLEAN
    /\ ci \in [pc : {"idle", "clean", "write"}, i : Nat]

\* The certificate of the kubeconfig on disk was made for the key next to it,
\* whichever attempt made the key, the request and the file.
KubeconfigPairs == ~file.config.torn => file.config.of = file.config.key

\* A renewal never puts an older certificate in place of a newer one, although
\* the rotation goroutine goes on renewing the one that main loaded.
CertificateNotOlder == [][file'.config.cert >= file.config.cert]_avars

\* A published bootstrap kubeconfig, and the copy on the host, carry a token
\* that the API server knows.
PublishedTokenBacked == {published, file.boot} \ {0} \subseteq secrets

\* Before the commands of a script run, the files it writes in the directories
\* that are emptied first hold what the script says and nothing else, whatever
\* earlier attempts and earlier ByoMachines left there.
FilesOfScript ==
    ci.pc = "write" /\ ci.i = Len(script) + 1
    => \A p \in Cleaned : files[p] = Expected(script, p)

\* An agent that starts gets to run, through any number of restarts, unless it
\* has no kubeconfig and no valid token to get one with.
Bootstraps ==
    proc.pc = "down" ~> \/ proc.pc = "run"
                        \/ file.config = NoConfig /\ file.boot \notin Valid

\* A certificate near its end is replaced while the process runs, unless the
\* bootstrap token on the host is not valid.
Renewed ==
    proc.pc = "run" /\ proc.config.cert <= ending
    ~> \/ file.config.cert > ending
       \/ file.boot \notin Valid

\* A host that was given to a ByoMachine becomes a node, also when its agent was
\* started before its network was up and panics over the first file.
ScriptRuns == script # None ~> joined

============================================================================
