-------------------------- MODULE AgentCredentials --------------------------
(***************************************************************************)
(* How the agent process gets its kubeconfig, registers its host and       *)
(* renews its certificate: main, the bootstrap flow (BootstrapKubeconfig   *)
(* of csr.go), the rotation goroutine, and on the other side the           *)
(* ByoAdmission controller and the signer. The flow runs in main before    *)
(* there is a kubeconfig and in the rotation goroutine afterwards.         *)
(***************************************************************************)
EXTENDS BootstrapToken

CONSTANTS
    MaxKeys,      \* how many private keys a behaviour may generate
    MaxCerts,     \* how many certificates a behaviour may hold
    MaxEnding,    \* how many of them come near their end
    Rotation      \* CERTIFICATE_ROTATION=true

ASSUME CredentialsAssumption ==
    /\ MaxKeys \in Nat /\ MaxCerts \in Nat /\ MaxEnding \in Nat
    /\ Rotation \in BOOLEAN

VARIABLES
    file,         \* on the host: the temporary key, the kubeconfig, the bootstrap kubeconfig
    csr,          \* the CertificateSigningRequest byoh-csr-<host>
    issued,       \* the number of certificates signed so far
    ending,       \* the certificates 1..ending have less than 20% of their time left
    keys,         \* the number of private keys generated so far
    flow,         \* the bootstrap flow: its step, its token, its key and its certificate
    proc,         \* the agent process: its step, its kubeconfig in memory, its parser
    network       \* the host has a default gateway

credVars == <<file, csr, issued, ending, keys, flow, proc, network>>

\* A kubeconfig: a certificate (0: none), the key it was made for and the key
\* next to it. torn is a file whose writing was cut short.
Kubeconfig == [cert : 0..MaxCerts, of : 0..MaxKeys, key : 0..MaxKeys, torn : BOOLEAN]

HostFiles == [key : 0..MaxKeys, config : Kubeconfig, boot : 0..MaxTokens]

NoConfig == [cert |-> 0, of |-> 0, key |-> 0, torn |-> FALSE]

Csr == [key : 0..MaxKeys, token : 0..MaxTokens, approved : BOOLEAN, cert : 0..MaxCerts]

NoCsr == [key |-> 0, token |-> 0, approved |-> FALSE, cert |-> 0]

Flow == [pc : {"idle", "key", "request", "wait", "write", "remove"},
         boot : 0..MaxTokens, key : 0..MaxKeys, cert : 0..MaxCerts, of : 0..MaxKeys]

FlowIdle == [pc |-> "idle", boot |-> 0, key |-> 0, cert |-> 0, of |-> 0]

Proc == [pc : {"down", "boot", "register", "run"}, config : Kubeconfig, parser : BOOLEAN]

Down == [pc |-> "down", config |-> NoConfig, parser |-> FALSE]

CredInit ==
    /\ file = [key |-> 0, config |-> NoConfig, boot |-> 0]
    /\ csr = NoCsr /\ issued = 0 /\ ending = 0 /\ keys = 0
    /\ flow = FlowIdle /\ proc = Down
    /\ network = FALSE

(***************************************************************************)
(* The bootstrap flow. An error ends the process in main (systemd starts   *)
(* it again) and is logged by the rotation, which tries again five seconds *)
(* later.                                                                  *)
(***************************************************************************)
FlowFails ==
    /\ flow' = FlowIdle
    /\ proc' = IF proc.pc = "boot" THEN Down ELSE proc

\* The key is that of the file an earlier attempt left, or a new one in that
\* file.
LoadOrGenerateKeyFile ==
    /\ flow.pc = "key"
    /\ \/ /\ file.key # 0
          /\ flow' = [flow EXCEPT !.pc = "request", !.key = file.key]
          /\ UNCHANGED <<file, keys>>
       \/ /\ file.key = 0 /\ keys < MaxKeys
          /\ keys' = keys + 1
          /\ file' = [file EXCEPT !.key = keys + 1]
          /\ flow' = [flow EXCEPT !.pc = "request", !.key = keys + 1]
    /\ UNCHANGED <<tokenVars, faults, csr, issued, ending, proc, network>>

\* A wrong RequestBYOHClientCert, which takes no request of an earlier attempt.
RequestNewClientCert ==
    /\ flow.pc = "request"
    /\ \/ /\ flow.boot \in Valid /\ csr = NoCsr
          /\ csr' = [NoCsr EXCEPT !.key = flow.key, !.token = flow.boot]
          /\ flow' = [flow EXCEPT !.pc = "wait"]
          /\ proc' = proc
       \/ flow.boot \notin Valid /\ FlowFails /\ csr' = csr
       \/ csr # NoCsr /\ FlowFails /\ csr' = csr
    /\ UNCHANGED <<tokenVars, faults, file, issued, ending, keys, network>>

\* csr.RequestCertificate: a request of that name that is there already is
\* taken for ours when it was made with our key, and is an error otherwise.
RequestBYOHClientCert ==
    /\ flow.pc = "request"
    /\ \/ /\ flow.boot \in Valid
          /\ csr \in {NoCsr, [csr EXCEPT !.key = flow.key]}
          /\ csr' = IF csr = NoCsr
                      THEN [NoCsr EXCEPT !.key = flow.key, !.token = flow.boot] ELSE csr
          /\ \/ flow' = [flow EXCEPT !.pc = "wait"] /\ UNCHANGED <<proc, faults>>
             \/ FlowFails /\ Fault("agentApi")
       \/ /\ flow.boot \notin Valid \/ csr \notin {NoCsr, [csr EXCEPT !.key = flow.key]}
          /\ FlowFails
          /\ UNCHANGED <<csr, faults>>
       \/ FlowFails /\ Fault("agentApi") /\ csr' = csr
    /\ UNCHANGED <<tokenVars, file, issued, ending, keys, network>>

\* The wait ends with the certificate, with the loss of the request, with an
\* hour's timeout, or when a watch is renewed with a token that has expired.
WaitForCertificate ==
    /\ flow.pc = "wait"
    /\ \/ /\ csr.cert # 0
          /\ flow' = [flow EXCEPT !.pc = "write", !.cert = csr.cert, !.of = csr.key]
          /\ UNCHANGED <<proc, faults>>
       \/ /\ csr = NoCsr \/ flow.boot \notin Valid
          /\ FlowFails
          /\ faults' = faults
       \/ csr.cert = 0 /\ FlowFails /\ Fault("csrTimeout")
    /\ UNCHANGED <<tokenVars, file, csr, issued, ending, keys, network>>

\* A wrong writeKubeconfigFromBootstrapping, which keeps the key of the file.
writeKubeconfigKeepingKey ==
    /\ flow.pc = "write"
    /\ file' = [file EXCEPT !.config = [cert |-> flow.cert, of |-> flow.of,
                                        key |-> file.config.key, torn |-> FALSE]]
    /\ flow' = [flow EXCEPT !.pc = "remove"]
    /\ UNCHANGED <<tokenVars, faults, csr, issued, ending, keys, proc, network>>

\* The file is truncated and written: a process that dies in between leaves a
\* kubeconfig that is there and cannot be loaded.
writeKubeconfigFromBootstrapping ==
    /\ flow.pc = "write"
    /\ \/ /\ file' = [file EXCEPT !.config = [cert |-> flow.cert, of |-> flow.of,
                                              key |-> flow.key, torn |-> FALSE]]
          /\ flow' = [flow EXCEPT !.pc = "remove"]
          /\ UNCHANGED <<proc, faults>>
       \/ /\ Fault("torn")
          /\ file' = [file EXCEPT !.config = [NoConfig EXCEPT !.torn = TRUE]]
          /\ flow' = FlowIdle
          /\ proc' = Down
    /\ UNCHANGED <<tokenVars, csr, issued, ending, keys, network>>

\* A wrong end of the flow, which hands over the files for the kubeconfig.
BootstrapKubeconfigFiles ==
    /\ flow.pc = "remove"
    /\ file' = [file EXCEPT !.key = 0] /\ faults' = faults
    /\ flow' = FlowIdle
    /\ proc' = [proc EXCEPT !.pc = "register", !.config = file]
    /\ UNCHANGED <<tokenVars, csr, issued, ending, keys, network>>

\* The error of the removal is only logged. main goes on with the kubeconfig.
BootstrapKubeconfig ==
    /\ flow.pc = "remove"
    /\ \/ file' = [file EXCEPT !.key = 0] /\ faults' = faults
       \/ file' = file /\ Fault("keyRemove")
    /\ flow' = FlowIdle
    /\ proc' = IF proc.pc = "boot"
                 THEN [proc EXCEPT !.pc = "register", !.config = file.config] ELSE proc
    /\ UNCHANGED <<tokenVars, csr, issued, ending, keys, network>>

FlowStep ==
    \/ LoadOrGenerateKeyFile
    \/ RequestBYOHClientCert
    \/ WaitForCertificate
    \/ writeKubeconfigFromBootstrapping
    \/ BootstrapKubeconfig

(***************************************************************************)
(* The process.                                                            *)
(***************************************************************************)
\* main up to Register: without a kubeconfig it bootstraps, with one it loads
\* it; a kubeconfig that cannot be loaded, or no bootstrap kubeconfig, ends it.
main ==
    /\ proc.pc = "down"
    /\ ~file.config.torn
    /\ \/ /\ file.config = NoConfig /\ file.boot # 0
          /\ proc' = [proc EXCEPT !.pc = "boot"]
          /\ flow' = [FlowIdle EXCEPT !.pc = "key", !.boot = file.boot]
       \/ /\ file.config # NoConfig
          /\ proc' = [proc EXCEPT !.pc = "register", !.config = file.config]
          /\ flow' = flow
    /\ UNCHANGED <<tokenVars, faults, file, csr, issued, ending, keys, network>>

\* Register, whose GetNetworkStatus finds the default interface or does not,
\* and setupTemplateParser. An error of Register ends the process.
RegisterHost ==
    /\ proc.pc = "register"
    /\ \/ proc' = [proc EXCEPT !.pc = "run", !.parser = network] /\ faults' = faults
       \/ proc' = Down /\ Fault("agentApi")
    /\ UNCHANGED <<tokenVars, file, csr, issued, ending, keys, flow, network>>

\* A wrong certRotation, which removes the kubeconfig it is going to replace.
certRotationAfresh ==
    /\ Rotation
    /\ proc.pc = "run"
    /\ flow.pc = "idle"
    /\ proc.config.cert <= ending
    /\ file.boot # 0
    /\ flow' = [FlowIdle EXCEPT !.pc = "key", !.boot = file.boot]
    /\ file' = [file EXCEPT !.config = NoConfig]
    /\ UNCHANGED <<tokenVars, faults, csr, issued, ending, keys, proc, network>>

\* A wrong certRotation, which is late by one certificate.
certRotationLate ==
    /\ Rotation
    /\ proc.pc = "run"
    /\ flow.pc = "idle"
    /\ proc.config.cert < ending
    /\ file.boot # 0
    /\ flow' = [FlowIdle EXCEPT !.pc = "key", !.boot = file.boot]
    /\ UNCHANGED <<tokenVars, faults, file, csr, issued, ending, keys, proc, network>>

\* certRotation looks at the certificate that main loaded, never at the file.
certRotation ==
    /\ Rotation
    /\ proc.pc = "run"
    /\ flow.pc = "idle"
    /\ proc.config.cert <= ending
    /\ file.boot # 0
    /\ flow' = [FlowIdle EXCEPT !.pc = "key", !.boot = file.boot]
    /\ UNCHANGED <<tokenVars, faults, file, csr, issued, ending, keys, proc, network>>

(***************************************************************************)
(* The management cluster, the host and the operator.                      *)
(***************************************************************************)
\* The ByoAdmission controller approves every request of a host; its update
\* carries the resource version, so a request made since is not approved by it.
ByoAdmissionReconcile ==
    /\ csr # NoCsr /\ ~csr.approved
    /\ csr' = [csr EXCEPT !.approved = TRUE]
    /\ UNCHANGED <<tokenVars, faults, file, issued, ending, keys, flow, proc, network>>

Sign ==
    /\ csr.approved /\ csr.cert = 0 /\ issued < MaxCerts
    /\ issued' = issued + 1
    /\ csr' = [csr EXCEPT !.cert = issued + 1]
    /\ UNCHANGED <<tokenVars, faults, file, ending, keys, flow, proc, network>>

\* Requests are collected an hour after they were approved, or after a day:
\* later than the thirty minutes of the token they were made with.
CollectCsr ==
    /\ csr # NoCsr
    /\ csr.token \in expired \/ csr.cert \in 1..ending
    /\ csr' = NoCsr
    /\ UNCHANGED <<tokenVars, faults, file, issued, ending, keys, flow, proc, network>>

CertificateEnds ==
    /\ ending < issued /\ ending < MaxEnding
    /\ ending' = ending + 1
    /\ UNCHANGED <<tokenVars, faults, file, csr, issued, keys, flow, proc, network>>

NetworkUp ==
    /\ ~network
    /\ network' = TRUE
    /\ UNCHANGED <<tokenVars, faults, file, csr, issued, ending, keys, flow, proc>>

\* The operator puts the published bootstrap kubeconfig on the host.
CopyBootstrapKubeconfig ==
    /\ published # 0 /\ file.boot # published
    /\ file' = [file EXCEPT !.boot = published]
    /\ UNCHANGED <<tokenVars, faults, csr, issued, ending, keys, flow, proc, network>>

============================================================================
