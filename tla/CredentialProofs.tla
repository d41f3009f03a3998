-------------------------- MODULE CredentialProofs --------------------------
(***************************************************************************)
(* Proofs about AgentProcess, for any number of tokens, keys, certificates *)
(* and faults, and any scripts.                                            *)
(***************************************************************************)
EXTENDS AgentProcess, WellFoundedInduction, TLAPS

(***************************************************************************)
(* Types. A reconcile in progress has its token.                           *)
(***************************************************************************)
TypeInv == ATypeOK /\ (bk.pc # "idle" => bk.token \in Tokens)

\* The initial records have their types.
LEMMA InitialRecords ==
    NoConfig \in Kubeconfig /\ NoCsr \in Csr /\ FlowIdle \in Flow /\ Down \in Proc
<1>1. NoConfig \in Kubeconfig
  BY CredentialsAssumption DEF NoConfig, Kubeconfig
<1>2. NoCsr \in Csr /\ FlowIdle \in Flow
  BY CredentialsAssumption, TokenAssumption DEF NoCsr, Csr, FlowIdle, Flow
<1> QED BY <1>1, <1>2 DEF Down, Proc

\* Every fault is counted, and there are at most MaxFaults.
LEMMA FaultTypes == ASSUME faults \in 0..MaxFaults, NEW k, Fault(k)  PROVE faults' \in 0..MaxFaults
BY TokenAssumption DEF Fault

\* The BootstrapKubeconfig controller, the operator and the clock.
LEMMA TokenTypes ==
    ASSUME TypeInv, UNCHANGED <<credVars, initVars>>,
           BkStep \/ (\E t \in Tokens : TokenExpires(t)) \/ NewBootstrapKubeconfig
    PROVE  TypeInv'
<1> USE DEF TypeInv, ATypeOK, Tokens, credVars, initVars
<1>1. CASE ReconcileBootstrapKubeconfig
  BY <1>1, TokenAssumption DEF ReconcileBootstrapKubeconfig
<1>2. CASE GenerateSecretFromBootstrapToken
  BY <1>2, TokenAssumption, FaultTypes DEF GenerateSecretFromBootstrapToken, BkIdle
<1>3. CASE GenerateBootstrapKubeconfigFromBootstrapToken
  BY <1>3, TokenAssumption, FaultTypes DEF GenerateBootstrapKubeconfigFromBootstrapToken, BkIdle
<1>4. CASE \E t \in Tokens : TokenExpires(t)
  BY <1>4 DEF TokenExpires
<1>5. CASE NewBootstrapKubeconfig
  BY <1>5, TokenAssumption DEF NewBootstrapKubeconfig
<1> QED BY <1>1, <1>2, <1>3, <1>4, <1>5 DEF BkStep

\* The agent process up to its reconciles.
LEMMA CredentialTypes ==
    ASSUME TypeInv, Credentials \/ Rotate
    PROVE  TypeInv'
<1> USE DEF TypeInv, ATypeOK
<1>1. UNCHANGED <<tokenVars, files, script, joined>> /\ ci' \in {ci, CiIdle}
  BY DEF Credentials, Rotate, main, FlowStep, RegisterHost, LoadOrGenerateKeyFile,
         RequestBYOHClientCert, WaitForCertificate, writeKubeconfigFromBootstrapping,
         BootstrapKubeconfig, certRotation, initVars
<1>2. SUFFICES /\ faults' \in 0..MaxFaults
               /\ file' \in HostFiles
               /\ csr' \in Csr
               /\ issued' \in 0..MaxCerts /\ ending' \in 0..MaxCerts /\ keys' \in 0..MaxKeys
               /\ flow' \in Flow
               /\ proc' \in Proc
               /\ network' \in BOOLEAN
  BY <1>1 DEF tokenVars, CiIdle
<1> USE InitialRecords
<1>3. ASSUME FlowFails PROVE flow' \in Flow /\ proc' \in Proc
  BY <1>3 DEF FlowFails
<1>4. CASE LoadOrGenerateKeyFile
  <2>1. keys < MaxKeys => keys + 1 \in 0..MaxKeys
    BY CredentialsAssumption
  <2>2. \A k \in 0..MaxKeys :
          /\ [flow EXCEPT !.pc = "request", !.key = k] \in Flow
          /\ [file EXCEPT !.key = k] \in HostFiles
    BY Zenon DEF Flow, HostFiles
  <2>3. file.key \in 0..MaxKeys
    BY DEF HostFiles
  <2>4. CASE file.key # 0
    BY Zenon, <1>4, <2>2, <2>3, <2>4 DEF LoadOrGenerateKeyFile
  <2>5. CASE file.key = 0
    <3>1. /\ keys' = keys + 1 /\ keys + 1 \in 0..MaxKeys
          /\ file' = [file EXCEPT !.key = keys + 1]
          /\ flow' = [flow EXCEPT !.pc = "request", !.key = keys + 1]
      BY SMTT(30), <1>4, <2>1, <2>5 DEF LoadOrGenerateKeyFile
    <3>2. flow' \in Flow /\ file' \in HostFiles /\ keys' \in 0..MaxKeys
      BY Zenon, <2>2, <3>1
    <3> QED BY <1>4, <3>2 DEF LoadOrGenerateKeyFile
  <2> QED BY <2>4, <2>5
<1>5. CASE RequestBYOHClientCert
  <2>1. [NoCsr EXCEPT !.key = flow.key, !.token = flow.boot] \in Csr
    BY Zenon DEF NoCsr, Csr, Flow
  <2>2. [flow EXCEPT !.pc = "wait"] \in Flow
    BY DEF Flow
  <2> QED BY <1>3, <1>5, <2>1, <2>2, FaultTypes DEF RequestBYOHClientCert
<1>6. CASE WaitForCertificate
  <2>1. [flow EXCEPT !.pc = "write", !.cert = csr.cert, !.of = csr.key] \in Flow
    BY Zenon DEF Flow, Csr
  <2> QED BY <1>3, <1>6, <2>1, FaultTypes DEF WaitForCertificate
<1>7. CASE writeKubeconfigFromBootstrapping
  <2>1. /\ [cert |-> flow.cert, of |-> flow.of, key |-> flow.key, torn |-> FALSE] \in Kubeconfig
        /\ [NoConfig EXCEPT !.torn = TRUE] \in Kubeconfig
    BY Zenon DEF Flow, Kubeconfig
  <2>2. [flow EXCEPT !.pc = "remove"] \in Flow
    BY DEF Flow
  <2>3. \A c \in Kubeconfig : [file EXCEPT !.config = c] \in HostFiles
    BY DEF HostFiles
  <2> QED BY Zenon, <1>7, <2>1, <2>2, <2>3, FaultTypes DEF writeKubeconfigFromBootstrapping
<1>8. CASE BootstrapKubeconfig
  <2>1. [proc EXCEPT !.pc = "register", !.config = file.config] \in Proc
    BY Zenon DEF Proc, HostFiles
  <2>2. [file EXCEPT !.key = 0] \in HostFiles
    BY CredentialsAssumption DEF HostFiles
  <2> QED BY <1>8, <2>1, <2>2, FaultTypes DEF BootstrapKubeconfig
<1>9. CASE main \/ certRotation
  <2>1. [FlowIdle EXCEPT !.pc = "key", !.boot = file.boot] \in Flow
    BY Zenon DEF Flow, HostFiles
  <2>2. /\ [proc EXCEPT !.pc = "boot"] \in Proc
        /\ [proc EXCEPT !.pc = "register", !.config = file.config] \in Proc
    BY Zenon DEF Proc, HostFiles
  <2> QED BY <1>9, <2>1, <2>2 DEF main, certRotation
<1>10. CASE RegisterHost
  <2>1. [proc EXCEPT !.pc = "run", !.parser = network] \in Proc
    BY Zenon DEF Proc
  <2> QED BY <1>10, <2>1, FaultTypes DEF RegisterHost
<1> QED BY <1>4, <1>5, <1>6, <1>7, <1>8, <1>9, <1>10 DEF Credentials, Rotate, FlowStep

\* The management cluster, the host, its reconciles and their ends.
LEMMA OtherTypes ==
    ASSUME TypeInv,
           \/ Controllers \/ Collect \/ (NetworkUp /\ UNCHANGED initVars) \/ CloudInitStep
           \/ ProcessCrash \/ WatcherRestart
           \/ ((CopyBootstrapKubeconfig \/ CertificateEnds) /\ UNCHANGED initVars)
           \/ (\E s \in Scripts : Assign(s)) \/ GiveBack
    PROVE  TypeInv'
<1> USE InitialRecords, CredentialsAssumption DEF TypeInv, ATypeOK, tokenVars, initVars
<1>1. CASE Controllers \/ Collect
  <2>1. csr' \in Csr
    <3>1. [csr EXCEPT !.approved = TRUE] \in Csr
      BY Zenon DEF Csr
    <3>2. issued < MaxCerts => issued + 1 \in 0..MaxCerts
      OBVIOUS
    <3>3. \A c \in 0..MaxCerts : [csr EXCEPT !.cert = c] \in Csr
      BY DEF Csr
    <3> QED BY ZenonT(30), <1>1, <3>1, <3>2, <3>3 DEF Controllers, Collect, ByoAdmissionReconcile, Sign, CollectCsr
  <2>2. issued' \in 0..MaxCerts
    BY <1>1 DEF Controllers, Collect, ByoAdmissionReconcile, Sign, CollectCsr
  <2> QED BY <1>1, <2>1, <2>2 DEF Controllers, Collect, ByoAdmissionReconcile, Sign, CollectCsr
<1>2. CASE (NetworkUp \/ CopyBootstrapKubeconfig) /\ UNCHANGED initVars
  <2>1. [file EXCEPT !.boot = published] \in HostFiles
    BY DEF HostFiles
  <2> QED BY Zenon, <1>2, <2>1 DEF NetworkUp, CopyBootstrapKubeconfig
<1>3. CASE CertificateEnds /\ UNCHANGED initVars
  <2>1. ending' \in 0..MaxCerts
    BY <1>3 DEF CertificateEnds
  <2> QED BY <1>3, <2>1 DEF CertificateEnds
<1>4. CASE ProcessCrash \/ WatcherRestart
  <2>1. faults' \in 0..MaxFaults
    BY <1>4, FaultTypes DEF ProcessCrash, WatcherRestart
  <2> QED BY <1>4, <2>1 DEF ProcessCrash, WatcherRestart, Stop, CiIdle
<1>5. CASE ReconcileScript \/ (\E s \in Scripts : Assign(s)) \/ GiveBack
  <2>1. ci' \in [pc : {"idle", "clean", "write"}, i : Nat]
    BY <1>5 DEF ReconcileScript, Assign, GiveBack
  <2>3. script' \in Scripts \cup {None} /\ joined' \in BOOLEAN
    BY Zenon, <1>5 DEF ReconcileScript, Assign, GiveBack
  <2>2. UNCHANGED <<tokenVars, faults, credVars>>
    BY <1>5 DEF ReconcileScript, Assign, GiveBack
  <2> QED BY <2>1, <2>2, <2>3 DEF credVars
<1>6. CASE cleank8sdirectories
  <2>1. faults' \in 0..MaxFaults
    BY <1>6, FaultTypes DEF cleank8sdirectories
  <2> QED BY <1>6, <2>1 DEF cleank8sdirectories, credVars, CiIdle
<1>7. CASE ExecuteWriteFile
  <2>1. faults' \in 0..MaxFaults
    BY <1>7, FaultTypes DEF ExecuteWriteFile
  <2>2. ci' \in [pc : {"idle", "clean", "write"}, i : Nat]
    <3>1. [ci EXCEPT !.i = @ + 1] \in [pc : {"idle", "clean", "write"}, i : Nat]
      OBVIOUS
    <3>2. CiIdle \in [pc : {"idle", "clean", "write"}, i : Nat]
      BY DEF CiIdle
    <3>3. ci' \in {[ci EXCEPT !.i = @ + 1], CiIdle}
      BY <1>7 DEF ExecuteWriteFile
    <3> QED BY <3>1, <3>2, <3>3
  <2> QED BY SMTT(30), <1>7, <2>1, <2>2 DEF ExecuteWriteFile
<1>8. CASE ExecuteCommands
  <2>1. faults' \in 0..MaxFaults
    BY <1>8, FaultTypes DEF ExecuteCommands
  <2> QED BY Zenon, <1>8, <2>1 DEF ExecuteCommands, credVars, CiIdle
<1> QED BY <1>1, <1>2, <1>3, <1>4, <1>5, <1>6, <1>7, <1>8 DEF CloudInitStep

\* Every behaviour of the agent process (main, the bootstrap flow, the rotation
\* and the reconciler) keeps the types and the token of a reconcile.
THEOREM AgentTypes == ASpec => []TypeInv
<1>1. AInit => TypeInv
  <2>1. [key |-> 0, config |-> NoConfig, boot |-> 0] \in HostFiles
    BY InitialRecords, CredentialsAssumption, TokenAssumption DEF HostFiles
  <2>2. /\ 0 \in 0..MaxTokens /\ 0 \in 0..MaxFaults
        /\ 0 \in 0..MaxCerts /\ 0 \in 0..MaxKeys
    BY CredentialsAssumption, TokenAssumption
  <2>3. BkIdle \in [pc : {"idle", "secret", "publish"}, token : 0..MaxTokens]
    BY <2>2 DEF BkIdle
  <2>4. CiIdle \in [pc : {"idle", "clean", "write"}, i : Nat]
    BY DEF CiIdle
  <2> QED BY Zenon, <2>1, <2>2, <2>3, <2>4, InitialRecords
          DEF AInit, TokenInit, CredInit, CloudInitInit, TypeInv, ATypeOK, BkIdle
<1>2. TypeInv /\ [ANext]_avars => TypeInv'
  <2> SUFFICES ASSUME TypeInv, [ANext]_avars PROVE TypeInv'
    OBVIOUS
  <2>1. CASE UNCHANGED avars
    BY <2>1 DEF avars, tokenVars, credVars, initVars, TypeInv, ATypeOK
  <2> QED BY <2>1, TokenTypes, CredentialTypes, OtherTypes DEF ANext, Manager, Outside
<1> QED BY <1>1, <1>2, PTL DEF ASpec

\* The type invariant that the run checks: no file, request, key or certificate
\* of the agent process leaves its bounds.
THEOREM AgentTypeCorrect == ASpec => []ATypeOK
<1>1. TypeInv => ATypeOK
  BY DEF TypeInv
<1> QED BY <1>1, AgentTypes, PTL

(***************************************************************************)
(* Tokens, keys and certificates.                                          *)
(***************************************************************************)
\* The inductive invariant. The token about to be published has its secret.
\* The request a flow waits for was made with its key, and the certificate it
\* holds was made for that key and is the latest: while a flow has not written
\* its certificate nobody makes another request, and a request that has a
\* certificate has the latest.
CredInv ==
    /\ bk.pc = "publish" => bk.token \in secrets
    /\ PublishedTokenBacked
    /\ KubeconfigPairs
    /\ flow.pc = "wait" => csr = NoCsr \/ csr.key = flow.key
    /\ flow.pc = "write" => /\ flow.of = flow.key
                            /\ flow.cert = issued
                            /\ csr = NoCsr \/ csr.cert # 0
    /\ csr.cert \in {0, issued}
    /\ file.config.cert <= issued

\* What leaves the credentials alone, or ends the process, keeps the invariant.
LEMMA QuietSteps ==
    ASSUME CredInv, UNCHANGED <<tokenVars, file, csr, issued>>, flow' \in {flow, FlowIdle}
    PROVE  CredInv'
BY DEF CredInv, PublishedTokenBacked, KubeconfigPairs, FlowIdle, tokenVars

\* The BootstrapKubeconfig controller, the operator and the clock.
LEMMA TokenSteps ==
    ASSUME TypeInv, CredInv, UNCHANGED <<credVars, initVars>>,
           BkStep \/ (\E t \in Tokens : TokenExpires(t)) \/ NewBootstrapKubeconfig
    PROVE  CredInv'
<1>1. secrets \subseteq secrets'
  BY DEF BkStep, ReconcileBootstrapKubeconfig, GenerateSecretFromBootstrapToken,
         GenerateBootstrapKubeconfigFromBootstrapToken, TokenExpires, NewBootstrapKubeconfig
<1>2. bk'.pc = "publish" => bk'.token \in secrets'
  BY <1>1 DEF BkStep, ReconcileBootstrapKubeconfig, GenerateSecretFromBootstrapToken,
         GenerateBootstrapKubeconfigFromBootstrapToken, TokenExpires, NewBootstrapKubeconfig,
         BkIdle, CredInv, TypeInv, ATypeOK
<1>3. published' \in {0, published} \cup secrets
  BY DEF BkStep, ReconcileBootstrapKubeconfig, GenerateSecretFromBootstrapToken,
         GenerateBootstrapKubeconfigFromBootstrapToken, TokenExpires, NewBootstrapKubeconfig,
         CredInv
<1> QED BY <1>1, <1>2, <1>3 DEF CredInv, PublishedTokenBacked, KubeconfigPairs, credVars

\* The flow, main and the rotation.
LEMMA CredentialSteps ==
    ASSUME TypeInv, CredInv, Credentials \/ Rotate
    PROVE  CredInv' /\ ("torn" \notin FaultKinds => file'.config.cert >= file.config.cert)
<1> USE DEF CredInv, PublishedTokenBacked, KubeconfigPairs
<1>1. /\ UNCHANGED tokenVars
      /\ file \in HostFiles /\ file.config \in Kubeconfig /\ csr \in Csr /\ flow \in Flow
      /\ issued \in Nat /\ file.config.cert \in Nat
  BY CredentialsAssumption
     DEF Credentials, Rotate, main, FlowStep, RegisterHost, LoadOrGenerateKeyFile,
         RequestBYOHClientCert, WaitForCertificate, writeKubeconfigFromBootstrapping,
         BootstrapKubeconfig, certRotation, TypeInv, ATypeOK, HostFiles, Kubeconfig
<1>2. CASE UNCHANGED <<file, csr, issued>> /\ flow' \in {flow, FlowIdle}
  <2>1. CredInv'
    BY <1>1, <1>2, QuietSteps
  <2> QED BY <1>1, <1>2, <2>1
<1>3. CASE LoadOrGenerateKeyFile
  <2>1. file'.config = file.config /\ file'.boot = file.boot /\ flow'.pc = "request"
    BY Zenon, <1>1, <1>3 DEF LoadOrGenerateKeyFile, HostFiles, Flow
  <2> QED BY <1>1, <1>3, <2>1 DEF LoadOrGenerateKeyFile, tokenVars
<1>4. CASE RequestBYOHClientCert
  <2>1. UNCHANGED <<file, issued>> /\ flow.pc = "request"
    BY <1>4 DEF RequestBYOHClientCert
  <2>2. CASE csr' = csr /\ flow' = FlowIdle
    BY <1>2, <2>1, <2>2
  <2>3. ASSUME csr \in {NoCsr, [csr EXCEPT !.key = flow.key]},
               csr' = IF csr = NoCsr
                        THEN [NoCsr EXCEPT !.key = flow.key, !.token = flow.boot] ELSE csr
        PROVE  csr'.key = flow.key /\ csr'.cert \in {0, issued}
    BY <1>1, <2>3 DEF NoCsr, Csr
  <2>4. flow' \in {FlowIdle, [flow EXCEPT !.pc = "wait"]}
    BY <1>4 DEF RequestBYOHClientCert, FlowFails
  <2>5. /\ flow'.pc \in {"idle", "wait"}
        /\ flow'.pc = "wait" => flow'.key = flow.key
    BY <1>1, <2>4 DEF Flow, FlowIdle
  <2>6. CASE csr'.key = flow.key /\ csr'.cert \in {0, issued}
    BY <1>1, <2>1, <2>5, <2>6 DEF tokenVars
  <2> QED BY <1>4, <2>2, <2>3, <2>6 DEF RequestBYOHClientCert, FlowFails
<1>5. CASE WaitForCertificate
  <2>1. CASE flow' = FlowIdle
    BY <1>2, <1>5, <2>1 DEF WaitForCertificate
  <2>2. CASE /\ flow.pc = "wait" /\ csr.cert # 0
             /\ flow' = [flow EXCEPT !.pc = "write", !.cert = csr.cert, !.of = csr.key]
    <3>1. csr # NoCsr /\ csr.key = flow.key /\ csr.cert = issued
      BY <2>2 DEF NoCsr
    <3>2. flow'.pc = "write" /\ flow'.cert = issued /\ flow'.of = flow'.key
      BY <1>1, <2>2, <3>1 DEF Flow
    <3> QED BY <1>1, <1>5, <2>2, <3>2 DEF WaitForCertificate, tokenVars
  <2> QED BY <1>5, <2>1, <2>2 DEF WaitForCertificate, FlowFails
<1>6. CASE writeKubeconfigFromBootstrapping
  <2>1. CASE /\ "torn" \in FaultKinds
             /\ file' = [file EXCEPT !.config = [NoConfig EXCEPT !.torn = TRUE]]
             /\ flow' = FlowIdle
    <3>1. /\ file'.config.torn = TRUE /\ file'.config.cert = 0 /\ file'.boot = file.boot
          /\ flow'.pc = "idle"
      BY <1>1, <2>1 DEF HostFiles, NoConfig, FlowIdle
    <3> QED BY <1>1, <1>6, <2>1, <3>1 DEF writeKubeconfigFromBootstrapping, tokenVars
  <2>2. CASE /\ file' = [file EXCEPT !.config = [cert |-> flow.cert, of |-> flow.of,
                                                 key |-> flow.key, torn |-> FALSE]]
             /\ flow' = [flow EXCEPT !.pc = "remove"]
    BY <1>1, <1>6, <2>2 DEF writeKubeconfigFromBootstrapping, tokenVars, HostFiles, Flow
  <2> QED BY <1>6, <2>1, <2>2 DEF writeKubeconfigFromBootstrapping, Fault
<1>7. CASE BootstrapKubeconfig
  <2>1. file'.config = file.config /\ file'.boot = file.boot /\ flow'.pc = "idle"
    BY <1>1, <1>7 DEF BootstrapKubeconfig, HostFiles, FlowIdle
  <2> QED BY <1>1, <1>7, <2>1 DEF BootstrapKubeconfig, tokenVars
<1>8. CASE main \/ certRotation
  <2>1. flow' = flow \/ flow'.pc = "key"
    BY Zenon, <1>8 DEF main, certRotation, FlowIdle
  <2> QED BY <1>1, <1>8, <2>1 DEF main, certRotation, tokenVars
<1>9. CASE RegisterHost
  BY <1>2, <1>9 DEF RegisterHost
<1> QED BY <1>3, <1>4, <1>5, <1>6, <1>7, <1>8, <1>9 DEF Credentials, Rotate, FlowStep

\* The management cluster, the host, its reconciles and their ends.
LEMMA OtherSteps ==
    ASSUME TypeInv, CredInv,
           \/ Controllers \/ Collect \/ (NetworkUp /\ UNCHANGED initVars) \/ CloudInitStep
           \/ ProcessCrash \/ WatcherRestart
           \/ ((CopyBootstrapKubeconfig \/ CertificateEnds) /\ UNCHANGED initVars)
           \/ (\E s \in Scripts : Assign(s)) \/ GiveBack
    PROVE  CredInv' /\ file'.config.cert >= file.config.cert
<1> USE DEF CredInv, PublishedTokenBacked, KubeconfigPairs
<1>1. /\ file \in HostFiles /\ csr \in Csr /\ issued \in Nat /\ file.config.cert \in Nat
  BY CredentialsAssumption DEF TypeInv, ATypeOK, HostFiles, Kubeconfig
<1>2. CASE UNCHANGED <<tokenVars, file, csr, issued>> /\ flow' \in {flow, FlowIdle}
  <2>1. CredInv'
    BY <1>2, QuietSteps
  <2> QED BY <1>1, <1>2, <2>1
<1>3. CASE ByoAdmissionReconcile
  <2>1. csr' # NoCsr /\ csr'.key = csr.key /\ csr'.cert = csr.cert /\ csr # NoCsr
    BY <1>1, <1>3 DEF ByoAdmissionReconcile, Csr, NoCsr
  <2> QED BY <1>1, <1>3, <2>1 DEF ByoAdmissionReconcile, tokenVars
<1>4. CASE Sign
  <2>1. csr # NoCsr /\ csr'.key = csr.key /\ csr'.cert = issued'
    BY <1>1, <1>4 DEF Sign, Csr, NoCsr
  <2>2. issued' = issued + 1 /\ csr.cert = 0 /\ UNCHANGED <<tokenVars, file, flow>>
    BY <1>4 DEF Sign
  <2> QED BY <1>1, <2>1, <2>2 DEF tokenVars
<1>5. CASE CollectCsr
  <2>1. csr' = NoCsr /\ csr'.cert = 0 /\ UNCHANGED <<tokenVars, file, flow, issued>>
    BY <1>5 DEF CollectCsr, NoCsr
  <2> QED BY <1>1, <2>1 DEF tokenVars
<1>6. CASE CopyBootstrapKubeconfig
  <2>1. file'.config = file.config /\ file'.boot = published
    BY <1>1, <1>6 DEF CopyBootstrapKubeconfig, HostFiles
  <2> QED BY <1>1, <1>6, <2>1 DEF CopyBootstrapKubeconfig, tokenVars
<1>7. CASE NetworkUp \/ CertificateEnds
  BY <1>2, <1>7 DEF NetworkUp, CertificateEnds
<1>8. CASE CloudInitStep
  BY <1>2, <1>8 DEF CloudInitStep, ReconcileScript, cleank8sdirectories, ExecuteWriteFile,
                    ExecuteCommands, credVars
<1>9. CASE ProcessCrash \/ WatcherRestart
  BY <1>2, <1>9 DEF ProcessCrash, WatcherRestart, Stop
<1>10. CASE (\E s \in Scripts : Assign(s)) \/ GiveBack
  BY <1>2, <1>10 DEF Assign, GiveBack, credVars
<1> QED BY <1>3, <1>4, <1>5, <1>6, <1>7, <1>8, <1>9, <1>10 DEF Controllers, Collect

\* Every step keeps the invariant, and only a write that is cut short takes the
\* certificate on disk away.
LEMMA CredentialInduction ==
    ASSUME TypeInv, CredInv, [ANext]_avars
    PROVE  CredInv' /\ ("torn" \notin FaultKinds => file'.config.cert >= file.config.cert)
<1>1. file.config.cert \in Nat
  BY CredentialsAssumption DEF TypeInv, ATypeOK, HostFiles, Kubeconfig
<1>2. CASE UNCHANGED avars
  <2>1. UNCHANGED <<tokenVars, file, csr, issued, flow>>
    BY <1>2 DEF avars, credVars
  <2>2. CredInv'
    BY <2>1, QuietSteps
  <2> QED BY <1>1, <2>1, <2>2
<1>3. CASE /\ UNCHANGED <<credVars, initVars>>
           /\ BkStep \/ (\E t \in Tokens : TokenExpires(t)) \/ NewBootstrapKubeconfig
  BY <1>1, <1>3, TokenSteps DEF credVars
<1> QED BY <1>2, <1>3, CredentialSteps, OtherSteps DEF ANext, Manager, Outside

\* The invariant holds throughout, also where a write of the kubeconfig is cut
\* short (csr.go and main.go: the flow is then over and the file says nothing).
THEOREM CredentialInvariant == ASpec => []CredInv
<1>1. AInit => CredInv
  BY DEF AInit, TokenInit, CredInit, CredInv, PublishedTokenBacked, KubeconfigPairs, BkIdle,
         FlowIdle, NoConfig, NoCsr
<1>2. TypeInv /\ CredInv /\ [ANext]_avars => CredInv'
  BY CredentialInduction
<1> QED BY <1>1, <1>2, AgentTypes, PTL DEF ASpec

\* The certificate and the key of the kubeconfig on disk always belong together,
\* through any number of attempts, crashes, restarts and renewals.
THEOREM PairsKept == ASpec => []KubeconfigPairs
<1>1. CredInv => KubeconfigPairs
  BY DEF CredInv
<1> QED BY <1>1, CredentialInvariant, PTL

\* No published bootstrap kubeconfig carries a token the API server never got.
THEOREM TokensBacked == ASpec => []PublishedTokenBacked
<1>1. CredInv => PublishedTokenBacked
  BY DEF CredInv
<1> QED BY <1>1, CredentialInvariant, PTL

\* No renewal puts an older certificate in place of a newer one.
THEOREM RenewalsForward ==
    ASSUME "torn" \notin FaultKinds
    PROVE  ASpec => CertificateNotOlder
<1>1. TypeInv /\ CredInv /\ [ANext]_avars => [file'.config.cert >= file.config.cert]_avars
  BY CredentialInduction
<1> QED BY <1>1, AgentTypes, CredentialInvariant, PTL DEF ASpec, CertificateNotOlder

(***************************************************************************)
(* The files of a script.                                                  *)
(***************************************************************************)
\* Induction: a set of numbers that has one has a least one.
LEMMA LeastNat ==
    ASSUME NEW T \in SUBSET Nat, T # {}
    PROVE  \E n \in T : \A m \in T : n <= m
<1> DEFINE R == {ss \in Nat \X Nat : ss[1] < ss[2]}
<1>1. IsWellFoundedOn(R, Nat)
  BY NatLessThanWellFounded DEF OpToRel
<1>2. T \subseteq Nat
  OBVIOUS
<1> HIDE DEF R
<1>3. \E n \in T : \A m \in T : ~(<<m, n>> \in R)
  BY Zenon, <1>1, <1>2, WFMin
<1> USE DEF R
<1>4. PICK n \in T : \A m \in T : ~(<<m, n>> \in R)
  BY <1>3
<1>5. ASSUME NEW m \in T PROVE n <= m
  <2>1. m \in Nat /\ n \in Nat /\ <<m, n>> \in Nat \X Nat
    BY <1>2
  <2>2. <<m, n>>[1] = m /\ <<m, n>>[2] = n
    OBVIOUS
  <2>3. ~(m < n)
    BY <1>4, <2>1, <2>2
  <2> QED BY <2>1, <2>3
<1> QED BY <1>5

\* What the i-th file of s makes of p, when p holds x.
Add(s, p, i, x) == IF s[i].path = p THEN WriteToFile(x, s[i]) ELSE x

\* f[i] is what the first i files of s make of p, for i up to n.
IsUpto(f, n, s, p) == f = [i \in 0..n |-> IF i = 0 THEN <<>> ELSE Add(s, p, i, f[i - 1])]

Upto(s, p) == CHOOSE f : IsUpto(f, Len(s), s, p)

\* The recursion of Expected has a solution, by induction on n.
LEMMA UptoExists ==
    ASSUME NEW s, NEW p, NEW k \in Nat
    PROVE  \E f : IsUpto(f, k, s, p)
<1> DEFINE T == {n \in Nat : ~ \E f : IsUpto(f, n, s, p)}
<1> SUFFICES ASSUME k \in T PROVE FALSE
  OBVIOUS
<1>1. PICK n \in T : \A m \in T : n <= m
  BY Zenon, LeastNat
<1>2. n # 0
  <2> DEFINE f == [i \in 0..0 |-> <<>>]
  <2>1. IsUpto(f, 0, s, p)
    BY DEF IsUpto
  <2> QED BY <2>1
<1>3. n \in Nat /\ n - 1 \in Nat /\ n - 1 \notin T
  BY <1>1, <1>2
<1>4. PICK f : IsUpto(f, n - 1, s, p)
  BY <1>3
<1> DEFINE g == [i \in 0..n |-> IF i = n THEN Add(s, p, n, f[n - 1]) ELSE f[i]]
           e == [i \in 0..n |-> IF i = 0 THEN <<>> ELSE Add(s, p, i, g[i - 1])]
<1>5. ASSUME NEW i \in 0..n PROVE g[i] = e[i]
  <2>1. \A j \in 0..(n - 1) : f[j] = IF j = 0 THEN <<>> ELSE Add(s, p, j, f[j - 1])
    BY <1>4 DEF IsUpto
  <2>2. CASE i = n
    <3>1. n - 1 \in 0..n /\ n - 1 # n
      BY <1>3
    <3>2. g[n - 1] = f[n - 1]
      BY <3>1
    <3> QED BY <1>2, <2>2, <3>2
  <2>3. CASE i # n /\ i # 0
    <3>1. i \in 0..(n - 1) /\ i - 1 \in 0..n /\ i - 1 # n
      BY <1>3, <2>3
    <3>2. g[i - 1] = f[i - 1] /\ g[i] = f[i]
      BY <2>3, <3>1
    <3> QED BY <2>1, <2>3, <3>1, <3>2
  <2>4. CASE i = 0
    <3>1. 0 \in 0..(n - 1) /\ 0 # n
      BY <1>2, <1>3
    <3> QED BY <2>1, <2>4, <3>1
  <2> QED BY <2>2, <2>3, <2>4
<1>6. g = e
  BY <1>5
<1>7. IsUpto(g, n, s, p)
  BY Zenon, <1>6 DEF IsUpto
<1> QED BY <1>7

\* What the first i files make of p, from what the first i - 1 make of it.
LEMMA UptoUnfolds ==
    ASSUME NEW s, NEW p, Len(s) \in Nat
    PROVE  /\ Upto(s, p)[0] = <<>>
           /\ \A i \in 1..Len(s) : Upto(s, p)[i] = Add(s, p, i, Upto(s, p)[i - 1])
<1> DEFINE u == Upto(s, p)
<1>1. IsUpto(u, Len(s), s, p)
  BY UptoExists DEF Upto
<1> HIDE DEF u
<1>2. u = [i \in 0..Len(s) |-> IF i = 0 THEN <<>> ELSE Add(s, p, i, u[i - 1])]
  BY <1>1 DEF IsUpto
<1>3. u[0] = <<>> /\ \A i \in 1..Len(s) : u[i] = Add(s, p, i, u[i - 1])
  <2>1. 0 \in 0..Len(s)
    OBVIOUS
  <2>2. ASSUME NEW i \in 1..Len(s) PROVE i \in 0..Len(s) /\ i # 0
    OBVIOUS
  <2> QED BY <1>2, <2>1, <2>2
<1> QED BY <1>3 DEF u

LEMMA ExpectedUpto == ASSUME NEW s, NEW p PROVE Expected(s, p) = Upto(s, p)[Len(s)]
BY Zenon DEF Expected, Upto, IsUpto, Add

\* The inductive invariant. A reconcile that runs a script has it until its
\* end, for a host that is given back only as a node; while it is at file i,
\* the emptied files hold what the first i - 1 files of the script say.
FilesInv ==
    /\ DOMAIN files = Paths
    /\ ci.pc # "idle" => script \in Scripts /\ ~joined
    /\ ci.pc = "write" => /\ ci.i \in 1..(Len(script) + 1)
                          /\ \A p \in Cleaned : files[p] = Upto(script, p)[ci.i - 1]

\* A step outside of the reconcile, or one that ends it.
LEMMA FilesKept ==
    ASSUME FilesInv, DOMAIN files' = Paths,
           \/ ci' = CiIdle
           \/ UNCHANGED <<files, script, joined, ci>>
           \/ files' = files /\ ci' = ci /\ ci.pc = "idle"
    PROVE  FilesInv'
BY DEF FilesInv, CiIdle

LEMMA CloudInitFiles ==
    ASSUME TypeInv, FilesInv, CloudInitStep
    PROVE  FilesInv'
<1>1. CASE ReconcileScript
  BY <1>1 DEF ReconcileScript, FilesInv, TypeInv, ATypeOK
<1>2. CASE cleank8sdirectories
  <2>1. CASE ci' = CiIdle
    <3>1. DOMAIN files' = Paths
      BY <1>2 DEF cleank8sdirectories
    <3> QED BY <2>1, <3>1, FilesKept
  <2>2. CASE /\ files' = [p \in Paths |-> IF p \in Cleaned THEN <<>> ELSE files[p]]
             /\ ci' = [pc |-> "write", i |-> 1]
    <3>1. script' = script /\ joined' = joined /\ script \in Scripts /\ ~joined
      BY <1>2 DEF cleank8sdirectories, FilesInv
    <3>2. Len(script) \in Nat /\ Cleaned \subseteq Paths
      BY <3>1, ScriptAssumption
    <3>3. \A p \in Cleaned : files'[p] = Upto(script, p)[0]
      BY <2>2, <3>2, UptoUnfolds
    <3>4. ci'.pc = "write" /\ ci'.i = 1 /\ ci'.i - 1 = 0 /\ DOMAIN files' = Paths
      BY <2>2
    <3>5. ci'.i \in 1..(Len(script) + 1)
      BY <3>2, <3>4
    <3> QED BY <3>1, <3>3, <3>4, <3>5 DEF FilesInv
  <2> QED BY <1>2, <2>1, <2>2 DEF cleank8sdirectories
<1>3. CASE ExecuteWriteFile
  <2> DEFINE f == script[ci.i]
             n == ci.i
             written == [files EXCEPT ![f.path] = WriteToFile(@, f)]
  <2>1. CASE ci' = CiIdle
    <3>1. DOMAIN files' = Paths
      BY <1>3 DEF ExecuteWriteFile, FilesInv
    <3> QED BY <2>1, <3>1, FilesKept
  <2>2. CASE files' = written /\ ci' = [ci EXCEPT !.i = @ + 1]
    <3>1. /\ script' = script /\ joined' = joined /\ script \in Scripts /\ ~joined
          /\ ci.pc = "write" /\ n <= Len(script) /\ n \in 1..(Len(script) + 1)
          /\ \A p \in Cleaned : files[p] = Upto(script, p)[n - 1]
      BY <1>3 DEF ExecuteWriteFile, FilesInv
    <3>2. Len(script) \in Nat /\ Cleaned \subseteq Paths
      BY <3>1, ScriptAssumption
    <3>3. n \in 1..Len(script)
      BY <3>1, <3>2
    <3>4. ci'.pc = "write" /\ ci'.i = n + 1
      BY <2>2, <3>1 DEF TypeInv, ATypeOK
    <3>5. ci'.i \in 1..(Len(script) + 1) /\ ci'.i - 1 = n
      BY <3>2, <3>3, <3>4
    <3>6. DOMAIN files' = Paths
      BY <2>2 DEF FilesInv
    <3>7. ASSUME NEW p \in Cleaned PROVE files'[p] = Upto(script, p)[n]
      <4>1. Upto(script, p)[n] = Add(script, p, n, Upto(script, p)[n - 1])
        BY <3>2, <3>3, UptoUnfolds
      <4>2. files'[p] = Add(script, p, n, files[p])
        BY <2>2, <3>2 DEF Add, FilesInv
      <4> QED BY <3>1, <4>1, <4>2
    <3> HIDE DEF n
    <3> QED BY <3>1, <3>4, <3>5, <3>6, <3>7 DEF FilesInv
  <2> QED BY <1>3, <2>1, <2>2 DEF ExecuteWriteFile
<1>4. CASE ExecuteCommands
  BY <1>4, FilesKept DEF ExecuteCommands, FilesInv
<1> QED BY <1>1, <1>2, <1>3, <1>4 DEF CloudInitStep

\* A script is never run over files that it does not know of: every step of
\* the agent process keeps what its reconcile has written so far.
THEOREM FilesInvariant == ASpec => []FilesInv
<1>1. AInit => FilesInv
  BY DEF AInit, CloudInitInit, FilesInv, CiIdle
<1>2. TypeInv /\ FilesInv /\ [ANext]_avars => FilesInv'
  <2> SUFFICES ASSUME TypeInv, FilesInv, [ANext]_avars PROVE FilesInv'
    OBVIOUS
  <2>1. CASE UNCHANGED initVars
    BY <2>1, FilesKept DEF initVars, FilesInv
  <2>2. CASE UNCHANGED avars
    BY <2>1, <2>2 DEF avars
  <2>3. CASE Manager \/ Controllers \/ Collect \/ Rotate \/ (NetworkUp /\ UNCHANGED initVars)
    BY <2>1, <2>3 DEF Manager, Controllers, Collect, Rotate
  <2>4. CASE Credentials
    BY <2>4, FilesKept DEF Credentials, FilesInv
  <2>5. CASE ProcessCrash \/ WatcherRestart
    BY <2>5, FilesKept DEF ProcessCrash, WatcherRestart, Stop, FilesInv
  <2>6. ASSUME NEW s \in Scripts, Assign(s) PROVE FilesInv'
    BY <2>6, ScriptAssumption, FilesKept DEF Assign, FilesInv
  <2>7. CASE GiveBack
    BY <2>7, FilesKept DEF GiveBack, FilesInv
  <2>8. CASE Outside
    BY <2>1, <2>6, <2>7, <2>8 DEF Outside
  <2> QED BY <2>2, <2>3, <2>4, <2>5, <2>8, CloudInitFiles DEF ANext
<1> QED BY <1>1, <1>2, AgentTypes, PTL DEF ASpec

\* Before the commands of a script run, the files it writes in the emptied
\* directories hold what the script says and nothing else, for scripts of any
\* length and whatever earlier attempts and ByoMachines left there.
THEOREM FilesAsWritten == ASpec => []FilesOfScript
<1>1. FilesInv => FilesOfScript
  <2> SUFFICES ASSUME FilesInv, ci.pc = "write", ci.i = Len(script) + 1, NEW p \in Cleaned
               PROVE  files[p] = Expected(script, p)
    BY DEF FilesOfScript
  <2>1. Len(script) \in Nat
    BY ScriptAssumption DEF FilesInv
  <2>2. ci.i - 1 = Len(script)
    BY <2>1
  <2> QED BY <2>2, ExpectedUpto DEF FilesInv
<1> QED BY <1>1, FilesInvariant, PTL

============================================================================
