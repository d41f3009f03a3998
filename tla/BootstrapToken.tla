--------------------------- MODULE BootstrapToken ---------------------------
(***************************************************************************)
(* The BootstrapKubeconfig controller: for a BootstrapKubeconfig without   *)
(* data it makes a bootstrap token, stores it as a secret of kube-system   *)
(* with a time to live of thirty minutes, and publishes a kubeconfig with  *)
(* the token in the status. The kubeconfig then reaches the hosts by hand. *)
(***************************************************************************)
EXTENDS Naturals

CONSTANTS
    MaxTokens,    \* how many tokens a behaviour may generate
    FaultKinds,   \* the kinds of fault that may happen
    MaxFaults     \* how many faults a behaviour may hold

ASSUME TokenAssumption ==
    /\ MaxTokens \in Nat
    /\ FaultKinds \subseteq {"managerApi", "agentApi", "agentCrash", "torn", "keyRemove",
                            "csrTimeout", "clean", "file", "script"}
    /\ MaxFaults \in Nat

VARIABLES
    generated,   \* the number of tokens generated so far
    secrets,     \* the tokens stored as secrets
    expired,     \* the tokens whose time to live is over
    published,   \* the token in Status.BootstrapKubeconfigData, 0 for nil
    bk,          \* the reconcile in progress: its step and its token
    faults       \* the number of faults so far

tokenVars == <<generated, secrets, expired, published, bk>>

Tokens == 1..MaxTokens

Valid == secrets \ expired

BkIdle == [pc |-> "idle", token |-> 0]

TokenInit ==
    /\ generated = 0 /\ secrets = {} /\ expired = {} /\ published = 0
    /\ bk = BkIdle
    /\ faults = 0

Fault(kind) == kind \in FaultKinds /\ faults < MaxFaults /\ faults' = faults + 1

\* "Do not create secrets again" once there is data.
ReconcileBootstrapKubeconfig ==
    /\ bk.pc = "idle"
    /\ published = 0
    /\ generated < MaxTokens
    /\ generated' = generated + 1
    /\ bk' = [pc |-> "secret", token |-> generated + 1]
    /\ UNCHANGED <<secrets, expired, published, faults>>

\* A wrong order of the two requests: the secret is created although, and
\* after, the kubeconfig is published.
publishFirst ==
    /\ bk.pc = "secret"
    /\ published' = bk.token
    /\ \/ secrets' = secrets \cup {bk.token} /\ faults' = faults
       \/ secrets' = secrets /\ Fault("managerApi")
    /\ bk' = BkIdle
    /\ UNCHANGED <<generated, expired>>

\* A reconcile that fails here, or whose answer is lost, starts over with
\* another token.
GenerateSecretFromBootstrapToken ==
    /\ bk.pc = "secret"
    /\ \/ /\ secrets' = secrets \cup {bk.token}
          /\ \/ bk' = [bk EXCEPT !.pc = "publish"] /\ faults' = faults
             \/ bk' = BkIdle /\ Fault("managerApi")
       \/ secrets' = secrets /\ bk' = BkIdle /\ Fault("managerApi")
    /\ UNCHANGED <<generated, expired, published>>

GenerateBootstrapKubeconfigFromBootstrapToken ==
    /\ bk.pc = "publish"
    /\ \/ published' = bk.token /\ faults' = faults
       \/ published' = published /\ Fault("managerApi")
    /\ bk' = BkIdle
    /\ UNCHANGED <<generated, secrets, expired>>

TokenExpires(t) ==
    /\ t \in Valid
    /\ expired' = expired \cup {t}
    /\ UNCHANGED <<generated, secrets, published, bk, faults>>

\* The operator makes a new BootstrapKubeconfig when the token of the old one
\* is no longer any good.
NewBootstrapKubeconfig ==
    /\ published \in expired
    /\ published' = 0
    /\ UNCHANGED <<generated, secrets, expired, bk, faults>>

BkStep ==
    \/ ReconcileBootstrapKubeconfig
    \/ GenerateSecretFromBootstrapToken
    \/ GenerateBootstrapKubeconfigFromBootstrapToken

============================================================================
