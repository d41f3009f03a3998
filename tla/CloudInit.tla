----------------------------- MODULE CloudInit -----------------------------
(***************************************************************************)
(* The execution of a bootstrap script by the agent: cleank8sdirectories,  *)
(* then every file of write_files, then the commands. Contents are         *)
(* sequences; a write that does not append starts at the front and, as the *)
(* file is not truncated, keeps what lies beyond its end.                  *)
(***************************************************************************)
EXTENDS AgentCredentials, Sequences

CONSTANTS
    Scripts,   \* the bootstrap scripts: sequences of files [path, append, content]
    Paths,     \* the files they write
    Cleaned,   \* those in the directories that cleank8sdirectories empties
    None

ASSUME ScriptAssumption ==
    /\ Cleaned \subseteq Paths /\ None \notin Scripts
    /\ \A s \in Scripts : Len(s) \in Nat /\ \A i \in 1..Len(s) : s[i].path \in Paths

VARIABLES
    files,     \* the contents of the files
    script,    \* the bootstrap secret of the ByoMachine that has the host
    joined,    \* K8sNodeBootstrapSucceeded
    ci         \* the reconcile in progress: its step and the file it is at

initVars == <<files, script, joined, ci>>

CiIdle == [pc |-> "idle", i |-> 0]

CloudInitInit ==
    /\ files = [p \in Paths |-> <<>>]
    /\ script = None /\ joined = FALSE
    /\ ci = CiIdle

\* What WriteToFile makes of a file.
WriteToFile(old, f) ==
    IF f.append THEN old \o f.content
    ELSE f.content \o SubSeq(old, Len(f.content) + 1, Len(old))

\* What a script leaves in a file that is not there when it starts.
Expected(s, p) ==
    LET upto[i \in 0..Len(s)] ==
          IF i = 0 THEN <<>>
          ELSE IF s[i].path = p THEN WriteToFile(upto[i - 1], s[i]) ELSE upto[i - 1]
    IN upto[Len(s)]

\* reconcileNormal of a host that has a bootstrap secret and is no node yet.
ReconcileScript ==
    /\ proc.pc = "run" /\ ci.pc = "idle"
    /\ script # None /\ ~joined
    /\ ci' = [pc |-> "clean", i |-> 0]
    /\ UNCHANGED <<tokenVars, faults, credVars, files, script, joined>>

\* A wrong cleank8sdirectories, which goes on when it fails.
cleanOrGoOn ==
    /\ ci.pc = "clean"
    /\ \/ files' = [p \in Paths |-> IF p \in Cleaned THEN <<>> ELSE files[p]] /\ faults' = faults
       \/ files' = files /\ Fault("clean")
    /\ ci' = [pc |-> "write", i |-> 1]
    /\ UNCHANGED <<tokenVars, credVars, script, joined>>

\* A directory that cannot be emptied does not keep the other from it, and
\* ends the reconcile with an error.
cleank8sdirectories ==
    /\ ci.pc = "clean"
    /\ \/ /\ files' = [p \in Paths |-> IF p \in Cleaned THEN <<>> ELSE files[p]]
          /\ ci' = [pc |-> "write", i |-> 1]
          /\ faults' = faults
       \/ /\ Fault("clean")
          /\ \E some \in SUBSET Cleaned :
               files' = [p \in Paths |-> IF p \in some THEN <<>> ELSE files[p]]
          /\ ci' = CiIdle
    /\ UNCHANGED <<tokenVars, credVars, script, joined>>

\* A wrong Execute, which turns the panic into an error.
ExecuteRecovering ==
    /\ ci.pc = "write" /\ ci.i <= Len(script)
    /\ IF proc.parser
         THEN /\ files' = [files EXCEPT ![script[ci.i].path] = WriteToFile(@, script[ci.i])]
              /\ ci' = [ci EXCEPT !.i = @ + 1]
         ELSE files' = files /\ ci' = CiIdle
    /\ UNCHANGED <<tokenVars, faults, credVars, script, joined>>

\* One file of Execute. Without a template parser ParseTemplate panics, which
\* ends the process. An error may come before the content is written or, from
\* the permissions and the owner, after it.
ExecuteWriteFile ==
    /\ ci.pc = "write" /\ ci.i <= Len(script)
    /\ LET f == script[ci.i]
           written == [files EXCEPT ![f.path] = WriteToFile(@, f)]
       IN \/ /\ proc.parser
             /\ files' = written
             /\ ci' = [ci EXCEPT !.i = @ + 1]
             /\ UNCHANGED <<proc, flow, faults>>
          \/ /\ ~proc.parser
             /\ proc' = Down /\ flow' = FlowIdle /\ ci' = CiIdle
             /\ UNCHANGED <<files, faults>>
          \/ /\ proc.parser
             /\ Fault("file")
             /\ files' \in {files, written}
             /\ ci' = CiIdle
             /\ UNCHANGED <<proc, flow>>
    /\ UNCHANGED <<tokenVars, file, csr, issued, ending, keys, network, script, joined>>

\* The commands, and the report of their success. A command that fails, or a
\* report that is lost, has the script run again from its start.
ExecuteCommands ==
    /\ ci.pc = "write" /\ ci.i = Len(script) + 1
    /\ \/ joined' = TRUE /\ faults' = faults
       \/ joined' = joined /\ Fault("script")
    /\ ci' = CiIdle
    /\ UNCHANGED <<tokenVars, credVars, files, script>>

CloudInitStep ==
    \/ ReconcileScript
    \/ cleank8sdirectories
    \/ ExecuteWriteFile
    \/ ExecuteCommands

\* A ByoMachine gets a registered host, and gives it back once it is a node
\* (the rest of that life is in Byoh). The files stay where they are.
Assign(s) ==
    /\ proc.pc = "run" /\ script = None
    /\ script' = s
    /\ UNCHANGED <<tokenVars, faults, credVars, files, joined, ci>>

GiveBack ==
    /\ proc.pc = "run" /\ joined
    /\ script' = None /\ joined' = FALSE
    /\ UNCHANGED <<tokenVars, faults, credVars, files, ci>>

============================================================================
