-------------------------- MODULE MCAgentProcess --------------------------
(***************************************************************************)
(* AgentProcess for TLC. Two scripts write the same file, in a directory   *)
(* that is emptied first, with contents of different lengths; one of them  *)
(* appends to it, the other writes a file elsewhere.                       *)
(***************************************************************************)
EXTENDS AgentProcess

File(p, a, c) == [path |-> p, append |-> a, content |-> c]

Long == <<File("run", FALSE, <<"a", "b">>), File("run", TRUE, <<"c">>)>>

Short == <<File("run", FALSE, <<"x">>), File("etc", FALSE, <<"x">>)>>

TwoScripts == {Long, Short}

============================================================================
