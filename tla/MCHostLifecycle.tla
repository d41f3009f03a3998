-------------------------- MODULE MCHostLifecycle --------------------------
(***************************************************************************)
(* HostLifecycle for TLC: the users of one host move it between regions,   *)
(* the users of the other keep to one.                                     *)
(***************************************************************************)
EXTENDS HostLifecycle, TLC

CONSTANTS h1, h2

Moving == h1 :> Regions @@ h2 :> {"east"}

============================================================================
