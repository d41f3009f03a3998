------------------------------- MODULE MCByoh -------------------------------
(***************************************************************************)
(* Byoh for TLC. Machines are interchangeable when all or none of them has *)
(* an installer; so are hosts when all or none skips the installation.     *)
(***************************************************************************)
EXTENDS Byoh, TLC

Symmetry == Permutations(Machines) \cup Permutations(Hosts)

============================================================================
