----------------------------- MODULE MCComputer -----------------------------
(* Small instances of Computer for TLC. *)
EXTENDS ComputerProperties
=============================================================================
