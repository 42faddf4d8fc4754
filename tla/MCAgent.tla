------------------------------ MODULE MCAgent ------------------------------
(* Small instances of Agent for TLC; the .cfg files give the bounds.        *)
EXTENDS AgentProperties
=============================================================================
