--------------------------- MODULE MCCollectorLock ---------------------------
(* Small instances of CollectorLock for TLC; processes are interchangeable. *)
EXTENDS CollectorLock, TLC

ProcSymmetry == Permutations(Procs)
=============================================================================
