----------------------------- MODULE DocLockMC -----------------------------
EXTENDS DocLock, TLC

CONSTANTS d1, d2, d3

MCHolders == {d1, d2, d3}

(* The daemons are interchangeable. *)
HolderSymmetry == Permutations(MCHolders)

=============================================================================
