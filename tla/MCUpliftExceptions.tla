----------------------------- MODULE MCUpliftExceptions -----------------------------
(* A small instance of UpliftExceptions. *)
EXTENDS UpliftExceptions, TLC

\* A device is found ready or blocked by everything.
AllOrNothing == {{}, Blockers}

Symmetry ==
    Permutations(Exceptions) \cup Permutations(Blockers) \cup Permutations(Requests)
=====================================================================================
