--------------------------- MODULE MCEventHandles ---------------------------
(* EventHandles for TLC. *)
EXTENDS EventHandles, TLC

Symmetry == Permutations(Handles) \cup Permutations(Fds)
=============================================================================
