----------------------------- MODULE MCSettings -----------------------------
(* An instance of Settings for TLC. *)
EXTENDS Settings, TLC

(* The processes are interchangeable. *)
Symmetry == Permutations(Procs)

(* Three changes without a fault, or two with two *)
Small == edits = 3 => faults = 0

=============================================================================
