---------------------------- MODULE MCRecallCache ----------------------------
(* Instances of RecallCache for TLC. *)
EXTENDS RecallCache, TLC

\* Calls and mutating handlers are interchangeable: sound for the runs that
\* check no liveness property.
Symmetry == Permutations(Requests) \cup Permutations(Mutators)
=============================================================================
