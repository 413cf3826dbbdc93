-------------------------- MODULE MCCheckExecution --------------------------
(* CheckExecution for TLC: few ticks, two workers, one client. *)
EXTENDS CheckExecution, TLC

ExecSymmetry == Permutations(Workers)
=============================================================================
