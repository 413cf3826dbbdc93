--------------------------- MODULE MCRunDispatch ---------------------------
(* Small instances of RunDispatch for TLC.  The overlapping cycles are alike; *)
(* symmetry is used for safety only.                                          *)
EXTENDS RunDispatch, TLC

DispatchSymmetry == Permutations(Dispatchers) \cup Permutations(Monitors)
=============================================================================
