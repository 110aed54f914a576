---------------------------- MODULE MCMindEngine ----------------------------
(* Small instances of MindEngine for TLC: the calls are model values and    *)
(* the turns are interchangeable.                                           *)
EXTENDS MindEngine, TLC

\* Safety only: symmetry is unsound for the temporal properties.
TurnSymmetry == Permutations(Turns)

=============================================================================
