---------------------------- MODULE MCChatHandler ----------------------------
(* Small instances of ChatHandler for TLC: requests are model values.       *)
EXTENDS ChatHandler, TLC

\* Safety only: symmetry is unsound for the temporal properties.
RequestSymmetry == Permutations(Requests)

=============================================================================
