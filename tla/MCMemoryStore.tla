---------------------------- MODULE MCMemoryStore ----------------------------
(* Small instances of MemoryStore for TLC: the memories are interchangeable.*)
EXTENDS MemoryStore, TLC

MemorySymmetry == Permutations(Memories)

=============================================================================
