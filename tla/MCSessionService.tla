-------------------------- MODULE MCSessionService --------------------------
(* Small instances of SessionService for TLC.                              *)
EXTENDS SessionService, TLC

SessionSymmetry == Permutations(Clients) \cup Permutations(Chats)

=============================================================================
