------------------------------- MODULE MCDiary -------------------------------
(* A small instance of Diary for TLC.                                       *)
EXTENDS Diary

=============================================================================
