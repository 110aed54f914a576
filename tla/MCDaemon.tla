------------------------------ MODULE MCDaemon ------------------------------
(* Small instances of Daemon for TLC.                                      *)
EXTENDS Daemon, TLC

\* Daemons started in the foreground, and no commands.
ForegroundSpec == Init /\ [][Living]_vars

DaemonSymmetry == Permutations(Daemons)

=============================================================================
