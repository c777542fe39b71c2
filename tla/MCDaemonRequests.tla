-------------------------- MODULE MCDaemonRequests --------------------------
(* The instance of DaemonRequests that TLC checks.                         *)
EXTENDS DaemonRequests, TLC

CONSTANTS d1, d2, c1, q1

=============================================================================
