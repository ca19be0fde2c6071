-------------------------- MODULE MCDaemonClient --------------------------
(* DaemonClient for TLC: one session, and faults in any two places.        *)
EXTENDS DaemonClient

CONSTANTS s1
=============================================================================
