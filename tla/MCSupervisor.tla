---------------------------- MODULE MCSupervisor ----------------------------
(***************************************************************************)
(* Supervisor for TLC: the configurations that a small instance chooses    *)
(* from.                                                                   *)
(***************************************************************************)
EXTENDS Supervisor

\* A threshold of two slices and logs, and a child that can be terminated; a restart
\* delay and none of these, with and without the descendants.
MCConfigs == { [threshold |-> 2, restartDelay |-> 0, redirected |-> TRUE,
                terminates |-> TRUE, killTree |-> TRUE],
               [threshold |-> 0, restartDelay |-> 2, redirected |-> FALSE,
                terminates |-> FALSE, killTree |-> TRUE],
               [threshold |-> 0, restartDelay |-> 2, redirected |-> FALSE,
                terminates |-> FALSE, killTree |-> FALSE] }
=============================================================================
