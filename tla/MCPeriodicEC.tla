---------------------------- MODULE MCPeriodicEC ----------------------------
(* Instances of PeriodicEC for TLC.                                        *)
EXTENDS PeriodicEC, TLC

CONSTANTS k1, k2

OneClient == {k1}
TwoClients == {k1, k2}
ClientSymmetry == Permutations(TwoClients)

AllRequests == Requests

(* What the clients of a run call.                                         *)
ServiceOps == Requests \cup {"start", "destroy"}
ActivationOps == {"activation", "deactivation", "start"}
AllOps == Operations

(* Which callbacks may fail in a run.                                      *)
NoFailure == {}
WorkFailures == {"on_activated", "on_execute", "on_state_update"}
AllFailures == WorkFailures \cup {"on_reset", "on_rate_changed"}
=============================================================================
