----------------------------- MODULE MCECWorker -----------------------------
(* Instances of ECWorker for TLC.                                          *)
EXTENDS ECWorker

CONSTANTS k1, c1

OneClient == {k1}
OneParticipant == {c1}

(* What the client calls.                                                  *)
AddOps == {"add", "start"}
=============================================================================
