--------------------------- MODULE MCPublisherNew ---------------------------
(***************************************************************************)
(* Instances of PublisherNew for TLC.                                      *)
(***************************************************************************)
EXTENDS PublisherNew

\* The failures that differ in what the publisher does with them.
SomeFailures == {"PORT_ERROR", "SEND_FULL", "CONNECTION_LOST"}

EveryPolicy == {"all", "fifo", "skip", "new"} \X BOOLEAN
HealthyNew == {<<"new", FALSE>>}

=============================================================================
