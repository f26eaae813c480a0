-------------------------- MODULE MCPortConnection --------------------------
(***************************************************************************)
(* Instances of PortConnection for TLC: an OutPort between two InPorts.    *)
(***************************************************************************)
EXTENDS PortConnection

CONSTANTS in1, out, in2

ThePorts == {in1, out, in2}
InPorts == {in1, in2}

\* The consumer first, and with a provider on either side; one order of the
\* ports.
OneOrder == {<<out, in2>>, <<in1, out, in2>>}

LimitOfO == [p \in ThePorts |-> IF p = out THEN 1 ELSE NoLimit]
FanOfA == [p \in ThePorts |-> IF p = in1 THEN 1 ELSE 2]

=============================================================================
