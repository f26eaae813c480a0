---------------------------- MODULE MCRingBuffer ----------------------------
(***************************************************************************)
(* Instances of RingBuffer for TLC.                                        *)
(***************************************************************************)
EXTENDS RingBuffer

CONSTANTS w1, w2, r1, r2, nobody

OneWriter == {w1}
TwoWriters == {w1, w2}
OneReader == {r1}
TwoReaders == {r1, r2}

PolicyOnly == {FALSE}
Both == BOOLEAN

\* Which writer writes a value, and which reader reads it, makes no difference.
Symmetry == Permutations(TwoWriters) \cup Permutations(TwoReaders)

=============================================================================
