--------------------- MODULE MCAsyncSecureSocketStream ---------------------
(* TLC instances of AsyncSecureSocketStream.                               *)
EXTENDS AsyncSecureSocketStream, TLC

CONSTANTS c1, c2, c3, s1, s2

MCCallers == {c1, c2}
MCThreeCallers == {c1, c2, c3}
MCStreams == {s1, s2}
MCOneStream == {s1}

Symmetry == Permutations(MCThreeCallers) \cup Permutations(MCStreams)

=============================================================================
