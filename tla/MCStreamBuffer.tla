--------------------------- MODULE MCStreamBuffer ---------------------------
(* A TLC instance of StreamBuffer: two threads on one address, integers of *)
(* 3 and 6 bits, and the arguments at which the check changes its mind: a  *)
(* sum of 0, of a size, one more, of 2^3 and more, lengths from 2^2 on.    *)
EXTENDS StreamBuffer

CONSTANTS t1, t2, b1

MCThreads == {t1, t2}
MCBuffers == {b1}
MCSizes   == {0, 2, 5}
MCOffsets == {-1, 0, 1, 4, 31}
MCLengths == {0, 1, 2, 4, 7}

=============================================================================
