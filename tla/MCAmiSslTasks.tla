--------------------------- MODULE MCAmiSslTasks ---------------------------
(* TLC instances of AmiSslTasks: main, two workers, two Thread addresses   *)
(* and two node addresses, so that every address is handed out again.      *)
EXTENDS AmiSslTasks, TLC

CONSTANTS main, w1, w2, th1, th2, n1, n2

MCTasks   == {main, w1, w2}
MCThreads == {th1, th2}
MCNodes   == {n1, n2}

(* Workers, Threads and nodes are interchangeable.                         *)
Symmetry == Permutations({w1, w2}) \cup Permutations(MCThreads) \cup Permutations(MCNodes)

=============================================================================
