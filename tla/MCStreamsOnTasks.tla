-------------------------- MODULE MCStreamsOnTasks --------------------------
(* TLC instances of StreamsOnTasks: main and one or two workers, whose     *)
(* task, Thread and node addresses come again.                             *)
EXTENDS StreamsOnTasks, TLC

CONSTANTS main, w1, w2, th1, th2, n1, n2, k1, k2, d1, d2

MCTasks == {main, w1}
MCThreeTasks == {main, w1, w2}
MCThreads == {th1, th2}
MCNodes == {n1, n2}
MCConns == {k1, k2}
MCFds == {d1, d2}

Symmetry ==
  Permutations({w1, w2}) \cup Permutations(MCThreads) \cup Permutations(MCNodes)
  \cup Permutations(MCConns)

=============================================================================
