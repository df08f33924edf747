SPECIFICATION JointSpec
CONSTANTS
  main = main
  w1 = w1
  w2 = w2
  th1 = th1
  th2 = th2
  n1 = n1
  n2 = n2
  k1 = k1
  k2 = k2
  d1 = d1
  d2 = d2
  NULL = NULL
  Tasks <- MCThreeTasks
  Main = main
  Threads <- MCThreads
  Nodes <- MCNodes
  WarmFirst = TRUE
  OwnSocketFirst = TRUE
  StreamsStay = TRUE
  WorkerInitHangs = TRUE
  Conns <- MCConns
  Fds <- MCFds
  ReleaseFirst = FALSE
  UseWhileOpen = FALSE
INVARIANT CallsReachTheirConnection
INVARIANT JointInv
SYMMETRY Symmetry
