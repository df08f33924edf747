SPECIFICATION Spec
CONSTANTS
  main = main
  w1 = w1
  w2 = w2
  th1 = th1
  th2 = th2
  n1 = n1
  n2 = n2
  NULL = NULL
  Tasks <- MCTasks
  Main = main
  Threads <- MCThreads
  Nodes <- MCNodes
  WarmFirst = TRUE
  OwnSocketFirst = TRUE
  StreamsStay = FALSE
  WorkerInitHangs = TRUE
INVARIANT BringUpBeforeAnyCall
