------------------------- MODULE AmiSslTasksProofs -------------------------
(* What holds of AmiSslTasks for every number of tasks, Threads and nodes. *)
EXTENDS AmiSslTasks, TLAPS

(* Every variable of the bring-up keeps its type.                          *)
THEOREM TypeCorrect == Spec => []TypeOK
<1> USE Assumptions DEF TypeOK, Workers, Goto, Labels, InConstructor, InWarm, InClose
<1>1. Init => TypeOK
  <2> SUFFICES ASSUME Init PROVE TypeOK
    OBVIOUS
  <2> USE DEF Init
  <2>1. pc \in [Tasks -> Labels]
    OBVIOUS
  <2>2. finalizers \in [Tasks -> SUBSET {"socket", "amissl"}]
    OBVIOUS
  <2>3. SslBase \in [Tasks -> {"none", "own", "global"}]
    OBVIOUS
  <2>4. QED
    BY <2>1, <2>2, <2>3
<1>2. TypeOK /\ [Next]_vars => TypeOK'
  <2> SUFFICES ASSUME TypeOK, [Next]_vars PROVE TypeOK'
    OBVIOUS
  <2> USE DEF taskVars, nodeVars, amisslVars, globalVars
  <2>2. ASSUME NEW t \in Tasks, BringUp(t) PROVE TypeOK'
    <3>1. CASE EnsureLookup(t)
      BY <3>1 DEF EnsureLookup
    <3>2. CASE SslTaskRegister(t)
      BY <3>2 DEF SslTaskRegister, Throw, LeaveConstructor
    <3>3. CASE InitAmiSSLSucceeds(t)
      BY <3>3 DEF InitAmiSSLSucceeds, TaskSocketBase
    <3>4. CASE InitAmiSSLFails(t)
      BY <3>4 DEF InitAmiSSLFails, UnlinkFailed, Throw, LeaveConstructor
    <3>5. CASE NativeInit(t)
      BY <3>5 DEF NativeInit, WithSslFinalizer
    <3>6. QED
      BY <2>2, <3>1, <3>2, <3>3, <3>4, <3>5 DEF BringUp
  <2>3. ASSUME NEW t \in Tasks, GlobalInit(t) PROVE TypeOK'
    BY <2>3 DEF GlobalInit, CheckFlag, WarmCheckFlag, EnsureInitialised, SetFlag, FlagAfter
  <2>4. ASSUME NEW t \in Tasks, Finalizers(t) PROVE TypeOK'
    <3>1. CASE SocketFinalizer(t)
      BY <3>1 DEF SocketFinalizer
    <3>2. CASE AmiSSLFinalizer(t)
      BY <3>2 DEF AmiSSLFinalizer
    <3>3. CASE SslTaskUnregister(t)
      BY <3>3 DEF SslTaskUnregister, NodesOf, HeapAfterUnlink
    <3>4. CASE CleanupAmiSSL(t)
      BY <3>4 DEF CleanupAmiSSL
    <3>5. CASE FreeNode(t)
      BY <3>5 DEF FreeNode
    <3>6. CASE ThreadEnded(t)
      BY <3>6 DEF ThreadEnded
    <3>7. QED
      BY <2>4, <3>1, <3>2, <3>3, <3>4, <3>5, <3>6 DEF Finalizers
  <2>5. ASSUME NEW t \in Tasks, Program(t) PROVE TypeOK'
    BY <2>5 DEF Program, StartWorker, SocketCreate, BeginConstructor,
                EndConstructor, LeaveConstructor, BeginWarm, BeginCall, EndCall, EndThread
  <2>6. CASE UNCHANGED vars
    BY <2>6 DEF vars
  <2>7. QED
    BY <2>2, <2>3, <2>4, <2>5, <2>6 DEF Next
<1>3. QED
  BY <1>1, <1>2, PTL DEF Spec

(* One step of any task preserves the registry part of the invariant.     *)
LEMMA RegistryStep == TypeOK /\ RegistryInv /\ [Next]_vars => RegistryInv'
<1> SUFFICES ASSUME TypeOK, RegistryInv, [Next]_vars PROVE RegistryInv'
  OBVIOUS
<1> USE Assumptions DEF TypeOK, Workers, Goto, InWarm, BroughtUp,
        taskVars, nodeVars, amisslVars, globalVars,
        NodesOf, RegistryInv, MainIsApart, ThreadsAreDistinct, WorkerIsAt, NodesAreOwned
<1>1. ASSUME NEW t \in Tasks, BringUp(t) PROVE RegistryInv'
  <2>1. CASE EnsureLookup(t)
    BY <2>1 DEF EnsureLookup
  <2>2. CASE SslTaskRegister(t)
    BY <2>2 DEF SslTaskRegister, Throw, LeaveConstructor
  <2>3. CASE InitAmiSSLSucceeds(t)
    BY <2>3 DEF InitAmiSSLSucceeds, TaskSocketBase
  <2>4. CASE InitAmiSSLFails(t)
    BY <2>4 DEF InitAmiSSLFails, UnlinkFailed, Throw, LeaveConstructor
  <2>5. CASE NativeInit(t)
    BY <2>5 DEF NativeInit, WithSslFinalizer
  <2>6. QED
    BY <1>1, <2>1, <2>2, <2>3, <2>4, <2>5 DEF BringUp
<1>2. ASSUME NEW t \in Tasks, GlobalInit(t) PROVE RegistryInv'
  <2>1. CASE CheckFlag(t)
    BY <2>1 DEF CheckFlag
  <2>2. CASE WarmCheckFlag(t)
    BY <2>2 DEF WarmCheckFlag
  <2>3. CASE EnsureInitialised(t)
    BY <2>3 DEF EnsureInitialised
  <2>4. CASE SetFlag(t)
    BY <2>4 DEF SetFlag, FlagAfter
  <2>5. QED
    BY <1>2, <2>1, <2>2, <2>3, <2>4 DEF GlobalInit
<1>3. ASSUME NEW t \in Tasks, Finalizers(t) PROVE RegistryInv'
  <2>1. CASE SocketFinalizer(t)
    BY <2>1 DEF SocketFinalizer
  <2>2. CASE AmiSSLFinalizer(t)
    BY <2>2 DEF AmiSSLFinalizer
  <2>3. CASE SslTaskUnregister(t)
    BY <2>3 DEF SslTaskUnregister, HeapAfterUnlink
  <2>4. CASE CleanupAmiSSL(t)
    BY <2>4 DEF CleanupAmiSSL
  <2>5. CASE FreeNode(t)
    BY <2>5 DEF FreeNode
  <2>6. CASE ThreadEnded(t)
    BY <2>6 DEF ThreadEnded
  <2>7. QED
    BY <1>3, <2>1, <2>2, <2>3, <2>4, <2>5, <2>6 DEF Finalizers
<1>4. ASSUME NEW t \in Tasks, Program(t) PROVE RegistryInv'
  <2>1. CASE SocketCreate(t)
    BY <2>1 DEF SocketCreate
  <2>2. CASE EndConstructor(t)
    BY <2>2 DEF EndConstructor, LeaveConstructor
  <2>3. CASE BeginCall(t)
    BY <2>3 DEF BeginCall
  <2>4. CASE EndCall(t)
    BY <2>4 DEF EndCall
  <2>5. CASE EndThread(t)
    BY <2>5 DEF EndThread
  <2>6. ASSUME NEW th \in Threads, StartWorker(t, th) PROVE RegistryInv'
    BY <2>6 DEF StartWorker
  <2>7. ASSUME NEW u \in Tasks, BeginConstructor(t, u) PROVE RegistryInv'
    BY <2>7 DEF BeginConstructor
  <2>8. CASE BeginWarm(t)
    BY <2>8 DEF BeginWarm
  <2>9. QED
    BY <1>4, <2>1, <2>2, <2>3, <2>4, <2>5, <2>6, <2>7, <2>8 DEF Program
<1>6. CASE UNCHANGED vars
  BY <1>6 DEF vars
<1>7. QED
  BY <1>1, <1>2, <1>3, <1>4, <1>6 DEF Next

(* One step of any task preserves what the flag says of OpenSSL.          *)
LEMMA GlobalStep == TypeOK /\ GlobalInv /\ [Next]_vars => GlobalInv'
<1> SUFFICES ASSUME TypeOK, GlobalInv, [Next]_vars PROVE GlobalInv'
  OBVIOUS
<1> USE Assumptions DEF TypeOK, Workers, Goto, InWarm, BroughtUp,
        taskVars, nodeVars, amisslVars, globalVars,
        InConstructor, GlobalInv
<1>1. ASSUME NEW t \in Tasks, BringUp(t) PROVE GlobalInv'
  <2>1. CASE EnsureLookup(t)
    BY <2>1 DEF EnsureLookup
  <2>2. CASE SslTaskRegister(t)
    BY <2>2 DEF SslTaskRegister, Throw, LeaveConstructor
  <2>3. CASE InitAmiSSLSucceeds(t)
    BY <2>3 DEF InitAmiSSLSucceeds, TaskSocketBase
  <2>4. CASE InitAmiSSLFails(t)
    BY <2>4 DEF InitAmiSSLFails, UnlinkFailed, Throw, LeaveConstructor
  <2>5. CASE NativeInit(t)
    BY <2>5 DEF NativeInit, WithSslFinalizer
  <2>6. QED
    BY <1>1, <2>1, <2>2, <2>3, <2>4, <2>5 DEF BringUp
<1>2. ASSUME NEW t \in Tasks, GlobalInit(t) PROVE GlobalInv'
  <2>1. CASE CheckFlag(t)
    BY <2>1 DEF CheckFlag
  <2>2. CASE WarmCheckFlag(t)
    BY <2>2 DEF WarmCheckFlag
  <2>3. CASE EnsureInitialised(t)
    BY <2>3 DEF EnsureInitialised
  <2>4. CASE SetFlag(t)
    BY <2>4 DEF SetFlag, FlagAfter
  <2>5. QED
    BY <1>2, <2>1, <2>2, <2>3, <2>4 DEF GlobalInit
<1>3. ASSUME NEW t \in Tasks, Finalizers(t) PROVE GlobalInv'
  <2>1. CASE SocketFinalizer(t)
    BY <2>1 DEF SocketFinalizer
  <2>2. CASE AmiSSLFinalizer(t)
    BY <2>2 DEF AmiSSLFinalizer
  <2>3. CASE SslTaskUnregister(t)
    BY <2>3 DEF SslTaskUnregister, HeapAfterUnlink
  <2>4. CASE CleanupAmiSSL(t)
    BY <2>4 DEF CleanupAmiSSL
  <2>5. CASE FreeNode(t)
    BY <2>5 DEF FreeNode
  <2>6. CASE ThreadEnded(t)
    BY <2>6 DEF ThreadEnded
  <2>7. QED
    BY <1>3, <2>1, <2>2, <2>3, <2>4, <2>5, <2>6 DEF Finalizers
<1>4. ASSUME NEW t \in Tasks, Program(t) PROVE GlobalInv'
  <2>1. CASE SocketCreate(t)
    BY <2>1 DEF SocketCreate
  <2>2. CASE EndConstructor(t)
    BY <2>2 DEF EndConstructor, LeaveConstructor
  <2>3. CASE BeginCall(t)
    BY <2>3 DEF BeginCall
  <2>4. CASE EndCall(t)
    BY <2>4 DEF EndCall
  <2>5. CASE EndThread(t)
    BY <2>5 DEF EndThread
  <2>6. ASSUME NEW th \in Threads, StartWorker(t, th) PROVE GlobalInv'
    BY <2>6 DEF StartWorker
  <2>7. ASSUME NEW u \in Tasks, BeginConstructor(t, u) PROVE GlobalInv'
    BY <2>7 DEF BeginConstructor
  <2>8. CASE BeginWarm(t)
    BY <2>8 DEF BeginWarm
  <2>9. QED
    BY <1>4, <2>1, <2>2, <2>3, <2>4, <2>5, <2>6, <2>7, <2>8 DEF Program
<1>6. CASE UNCHANGED vars
  BY <1>6 DEF vars
<1>7. QED
  BY <1>1, <1>2, <1>3, <1>4, <1>6 DEF Next

(* One step of any task preserves what the program's conventions add.     *)
LEMMA UsageStep == TypeOK /\ RegistryInv /\ UsageInv /\ [Next]_vars => UsageInv'
<1> SUFFICES ASSUME TypeOK, RegistryInv, UsageInv, [Next]_vars PROVE UsageInv'
  OBVIOUS
<1> USE Assumptions DEF TypeOK, Workers, Goto, InWarm, BroughtUp,
        taskVars, nodeVars, amisslVars, globalVars,
        InConstructor, RegistryInv, MainIsApart, WorkerIsAt,
        UsageInv
<1>1. ASSUME NEW t \in Tasks, BringUp(t) PROVE UsageInv'
  <2>1. CASE EnsureLookup(t)
    BY <2>1 DEF EnsureLookup
  <2>2. CASE SslTaskRegister(t)
    BY <2>2 DEF SslTaskRegister, Throw, LeaveConstructor
  <2>3. CASE InitAmiSSLSucceeds(t)
    BY <2>3 DEF InitAmiSSLSucceeds, TaskSocketBase
  <2>4. CASE InitAmiSSLFails(t)
    BY <2>4 DEF InitAmiSSLFails, UnlinkFailed, Throw, LeaveConstructor
  <2>5. CASE NativeInit(t)
    BY <2>5 DEF NativeInit, WithSslFinalizer
  <2>6. QED
    BY <1>1, <2>1, <2>2, <2>3, <2>4, <2>5 DEF BringUp
<1>2. ASSUME NEW t \in Tasks, GlobalInit(t) PROVE UsageInv'
  <2>1. CASE CheckFlag(t)
    BY <2>1 DEF CheckFlag
  <2>2. CASE WarmCheckFlag(t)
    BY <2>2 DEF WarmCheckFlag
  <2>3. CASE EnsureInitialised(t)
    BY <2>3 DEF EnsureInitialised
  <2>4. CASE SetFlag(t)
    BY <2>4 DEF SetFlag, FlagAfter
  <2>5. QED
    BY <1>2, <2>1, <2>2, <2>3, <2>4 DEF GlobalInit
<1>3. ASSUME NEW t \in Tasks, Finalizers(t) PROVE UsageInv'
  <2>1. CASE SocketFinalizer(t)
    BY <2>1 DEF SocketFinalizer
  <2>2. CASE AmiSSLFinalizer(t)
    BY <2>2 DEF AmiSSLFinalizer
  <2>3. CASE SslTaskUnregister(t)
    BY <2>3 DEF SslTaskUnregister, HeapAfterUnlink
  <2>4. CASE CleanupAmiSSL(t)
    BY <2>4 DEF CleanupAmiSSL
  <2>5. CASE FreeNode(t)
    BY <2>5 DEF FreeNode
  <2>6. CASE ThreadEnded(t)
    BY <2>6 DEF ThreadEnded
  <2>7. QED
    BY <1>3, <2>1, <2>2, <2>3, <2>4, <2>5, <2>6 DEF Finalizers
<1>4. ASSUME NEW t \in Tasks, Program(t) PROVE UsageInv'
  <2>1. CASE SocketCreate(t)
    BY <2>1 DEF SocketCreate
  <2>2. CASE EndConstructor(t)
    BY <2>2 DEF EndConstructor, LeaveConstructor
  <2>3. CASE BeginCall(t)
    BY <2>3 DEF BeginCall
  <2>4. CASE EndCall(t)
    BY <2>4 DEF EndCall
  <2>5. CASE EndThread(t)
    BY <2>5 DEF EndThread
  <2>6. ASSUME NEW th \in Threads, StartWorker(t, th) PROVE UsageInv'
    BY <2>6 DEF StartWorker
  <2>7. ASSUME NEW u \in Tasks, BeginConstructor(t, u) PROVE UsageInv'
    BY <2>7 DEF BeginConstructor
  <2>8. CASE BeginWarm(t)
    BY <2>8 DEF BeginWarm
  <2>9. QED
    BY <1>4, <2>1, <2>2, <2>3, <2>4, <2>5, <2>6, <2>7, <2>8 DEF Program
<1>6. CASE UNCHANGED vars
  BY <1>6 DEF vars
<1>7. QED
  BY <1>1, <1>2, <1>3, <1>4, <1>6 DEF Next

(* Every reachable state satisfies the whole inductive invariant.          *)
THEOREM Invariance == Spec => []IInv
<1>1. Init => RegistryInv
  BY Assumptions DEF Init, Workers, BroughtUp, InWarm, NodesOf,
     RegistryInv, MainIsApart, ThreadsAreDistinct, WorkerIsAt, NodesAreOwned
<1>2. Init => GlobalInv
  BY DEF Init, Workers, InConstructor, InWarm, GlobalInv
<1>3. Init => UsageInv
  BY DEF Init, Workers, BroughtUp, InConstructor, UsageInv
<1>4. QED
  BY <1>1, <1>2, <1>3, TypeCorrect, RegistryStep, GlobalStep, UsageStep, PTL
     DEF Spec, IInv

(* The constructor calls OpenSSL only on a task that has its AmiSSL slot.  *)
THEOREM BroughtUpFirst == Spec => []ConstructorIsBroughtUp
<1>1. IInv => ConstructorIsBroughtUp
  BY DEF IInv, RegistryInv, MainIsApart, WorkerIsAt, Workers, ConstructorIsBroughtUp
<1>2. QED
  BY <1>1, Invariance, PTL

(* AmiSSL never holds an errno location that is freed or another worker's. *)
THEOREM ErrnoSlotSafe == Spec => []ErrnoSlotIsLiveAndPrivate
<1>1. IInv => ErrnoSlotIsLiveAndPrivate
  <2> SUFFICES ASSUME IInv, NEW t \in Workers, BroughtUp(t)
               PROVE  /\ ErrNoPtr[t] # NULL /\ node[ErrNoPtr[t]] = tc_UserData[t]
                      /\ \A u \in Tasks \ {t} : ErrNoPtr[u] # ErrNoPtr[t]
    BY DEF ErrnoSlotIsLiveAndPrivate
  <2>1. ErrNoPtr[t] \in Nodes /\ node[ErrNoPtr[t]] = tc_UserData[t]
    BY DEF IInv, RegistryInv, WorkerIsAt
  <2>2. ErrNoPtr[t] # NULL
    BY <2>1, Assumptions
  <2>3. tc_UserData[t] # NULL
    BY DEF IInv, RegistryInv, ThreadsAreDistinct, WorkerIsAt
  <2>4. ASSUME NEW u \in Tasks \ {t}, ErrNoPtr[u] = ErrNoPtr[t] PROVE FALSE
    <3>1. u \in Workers
      BY <2>2, <2>4 DEF IInv, RegistryInv, MainIsApart, Workers
    <3>2. BroughtUp(u)
      BY <2>2, <2>4, <3>1 DEF IInv, RegistryInv, WorkerIsAt
    <3>3. node[ErrNoPtr[u]] = tc_UserData[u]
      BY <3>1, <3>2 DEF IInv, RegistryInv, WorkerIsAt
    <3>4. QED
      BY <2>1, <2>3, <2>4, <3>1, <3>3 DEF IInv, RegistryInv, ThreadsAreDistinct
  <2>5. QED
    BY <2>1, <2>2, <2>4
<1>2. QED
  BY <1>1, Invariance, PTL

(* A failed handshake reports the slot AmiSSL writes for that worker, and  *)
(* the lookup by Thread finds no other node.                               *)
THEOREM OwnErrno == Spec => []ReportsOwnErrno
<1>1. IInv => ReportsOwnErrno
  <2> SUFFICES ASSUME IInv, NEW t \in Workers, pc[t] = "ssl"
               PROVE  CurrentTaskErrnoNodes(t) = {ErrNoPtr[t]}
    BY DEF ReportsOwnErrno
  <2>1. BroughtUp(t) /\ tc_UserData[t] # NULL
    BY DEF IInv, RegistryInv, ThreadsAreDistinct, WorkerIsAt
  <2>2. ErrNoPtr[t] \in ssl_task_list /\ node[ErrNoPtr[t]] = tc_UserData[t]
    BY <2>1 DEF IInv, RegistryInv, WorkerIsAt
  <2>3. ASSUME NEW n \in ssl_task_list, node[n] = tc_UserData[t] PROVE n = ErrNoPtr[t]
    <3>1. PICK u \in Workers : /\ tc_UserData[u] = node[n]
                               /\ \/ pc[u] = "InitAmiSSL" /\ frame[u] = n
                                  \/ BroughtUp(u) /\ ErrNoPtr[u] = n
      BY DEF IInv, RegistryInv, NodesAreOwned
    <3>2. u = t
      BY <2>1, <2>3, <3>1 DEF IInv, RegistryInv, ThreadsAreDistinct
    <3>3. QED
      BY <3>1, <3>2
  <2>4. QED
    BY <2>1, <2>2, <2>3 DEF CurrentTaskErrnoNodes, NodesOf
<1>2. QED
  BY <1>1, Invariance, PTL

(* A worker that ended left neither node nor slot for its successor.       *)
THEOREM NothingLeft == Spec => []EndedLeavesNothing
<1>1. IInv => EndedLeavesNothing
  BY DEF IInv, RegistryInv, NodesAreOwned, WorkerIsAt, EndedLeavesNothing
<1>2. QED
  BY <1>1, Invariance, PTL

(* No task uses OpenSSL before the global initialisation has finished.     *)
THEOREM InitialisedFirst == Spec => []GlobalInitBeforeUse
<1>1. IInv => GlobalInitBeforeUse
  BY DEF IInv, GlobalInv, GlobalInitBeforeUse
<1>2. QED
  BY <1>1, Invariance, PTL

(* Warming main keeps OPENSSL_init_ssl off every worker.                   *)
THEOREM MainWarmsForAll == Spec => []WorkersNeverInit
<1>1. IInv => WorkersNeverInit
  BY DEF IInv, GlobalInv, WorkersNeverInit
<1>2. QED
  BY <1>1, Invariance, PTL

(* A worker that opens its sockets itself handshakes through its own base. *)
THEOREM OwnBase == Spec => [](OwnSocketFirst => OwnSocketUsesOwnBase)
<1>1. IInv => (OwnSocketFirst => OwnSocketUsesOwnBase)
  BY DEF IInv, UsageInv, RegistryInv, WorkerIsAt, OwnSocketUsesOwnBase
<1>2. QED
  BY <1>1, Invariance, PTL

(* Streams used where they were built are used on tasks AmiSSL knows, and  *)
(* after a warm-up of main no other task gets as far as OPENSSL_init_ssl.  *)
THEOREM CallsAreBroughtUp == Spec => [](StreamsStay /\ WarmFirst => BringUpBeforeAnyCall)
<1>1. IInv => (StreamsStay /\ WarmFirst => BringUpBeforeAnyCall)
  BY DEF IInv, UsageInv, GlobalInv, RegistryInv, MainIsApart, Workers, BringUpBeforeAnyCall
<1>2. QED
  BY <1>1, Invariance, PTL

-----------------------------------------------------------------------------
(* The terms of AmiSSL, step by step.                                      *)

(* No other task's slot holds the node in a worker's hands.                *)
LEMMA FrameIsApart ==
  ASSUME IInv, NEW t \in Workers, pc[t] # "ended", NEW n \in Nodes, node[n] = tc_UserData[t],
         NEW u \in Known, ErrNoPtr[u] = n
  PROVE  u = t
<1>1. n # NULL  BY Assumptions
<1>2. u \in Workers /\ BroughtUp(u)
  BY <1>1 DEF IInv, RegistryInv, MainIsApart, Known, Workers
<1>3. tc_UserData[u] = tc_UserData[t] /\ tc_UserData[t] # NULL
  BY <1>2 DEF IInv, RegistryInv, WorkerIsAt, ThreadsAreDistinct
<1>4. QED  BY <1>2, <1>3 DEF IInv, RegistryInv, ThreadsAreDistinct

LEMMA BringUpKeepsTerms ==
  ASSUME IInv, NEW t \in Tasks, BringUp(t)
  PROVE  [Contract!Next]_(Contract!vars)
<1>. USE DEF Contract!vars, Goto, taskVars, nodeVars, amisslVars, globalVars
<1>1. TypeOK /\ MainIsApart  BY DEF IInv, RegistryInv
<1>2. CASE EnsureLookup(t)
  <2>1. Running' = Running /\ Inside' = Inside
    BY <1>1, <1>2 DEF EnsureLookup, TypeOK, Running, Inside
  <2>2. QED  BY <1>2, <2>1 DEF EnsureLookup, Known, Memory, BroughtUp
<1>3. CASE SslTaskRegister(t)
  <2>1. Running' = Running /\ Inside' = Inside
    BY <1>1, <1>3 DEF SslTaskRegister, Throw, LeaveConstructor, TypeOK, Running, Inside
  <2>2. Known' = Known /\ UNCHANGED <<ErrNoPtr, OpenSSLReady>>
    BY <1>3 DEF SslTaskRegister, Known, BroughtUp
  <2>3. CASE UNCHANGED nodeVars  BY <2>1, <2>2, <2>3 DEF Memory
  <2>4. CASE ~UNCHANGED nodeVars
    <3>1. PICK n \in Nodes : node[n] = NULL /\ node' = [node EXCEPT ![n] = tc_UserData[t]]
      BY <1>3, <2>4 DEF SslTaskRegister
    <3>2. tc_UserData[t] # NULL
      BY <1>1, <1>3 DEF SslTaskRegister, MainIsApart, InWarm, Workers,
                        IInv, RegistryInv, ThreadsAreDistinct
    <3>3. n \notin Memory /\ Memory' = Memory \cup {n}
      BY <1>1, <3>1, <3>2 DEF TypeOK, Memory
    <3>4. Contract!Allocate(n)  BY <2>1, <2>2, <3>3 DEF Contract!Allocate
    <3>5. QED  BY <3>4 DEF Contract!Next
  <2>5. QED  BY <2>3, <2>4
<1>4. CASE InitAmiSSLSucceeds(t)
  <2>1. t \in Workers /\ pc[t] = "InitAmiSSL"
    BY <1>1, <1>4 DEF InitAmiSSLSucceeds, MainIsApart, InWarm, Workers
  <2>2. PICK n \in Nodes : n = frame[t] /\ node[n] = tc_UserData[t] /\ ~BroughtUp(t)
    BY <2>1 DEF IInv, RegistryInv, WorkerIsAt
  <2>3. n \in Memory /\ t \in Running \ Known
    BY <2>1, <2>2 DEF IInv, RegistryInv, ThreadsAreDistinct, Memory, Running, Known, Workers
  <2>4. \A u \in Known : ErrNoPtr[u] # n
    BY <2>1, <2>2, <2>3, FrameIsApart
  <2>5. Known' = Known \cup {t} /\ ErrNoPtr' = [ErrNoPtr EXCEPT ![t] = n]
    BY <1>1, <1>4, <2>2 DEF InitAmiSSLSucceeds, TaskSocketBase, TypeOK, Known, BroughtUp
  <2>6. Running' = Running /\ Inside' = Inside /\ Memory' = Memory /\ OpenSSLReady' = OpenSSLReady
    BY <1>1, <1>4 DEF InitAmiSSLSucceeds, TypeOK, Running, Inside, Memory
  <2>7. Contract!InitAmiSSL(t, n)  BY <2>3, <2>4, <2>5, <2>6 DEF Contract!InitAmiSSL
  <2>8. QED  BY <2>7 DEF Contract!Next
<1>5. CASE InitAmiSSLFails(t)
  <2>1. t \in Workers /\ pc[t] = "InitAmiSSL"
    BY <1>1, <1>5 DEF InitAmiSSLFails, MainIsApart, InWarm, Workers
  <2>2. PICK n \in Nodes : n = frame[t] /\ node[n] = tc_UserData[t] /\ ~BroughtUp(t)
    BY <2>1 DEF IInv, RegistryInv, WorkerIsAt
  <2>3. n \in Memory /\ \A u \in Known : ErrNoPtr[u] # n
    BY <2>1, <2>2, FrameIsApart DEF IInv, RegistryInv, ThreadsAreDistinct, Memory, Known
  <2>4. Memory' = Memory \ {n}
    BY <1>1, <1>5, <2>2 DEF InitAmiSSLFails, TypeOK, Memory
  <2>5. Running' = Running /\ Inside' = Inside
    BY <1>1, <1>5 DEF InitAmiSSLFails, Throw, LeaveConstructor, TypeOK, Running, Inside
  <2>6. Contract!Free(n)
    BY <1>5, <2>3, <2>4, <2>5 DEF InitAmiSSLFails, Contract!Free, Known, BroughtUp
  <2>7. QED  BY <2>6 DEF Contract!Next
<1>6. CASE NativeInit(t)
  <2>1. Running' = Running /\ Inside' = Inside
    BY <1>1, <1>6 DEF NativeInit, TypeOK, Running, Inside
  <2>2. QED  BY <1>6, <2>1 DEF NativeInit, Known, Memory, BroughtUp
<1>7. QED  BY <1>2, <1>3, <1>4, <1>5, <1>6 DEF BringUp

LEMMA GlobalInitKeepsTerms ==
  ASSUME WarmFirst, IInv, NEW t \in Tasks, GlobalInit(t)
  PROVE  [Contract!Next]_(Contract!vars)
<1>. USE DEF Contract!vars, Goto, taskVars, nodeVars, amisslVars, globalVars
<1>1. TypeOK /\ MainIsApart /\ GlobalInv  BY DEF IInv, RegistryInv
<1>2. UNCHANGED <<Known, Memory, ErrNoPtr>>
  BY DEF GlobalInit, CheckFlag, WarmCheckFlag, EnsureInitialised, SetFlag,
         Known, Memory, BroughtUp
<1>3. Running' = Running
  BY <1>1 DEF GlobalInit, CheckFlag, WarmCheckFlag, EnsureInitialised, SetFlag, TypeOK, Running
<1>4. pc[t] \in {"flag", "OPENSSL_init", "warmInit", "setFlag"} => t \in Known
  BY <1>1 DEF MainIsApart, IInv, RegistryInv, WorkerIsAt, GlobalInv, Workers, Known
<1>5. CASE EnsureInitialised(t)
  <2>1. Inside' = Inside  BY <1>1, <1>5 DEF EnsureInitialised, TypeOK, Inside
  <2>2. Contract!InitOpenSSL(t)
    BY <1>2, <1>3, <1>4, <1>5, <2>1 DEF EnsureInitialised, Contract!InitOpenSSL
  <2>3. QED  BY <2>2 DEF Contract!Next
<1>6. CASE CheckFlag(t) \/ SetFlag(t) \/ WarmCheckFlag(t)
  <2>1. OpenSSLReady' = OpenSSLReady
    BY <1>6 DEF CheckFlag, SetFlag, WarmCheckFlag
  <2>2. pc[t] \in {"flag", "setFlag", "warmFlag", "warmSetFlag"}
    BY <1>6 DEF CheckFlag, SetFlag, WarmCheckFlag
  <2>3. CASE pc'[t] # "ssl"
    <3>1. Inside' = Inside
      BY <1>1, <1>6, <2>2, <2>3 DEF CheckFlag, SetFlag, WarmCheckFlag, TypeOK, Inside
    <3>2. QED  BY <1>2, <1>3, <2>1, <3>1
  <2>4. CASE pc'[t] = "ssl"
    <3>1. t \notin Inside /\ Inside' = Inside \cup {t}
      BY <1>1, <1>6, <2>2, <2>4 DEF CheckFlag, SetFlag, WarmCheckFlag, TypeOK, Inside
    <3>2. t \in Known /\ OpenSSLReady
      BY <1>1, <1>4, <1>6, <2>4 DEF CheckFlag, SetFlag, WarmCheckFlag, TypeOK, GlobalInv
    <3>3. Contract!Enter(t)  BY <1>2, <1>3, <2>1, <3>1, <3>2 DEF Contract!Enter
    <3>4. QED  BY <3>3 DEF Contract!Next
  <2>5. QED  BY <2>3, <2>4
<1>7. QED  BY <1>5, <1>6 DEF GlobalInit

LEMMA FinalizersKeepTerms ==
  ASSUME IInv, NEW t \in Tasks, Finalizers(t)
  PROVE  [Contract!Next]_(Contract!vars)
<1>. USE DEF Contract!vars, Goto, taskVars, nodeVars, amisslVars, globalVars
<1>1. TypeOK /\ MainIsApart  BY DEF IInv, RegistryInv
<1>2. t \in Workers
  BY <1>1 DEF Finalizers, SocketFinalizer, AmiSSLFinalizer, SslTaskUnregister, CleanupAmiSSL,
              FreeNode, ThreadEnded, MainIsApart, InWarm, Workers
<1>3. WorkerIsAt(t)  BY <1>2 DEF IInv, RegistryInv
<1>4. Inside' = Inside /\ OpenSSLReady' = OpenSSLReady
  BY <1>1 DEF Finalizers, SocketFinalizer, AmiSSLFinalizer, SslTaskUnregister, CleanupAmiSSL,
              FreeNode, ThreadEnded, TypeOK, Inside
<1>5. CASE SocketFinalizer(t) \/ AmiSSLFinalizer(t) \/ SslTaskUnregister(t)
  <2>1. Running' = Running
    BY <1>1, <1>5 DEF SocketFinalizer, AmiSSLFinalizer, SslTaskUnregister, TypeOK, Running
  <2>2. UNCHANGED <<Known, Memory, ErrNoPtr>>
    BY <1>5 DEF SocketFinalizer, AmiSSLFinalizer, SslTaskUnregister, HeapAfterUnlink,
                Known, Memory, BroughtUp
  <2>3. QED  BY <1>4, <2>1, <2>2
<1>6. CASE CleanupAmiSSL(t)
  <2>1. t \in (Running \cap Known) \ (Inside \cup {Main})
    BY <1>2, <1>3, <1>6 DEF CleanupAmiSSL, WorkerIsAt, Workers, Running, Known, Inside
  <2>2. Known' = Known \ {t} /\ ErrNoPtr' = [ErrNoPtr EXCEPT ![t] = NULL]
    BY <1>1, <1>6 DEF CleanupAmiSSL, TypeOK, Known, BroughtUp
  <2>3. Running' = Running /\ Memory' = Memory
    BY <1>1, <1>6 DEF CleanupAmiSSL, TypeOK, Running, Memory
  <2>4. Contract!CleanupAmiSSL(t)
    BY <1>4, <2>1, <2>2, <2>3 DEF Contract!CleanupAmiSSL
  <2>5. QED  BY <2>4 DEF Contract!Next
<1>7. CASE FreeNode(t)
  <2>1. PICK n \in Nodes : n = frame[t] /\ node[n] = tc_UserData[t] /\ ~BroughtUp(t)
    BY <1>3, <1>7 DEF FreeNode, WorkerIsAt
  <2>2. pc[t] # "ended"  BY <1>7 DEF FreeNode
  <2>3. n \in Memory /\ \A u \in Known : ErrNoPtr[u] # n
    BY <1>2, <2>1, <2>2, FrameIsApart DEF IInv, RegistryInv, ThreadsAreDistinct, Memory, Known
  <2>4. Memory' = Memory \ {n} /\ Running' = Running
    BY <1>1, <1>7, <2>1 DEF FreeNode, TypeOK, Memory, Running
  <2>5. Contract!Free(n)
    BY <1>4, <1>7, <2>3, <2>4 DEF FreeNode, Contract!Free, Known, BroughtUp
  <2>6. QED  BY <2>5 DEF Contract!Next
<1>8. CASE ThreadEnded(t)
  <2>1. t \in Running \ (Known \cup Inside)
    BY <1>3, <1>8 DEF ThreadEnded, WorkerIsAt, Running, Known, Inside
  <2>2. Running' = Running \ {t}
    BY <1>1, <1>8 DEF ThreadEnded, TypeOK, Running
  <2>3. Contract!End(t)
    BY <1>4, <1>8, <2>1, <2>2 DEF ThreadEnded, Contract!End, Known, Memory, BroughtUp
  <2>4. QED  BY <2>3 DEF Contract!Next
<1>9. QED  BY <1>5, <1>6, <1>7, <1>8 DEF Finalizers

(* A call is made on main or by a stream's builder, which is brought up.   *)
LEMMA ProgramKeepsTerms ==
  ASSUME StreamsStay, IInv, NEW t \in Tasks, Program(t)
  PROVE  [Contract!Next]_(Contract!vars)
<1>. USE DEF Contract!vars, Goto, taskVars, nodeVars, amisslVars, globalVars
<1>1. TypeOK /\ MainIsApart /\ GlobalInv /\ UsageInv  BY DEF IInv, RegistryInv
<1>2. UNCHANGED <<Known, Memory, ErrNoPtr, OpenSSLReady>>
  BY DEF Program, StartWorker, SocketCreate, BeginConstructor, EndConstructor,
         LeaveConstructor, BeginWarm, BeginCall, EndCall, EndThread, Known, Memory, BroughtUp
<1>3. CASE \E th \in Threads : StartWorker(t, th)
  <2>1. t \notin Running \cup Known
    BY <1>3 DEF StartWorker, IInv, RegistryInv, WorkerIsAt, Running, Known
  <2>2. Running' = Running \cup {t} /\ Inside' = Inside
    BY <1>1, <1>3 DEF StartWorker, TypeOK, Running, Inside
  <2>3. Contract!Start(t)  BY <1>2, <2>1, <2>2 DEF Contract!Start
  <2>4. QED  BY <2>3 DEF Contract!Next
<1>4. CASE BeginCall(t)
  <2>1. t \in Known \ Inside /\ OpenSSLReady
    <3>1. pc[t] = "idle" /\ made # {} /\ t \in made \cup {Main}
      BY <1>4 DEF BeginCall
    <3>2. BroughtUp(t)  BY <1>1, <3>1 DEF MainIsApart, UsageInv, Workers
    <3>3. QED  BY <1>1, <3>1, <3>2 DEF Known, Inside, GlobalInv
  <2>2. Running' = Running /\ Inside' = Inside \cup {t}
    BY <1>1, <1>4 DEF BeginCall, TypeOK, Running, Inside
  <2>3. Contract!Enter(t)  BY <1>2, <2>1, <2>2 DEF Contract!Enter
  <2>4. QED  BY <2>3 DEF Contract!Next
<1>5. CASE EndCall(t) \/ EndConstructor(t)
  <2>1. t \in Inside /\ Inside' = Inside \ {t} /\ Running' = Running
    BY <1>1, <1>5 DEF EndCall, EndConstructor, LeaveConstructor, TypeOK, Running, Inside
  <2>2. Contract!Leave(t)  BY <1>2, <2>1 DEF Contract!Leave
  <2>3. QED  BY <2>2 DEF Contract!Next
<1>6. CASE SocketCreate(t) \/ EndThread(t) \/ BeginWarm(t)
           \/ \E u \in Tasks : BeginConstructor(t, u)
  <2>1. Running' = Running /\ Inside' = Inside
    BY <1>1, <1>6 DEF SocketCreate, EndThread, BeginWarm, BeginConstructor, TypeOK, Running, Inside
  <2>2. QED  BY <1>2, <2>1
<1>7. QED  BY <1>3, <1>4, <1>5, <1>6 DEF Program

(* In a program that warms main and whose streams stay where they were     *)
(* built, tasks come and go at recycled addresses and fail in the middle   *)
(* of a bring-up without ever breaking the terms of AmiSSL.                *)
THEOREM ContractIsKept == ASSUME StreamsStay, WarmFirst PROVE Spec => KeepsTheContract
<1>1. Init => Contract!Init
  BY Assumptions DEF Init, Contract!Init, Running, Known, Inside, Memory, BroughtUp
<1>2. IInv /\ [Next]_vars => [Contract!Next]_(Contract!vars)
  <2>1. SUFFICES ASSUME IInv, [Next]_vars PROVE [Contract!Next]_(Contract!vars)
    OBVIOUS
  <2>2. ASSUME NEW t \in Tasks, BringUp(t) \/ GlobalInit(t) \/ Finalizers(t) \/ Program(t)
        PROVE  [Contract!Next]_(Contract!vars)
    BY <2>1, <2>2, BringUpKeepsTerms, GlobalInitKeepsTerms, FinalizersKeepTerms,
       ProgramKeepsTerms
  <2>4. CASE UNCHANGED vars
    BY <2>4 DEF vars, nodeVars, amisslVars, globalVars, Contract!vars,
                Running, Known, Inside, Memory, BroughtUp
  <2>5. QED  BY <2>1, <2>2, <2>4 DEF Next
<1>3. QED  BY <1>1, <1>2, Invariance, PTL DEF Spec, KeepsTheContract, Contract!Spec

=============================================================================
