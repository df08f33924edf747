---------------------------- MODULE AmiSslTasks ----------------------------
(***************************************************************************)
(* The per-task AmiSSL bring-up of the AmigaOS m68k back end               *)
(* (am_ssl_amissl_init.c), the process-wide OpenSSL initialisation guarded *)
(* by SslPrivate's "openssl-initialized" flag, and the Thread finalizer    *)
(* that undoes the bring-up when a worker ends.                            *)
(*                                                                         *)
(* Exec schedules Amiga tasks preemptively: every action below is one      *)
(* stretch of code of one task that is either local to the task or covered *)
(* by one Forbid()/Permit() pair.  A worker task runs on behalf of an      *)
(* AmLang Thread object, whose address it keeps in tc_UserData; addresses  *)
(* of ended Threads and of ended tasks are handed out again.               *)
(***************************************************************************)
EXTENDS Naturals

CONSTANTS
  Tasks,            \* addresses of Amiga tasks
  Main,             \* the task amisslauto's constructor brought up
  Threads,          \* addresses of AmLang Thread objects
  Nodes,            \* addresses malloc can return for a ssl_task_node
  NULL,             \* the null pointer
  WarmFirst,        \* the program calls warmCurrentTask on main before workers use SSL or warm
  OwnSocketFirst,   \* a worker builds streams only over sockets it opened itself
  StreamsStay,      \* a stream is used by the task that built it, or by main
  WorkerInitHangs   \* OPENSSL_init_ssl never returns if a worker is the first to run it

ASSUME Assumptions ==
  /\ Main \in Tasks
  /\ NULL \notin Threads \cup Nodes
  /\ {WarmFirst, OwnSocketFirst, StreamsStay, WorkerInitHangs} \subseteq BOOLEAN

VARIABLES
  pc,               \* where each task is
  tc_UserData,      \* the Thread object a task runs for; NULL on main and when there is none
  finalizers,       \* the finalizers addFinalizer put on the task's Thread
  opened,           \* tasks that created a socket, workers with a bsdsocket base of their own
  fd,               \* the task that created the socket given to the constructor in progress
  made,             \* tasks that built a stream
  node,             \* the malloc'd ssl_task_nodes: their thread field, NULL when not allocated
  ssl_task_list,    \* the nodes linked into the list
  frame,            \* the local variable `node` of a task's current call
  ErrNoPtr,         \* AmiSSL's per-task errno location: a node's errno_slot, or NULL
  SslBase,          \* AmiSSL's per-task socket base; "none" when the task has no slot
  initialized,      \* Runtime's "openssl-initialized" property is "true"
  OpenSSLReady,     \* OPENSSL_init_ssl and RAND_seed have run
  warmed            \* the program's warmCurrentTask call has returned

taskVars   == <<tc_UserData, finalizers, opened, made>>
nodeVars   == <<node, ssl_task_list, frame>>
amisslVars == <<ErrNoPtr, SslBase>>
globalVars == <<initialized, OpenSSLReady, warmed>>
vars == <<pc, taskVars, fd, nodeVars, amisslVars, globalVars>>

Workers == Tasks \ {Main}

(* The labels of a task: idle in other code, ended, in its finalizers, or  *)
(* about to run the step of that name.                                     *)
InConstructor == {"lookup", "register", "InitAmiSSL", "nativeInit",
                  "flag", "OPENSSL_init", "setFlag", "ssl"}
InWarm        == {"warmFlag", "warmInit", "warmSetFlag"}
InClose       == {"unregister", "CleanupAmiSSL", "free"}
Labels == {"idle", "call", "ended", "finalize"}
            \cup InConstructor \cup InWarm \cup InClose

Goto(t, l) == pc' = [pc EXCEPT ![t] = l]

-----------------------------------------------------------------------------
(* amisslauto opened the libraries and brought main up before main() ran.  *)
Init ==
  /\ pc = [t \in Tasks |-> IF t = Main THEN "idle" ELSE "ended"]
  /\ tc_UserData = [t \in Tasks |-> NULL]
  /\ finalizers = [t \in Tasks |-> {}]
  /\ opened = {}
  /\ fd = [t \in Tasks |-> t]
  /\ made = {}
  /\ node = [n \in Nodes |-> NULL]
  /\ ssl_task_list = {}
  /\ frame = [t \in Tasks |-> NULL]
  /\ ErrNoPtr = [t \in Tasks |-> NULL]
  /\ SslBase = [t \in Tasks |-> IF t = Main THEN "global" ELSE "none"]
  /\ initialized = FALSE
  /\ OpenSSLReady = FALSE
  /\ warmed = FALSE

-----------------------------------------------------------------------------
(* The program and the AmLang runtime around the library.  Each definition *)
(* X below whose name continues another's (NodesOfAnyThread, NodesOf)      *)
(* is a wrong variant no action uses: the variant that breaks a property.  *)

(* A worker task starts, at an address no running worker has, for a fresh  *)
(* Thread object.                                                          *)
StartWorker(t, th) ==
  /\ t \in Workers /\ pc[t] = "ended"
  /\ \A u \in Tasks : tc_UserData[u] # th
  /\ Goto(t, "idle")
  /\ tc_UserData' = [tc_UserData EXCEPT ![t] = th]
  /\ made' = made \ {t}
  /\ UNCHANGED <<finalizers, opened, fd, nodeVars, amisslVars, globalVars>>

(* Socket.create: on a worker it opens bsdsocket.library for the task and  *)
(* registers the finalizer that closes it.                                 *)
SocketCreate(t) ==
  /\ pc[t] = "idle" /\ t \notin opened
  /\ opened' = opened \cup {t}
  /\ finalizers' = IF t = Main THEN finalizers
                   ELSE [finalizers EXCEPT ![t] = @ \cup {"socket"}]
  /\ UNCHANGED <<pc, tc_UserData, fd, made, nodeVars, amisslVars, globalVars>>

(* new SslSocketStream(socket, host), with a socket task u created.        *)
BeginConstructor(t, u) ==
  /\ pc[t] = "idle"
  /\ u \in opened
  /\ OwnSocketFirst => u = t
  /\ WarmFirst /\ t # Main => warmed
  /\ Goto(t, "lookup")
  /\ fd' = [fd EXCEPT ![t] = u]
  /\ UNCHANGED <<taskVars, nodeVars, amisslVars, globalVars>>

(* SslSocketStream.warmCurrentTask(), on any task: it brings nothing up.   *)
BeginWarm(t) ==
  /\ pc[t] = "idle"
  /\ WarmFirst /\ t # Main => warmed
  /\ Goto(t, "warmFlag")
  /\ UNCHANGED <<taskVars, fd, nodeVars, amisslVars, globalVars>>

(* read, write or the release of a stream: OpenSSL calls with no bring-up. *)
BeginCall(t) ==
  /\ pc[t] = "idle"
  /\ made # {}
  /\ StreamsStay => t \in made \cup {Main}
  /\ Goto(t, "call")
  /\ UNCHANGED <<taskVars, fd, nodeVars, amisslVars, globalVars>>

EndCall(t) ==
  /\ pc[t] = "call"
  /\ Goto(t, "idle")
  /\ UNCHANGED <<taskVars, fd, nodeVars, amisslVars, globalVars>>

(* A worker's Thread returns: its finalizers run on the same task.         *)
EndThread(t) ==
  /\ t \in Workers /\ pc[t] = "idle"
  /\ Goto(t, "finalize")
  /\ UNCHANGED <<taskVars, fd, nodeVars, amisslVars, globalVars>>

-----------------------------------------------------------------------------
(* am_ssl_amissl_ensure_initialised_for_current_task, step by step.        *)

(* ssl_task_lookup and ssl_task_unregister find nodes by their thread.     *)
NodesOfAnyThread(th) == ssl_task_list
NodesOf(th) == {n \in ssl_task_list : node[n] = th}

(* Leaving the constructor, with a stream or with an exception.            *)
LeaveConstructor(t) == Goto(t, "idle") /\ fd' = [fd EXCEPT ![t] = t]
Throw(t) == LeaveConstructor(t)

EnsureLookup(t) ==
  /\ pc[t] = "lookup"
  /\ IF tc_UserData[t] = NULL \/ NodesOf(tc_UserData[t]) # {}
     THEN Goto(t, "flag")
     ELSE Goto(t, "register")
  /\ UNCHANGED <<taskVars, fd, nodeVars, amisslVars, globalVars>>

(* malloc may return NULL; the constructor then throws.                    *)
SslTaskRegister(t) ==
  /\ pc[t] = "register"
  /\ \/ /\ Throw(t)
        /\ UNCHANGED nodeVars
     \/ \E n \in Nodes :
          /\ node[n] = NULL
          /\ node' = [node EXCEPT ![n] = tc_UserData[t]]
          /\ ssl_task_list' = ssl_task_list \cup {n}
          /\ frame' = [frame EXCEPT ![t] = n]
          /\ Goto(t, "InitAmiSSL")
          /\ UNCHANGED fd
  /\ UNCHANGED <<taskVars, amisslVars, globalVars>>

(* The base handed to AmiSSL: the task's own, else the global SocketBase.  *)
TaskSocketBaseNoFallback(t) == IF t \in opened THEN "own" ELSE NULL
TaskSocketBaseShared(t) == "global"
TaskSocketBase(t) == IF t \in opened THEN "own" ELSE "global"

InitAmiSSLSucceeds(t) ==
  /\ pc[t] = "InitAmiSSL"
  /\ ErrNoPtr' = [ErrNoPtr EXCEPT ![t] = frame[t]]
  /\ SslBase' = [SslBase EXCEPT ![t] = TaskSocketBase(t)]
  /\ Goto(t, "nativeInit")
  /\ UNCHANGED <<taskVars, fd, nodeVars, globalVars>>

(* The failure path: unlink the node, free it, throw.                      *)
UnlinkFailedKept(t) == ssl_task_list
UnlinkFailed(t) == ssl_task_list \ {frame[t]}

InitAmiSSLFails(t) ==
  /\ pc[t] = "InitAmiSSL"
  /\ ssl_task_list' = UnlinkFailed(t)
  /\ node' = [node EXCEPT ![frame[t]] = NULL]
  /\ frame' = [frame EXCEPT ![t] = NULL]
  /\ Throw(t)
  /\ UNCHANGED <<taskVars, amisslVars, globalVars>>

(* SslSocketStream.nativeInit: put closeAmiSSLForThread on the Thread.     *)
WithSslFinalizerForgotten(t) == finalizers
WithSslFinalizer(t) == [finalizers EXCEPT ![t] = @ \cup {"amissl"}]

NativeInit(t) ==
  /\ pc[t] = "nativeInit"
  /\ finalizers' = WithSslFinalizer(t)
  /\ frame' = [frame EXCEPT ![t] = NULL]
  /\ Goto(t, "flag")
  /\ UNCHANGED <<tc_UserData, opened, made, fd, node, ssl_task_list,
                 amisslVars, globalVars>>

-----------------------------------------------------------------------------
(* The one-shot global initialisation, in the constructor and in           *)
(* warmCurrentTask: test the flag, initialise, set the flag.               *)

CheckFlagSetsItEarly(t) ==
  /\ pc[t] = "flag"
  /\ Goto(t, IF initialized THEN "ssl" ELSE "OPENSSL_init")
  /\ initialized' = TRUE
  /\ UNCHANGED <<taskVars, fd, nodeVars, amisslVars, OpenSSLReady, warmed>>

CheckFlag(t) ==
  /\ pc[t] = "flag"
  /\ Goto(t, IF initialized THEN "ssl" ELSE "OPENSSL_init")
  /\ UNCHANGED <<taskVars, fd, nodeVars, amisslVars, globalVars>>

WarmCheckFlagInverted(t) ==
  /\ pc[t] = "warmFlag"
  /\ Goto(t, IF initialized THEN "warmInit" ELSE "idle")
  /\ warmed' = (warmed \/ ~initialized)
  /\ UNCHANGED <<taskVars, fd, nodeVars, amisslVars, initialized, OpenSSLReady>>

WarmCheckFlag(t) ==
  /\ pc[t] = "warmFlag"
  /\ Goto(t, IF initialized THEN "idle" ELSE "warmInit")
  /\ warmed' = (warmed \/ initialized)
  /\ UNCHANGED <<taskVars, fd, nodeVars, amisslVars, initialized, OpenSSLReady>>

(* am_ssl_amissl_ensure_initialised: OPENSSL_init_ssl, then RAND_seed.     *)
EnsureInitialised(t) ==
  /\ pc[t] \in {"OPENSSL_init", "warmInit"}
  /\ t = Main \/ OpenSSLReady \/ ~WorkerInitHangs
  /\ OpenSSLReady' = TRUE
  /\ Goto(t, IF pc[t] = "warmInit" THEN "warmSetFlag" ELSE "setFlag")
  /\ UNCHANGED <<taskVars, fd, nodeVars, amisslVars, initialized, warmed>>

(* SslPrivate.setOpenSslInitialized.                                       *)
FlagAfterLeftUnset(t) == initialized
FlagAfter(t) == TRUE

SetFlag(t) ==
  /\ pc[t] \in {"setFlag", "warmSetFlag"}
  /\ initialized' = FlagAfter(t)
  /\ warmed' = (warmed \/ pc[t] = "warmSetFlag")
  /\ Goto(t, IF pc[t] = "warmSetFlag" THEN "idle" ELSE "ssl")
  /\ UNCHANGED <<taskVars, fd, nodeVars, amisslVars, OpenSSLReady>>

(* TLS_client_method .. SSL_connect: the constructor returns a stream or   *)
(* throws.  A failed handshake reports the errno_slot of the node that     *)
(* am_ssl_amissl_current_task_errno looks up.                              *)
CurrentTaskErrnoNodes(t) ==
  IF tc_UserData[t] = NULL THEN {} ELSE NodesOf(tc_UserData[t])

EndConstructor(t) ==
  /\ pc[t] = "ssl"
  /\ LeaveConstructor(t)
  /\ \/ made' = made \cup {t}
     \/ made' = made
  /\ UNCHANGED <<tc_UserData, finalizers, opened, nodeVars, amisslVars, globalVars>>

-----------------------------------------------------------------------------
(* The finalizers of a worker's Thread, in an order the runtime chooses.   *)

(* am-net's finalizer closes the task's own bsdsocket base.                *)
SocketFinalizer(t) ==
  /\ pc[t] = "finalize" /\ "socket" \in finalizers[t]
  /\ finalizers' = [finalizers EXCEPT ![t] = @ \ {"socket"}]
  /\ opened' = opened \ {t}
  /\ UNCHANGED <<pc, tc_UserData, made, fd, nodeVars, amisslVars, globalVars>>

(* nativeInit's finalizer calls am_ssl_amissl_close_for_current_task.      *)
AmiSSLFinalizer(t) ==
  /\ pc[t] = "finalize" /\ "amissl" \in finalizers[t]
  /\ finalizers' = [finalizers EXCEPT ![t] = @ \ {"amissl"}]
  /\ Goto(t, "unregister")
  /\ UNCHANGED <<tc_UserData, opened, made, fd, nodeVars, amisslVars, globalVars>>

(* ssl_task_unregister only unlinks: the caller frees the node, and only   *)
(* after CleanupAmiSSL.  With no node the close returns at once.           *)
HeapAfterUnlinkFreed(n) == [node EXCEPT ![n] = NULL]
HeapAfterUnlink(n) == node

SslTaskUnregister(t) ==
  /\ pc[t] = "unregister"
  /\ IF NodesOf(tc_UserData[t]) = {}
     THEN Goto(t, "finalize") /\ UNCHANGED nodeVars
     ELSE \E n \in NodesOf(tc_UserData[t]) :
            /\ ssl_task_list' = ssl_task_list \ {n}
            /\ node' = HeapAfterUnlink(n)
            /\ frame' = [frame EXCEPT ![t] = n]
            /\ Goto(t, "CleanupAmiSSL")
  /\ UNCHANGED <<taskVars, fd, amisslVars, globalVars>>

CleanupAmiSSL(t) ==
  /\ pc[t] = "CleanupAmiSSL"
  /\ ErrNoPtr' = [ErrNoPtr EXCEPT ![t] = NULL]
  /\ SslBase' = [SslBase EXCEPT ![t] = "none"]
  /\ Goto(t, "free")
  /\ UNCHANGED <<taskVars, fd, nodeVars, globalVars>>

FreeNode(t) ==
  /\ pc[t] = "free"
  /\ node' = [node EXCEPT ![frame[t]] = NULL]
  /\ frame' = [frame EXCEPT ![t] = NULL]
  /\ Goto(t, "finalize")
  /\ UNCHANGED <<taskVars, fd, ssl_task_list, amisslVars, globalVars>>

ThreadEnded(t) ==
  /\ pc[t] = "finalize" /\ finalizers[t] = {}
  /\ tc_UserData' = [tc_UserData EXCEPT ![t] = NULL]
  /\ Goto(t, "ended")
  /\ UNCHANGED <<finalizers, opened, made, fd, nodeVars, amisslVars, globalVars>>

-----------------------------------------------------------------------------
BringUp(t) ==
  \/ EnsureLookup(t) \/ SslTaskRegister(t)
  \/ InitAmiSSLSucceeds(t) \/ InitAmiSSLFails(t) \/ NativeInit(t)

GlobalInit(t) ==
  CheckFlag(t) \/ WarmCheckFlag(t) \/ EnsureInitialised(t) \/ SetFlag(t)

Finalizers(t) ==
  \/ SocketFinalizer(t) \/ AmiSSLFinalizer(t)
  \/ SslTaskUnregister(t) \/ CleanupAmiSSL(t) \/ FreeNode(t)
  \/ ThreadEnded(t)

Program(t) ==
  \/ \E th \in Threads : StartWorker(t, th)
  \/ SocketCreate(t)
  \/ \E u \in Tasks : BeginConstructor(t, u)
  \/ EndConstructor(t)
  \/ BeginWarm(t)
  \/ BeginCall(t) \/ EndCall(t)
  \/ EndThread(t)

Next == \E t \in Tasks : BringUp(t) \/ GlobalInit(t) \/ Finalizers(t) \/ Program(t)

Spec == Init /\ [][Next]_vars

(* Exec runs every ready task; nothing is assumed of the program, nor of   *)
(* the network calls between "ssl" and "idle".                             *)
FairSpec ==
  Spec /\ \A t \in Tasks : WF_vars(BringUp(t) \/ GlobalInit(t) \/ Finalizers(t))

-----------------------------------------------------------------------------
TypeOK ==
  /\ pc \in [Tasks -> Labels]
  /\ tc_UserData \in [Tasks -> Threads \cup {NULL}]
  /\ finalizers \in [Tasks -> SUBSET {"socket", "amissl"}]
  /\ opened \subseteq Tasks
  /\ fd \in [Tasks -> Tasks]
  /\ made \subseteq Tasks
  /\ node \in [Nodes -> Threads \cup {NULL}]
  /\ ssl_task_list \subseteq Nodes
  /\ frame \in [Tasks -> Nodes \cup {NULL}]
  /\ ErrNoPtr \in [Tasks -> Nodes \cup {NULL}]
  /\ SslBase \in [Tasks -> {"none", "own", "global"}]
  /\ initialized \in BOOLEAN /\ OpenSSLReady \in BOOLEAN /\ warmed \in BOOLEAN

BroughtUp(t) == SslBase[t] # "none"

(* The constructor reaches OpenSSL (the global initialisation included)    *)
(* only on a task that has an AmiSSL slot, although an earlier worker at   *)
(* the same Thread or task address may have come and gone                  *)
(* (amigaos SslSocketStream.c:60-74).                                      *)
ConstructorIsBroughtUp ==
  \A t \in Tasks : pc[t] \in {"OPENSSL_init", "setFlag", "ssl"} => BroughtUp(t)

(* While AmiSSL has a worker's errno location, that location is in a node  *)
(* that is allocated, is the worker's and no other task's                  *)
(* (am_ssl_amissl_init.c:90-95: two workers must not trample each other).  *)
ErrnoSlotIsLiveAndPrivate ==
  \A t \in Workers : BroughtUp(t) =>
    /\ ErrNoPtr[t] # NULL /\ node[ErrNoPtr[t]] = tc_UserData[t]
    /\ \A u \in Tasks \ {t} : ErrNoPtr[u] # ErrNoPtr[t]

(* A failed handshake on a worker reads the slot AmiSSL writes for it      *)
(* (am_ssl_amissl_init.c:237-249).                                         *)
ReportsOwnErrno ==
  \A t \in Workers : pc[t] = "ssl" => CurrentTaskErrnoNodes(t) = {ErrNoPtr[t]}

(* A worker that has ended leaves no node and no AmiSSL slot behind, so    *)
(* the next task or Thread at its address starts clean.                    *)
EndedLeavesNothing ==
  /\ \A n \in ssl_task_list : \E t \in Workers : tc_UserData[t] = node[n] /\ node[n] # NULL
  /\ \A t \in Workers : pc[t] = "ended" => ~BroughtUp(t)

(* OpenSSL is used only after its global initialisation has finished, also *)
(* when two tasks race through the flag (am_ssl_amissl_init.c:63-67).      *)
GlobalInitBeforeUse ==
  \A t \in Tasks : pc[t] \in {"ssl", "call"} => OpenSSLReady

(* In a program that warms main first, no worker ever runs                 *)
(* OPENSSL_init_ssl (SslSocketStream.aml:57-64).                         *)
WorkersNeverInit ==
  WarmFirst => \A t \in Workers : pc[t] \notin {"OPENSSL_init", "warmInit"}

(* A worker that hands a socket of its own to the constructor handshakes   *)
(* through its own bsdsocket base, the one the fd belongs to               *)
(* (am_ssl_amissl_init.c:204-212).                                         *)
OwnSocketUsesOwnBase ==
  \A t \in Workers : pc[t] = "ssl" /\ fd[t] = t => SslBase[t] = "own"

(* read, write, release and warmCurrentTask call OpenSSL on a task AmiSSL  *)
(* knows (amigaos SslSocketStream.c:60-64).                                *)
BringUpBeforeAnyCall ==
  \A t \in Tasks : pc[t] \in {"call", "warmInit"} => BroughtUp(t)

(* What AmiSSL and OpenSSL see of the tasks.                               *)
Running == {t \in Tasks : pc[t] # "ended"}
Known   == {t \in Tasks : BroughtUp(t)}
Inside  == {t \in Tasks : pc[t] \in {"ssl", "call"}}
Memory  == {n \in Nodes : node[n] # NULL}

Contract == INSTANCE AmiSslContract WITH
  Cells <- Nodes, memory <- Memory, errno <- ErrNoPtr, ready <- OpenSSLReady,
  running <- Running, known <- Known, inside <- Inside

(* The whole use of AmiSSL by main and the workers keeps to its terms, in  *)
(* a program that warms main and whose streams stay where they were built: *)
(* no task is brought up twice or cleaned up without a slot, no errno      *)
(* location is freed or given to another task while AmiSSL has it, no task *)
(* ends with a slot, and every handshake and call is made in between       *)
(* (am_ssl_amissl_init.c:90-95, 186-235, 262-270).                         *)
KeepsTheContract == Contract!Spec

(* Once main is warm, a constructor gets past the bring-up and the global  *)
(* initialisation to the handshake, or throws: the hang of                 *)
(* OPENSSL_init_ssl on a worker cannot stop it.                            *)
ConstructorGetsThrough ==
  \A t \in Tasks : (pc[t] = "lookup") ~> (pc[t] \in {"ssl", "idle"})

(* A worker whose Thread returns gives its AmiSSL slot back.               *)
FinalizersCleanUp ==
  \A t \in Workers : (pc[t] = "finalize") ~> (pc[t] = "ended" /\ ~BroughtUp(t))

-----------------------------------------------------------------------------
(* The inductive invariant behind the safety properties, in parts.         *)

(* Main has no Thread object and never enters the per-worker code.         *)
MainIsApart ==
  /\ tc_UserData[Main] = NULL /\ BroughtUp(Main) /\ ErrNoPtr[Main] = NULL
  /\ finalizers[Main] = {}
  /\ pc[Main] \in {"idle", "call", "lookup", "flag", "OPENSSL_init", "setFlag", "ssl"}
                   \cup InWarm

(* Running workers have Thread objects of their own.                       *)
ThreadsAreDistinct ==
  /\ \A t \in Workers : (pc[t] = "ended") <=> (tc_UserData[t] = NULL)
  /\ \A t, u \in Workers :
       tc_UserData[t] = tc_UserData[u] /\ tc_UserData[t] # NULL => t = u

(* What each label says of a worker t's node and AmiSSL slot.              *)
WorkerIsAt(t) ==
  /\ pc[t] \in {"InitAmiSSL", "nativeInit", "CleanupAmiSSL", "free"} =>
       frame[t] \in Nodes /\ node[frame[t]] = tc_UserData[t]
  /\ pc[t] = "register" => NodesOf(tc_UserData[t]) = {}
  /\ pc[t] = "InitAmiSSL" => ~BroughtUp(t) /\ frame[t] \in ssl_task_list
  /\ pc[t] = "nativeInit" => BroughtUp(t) /\ frame[t] = ErrNoPtr[t]
  /\ pc[t] \in {"flag", "OPENSSL_init", "setFlag", "ssl", "unregister"} => BroughtUp(t)
  /\ pc[t] = "CleanupAmiSSL" =>
       BroughtUp(t) /\ frame[t] = ErrNoPtr[t] /\ frame[t] \notin ssl_task_list
  /\ pc[t] = "free" => ~BroughtUp(t) /\ frame[t] \notin ssl_task_list
  /\ pc[t] = "ended" => ~BroughtUp(t)
  /\ "amissl" \in finalizers[t] =>
       BroughtUp(t) /\ pc[t] \notin {"nativeInit", "unregister", "CleanupAmiSSL"}
  /\ BroughtUp(t) =>
       /\ ErrNoPtr[t] \in Nodes /\ node[ErrNoPtr[t]] = tc_UserData[t]
       /\ pc[t] = "CleanupAmiSSL" \/ ErrNoPtr[t] \in ssl_task_list
       /\ \/ "amissl" \in finalizers[t]
          \/ pc[t] \in {"nativeInit", "unregister", "CleanupAmiSSL"}
  /\ ~BroughtUp(t) => ErrNoPtr[t] = NULL

(* Every linked node is allocated and belongs to a running worker: one in  *)
(* the middle of InitAmiSSL, or one that is brought up with that node.     *)
NodesAreOwned ==
  \A n \in ssl_task_list :
    /\ node[n] # NULL
    /\ \E t \in Workers :
         /\ tc_UserData[t] = node[n]
         /\ \/ pc[t] = "InitAmiSSL" /\ frame[t] = n
            \/ BroughtUp(t) /\ ErrNoPtr[t] = n

RegistryInv ==
  /\ MainIsApart
  /\ ThreadsAreDistinct
  /\ \A t \in Workers : WorkerIsAt(t)
  /\ NodesAreOwned

(* The flag is set only after the global initialisation, and a warmed      *)
(* program has set it.                                                     *)
GlobalInv ==
  /\ initialized => OpenSSLReady
  /\ warmed => initialized
  /\ made # {} => OpenSSLReady
  /\ \A t \in Tasks : pc[t] \in {"setFlag", "warmSetFlag", "ssl", "call"} => OpenSSLReady
  /\ WarmFirst => \A t \in Workers :
       /\ pc[t] \in InConstructor \cup InWarm => warmed
       /\ pc[t] \notin {"OPENSSL_init", "setFlag", "warmInit", "warmSetFlag"}

(* What the program's conventions add: own sockets mean own bases, and the *)
(* builder of a stream stays brought up as long as it runs.                *)
UsageInv ==
  /\ OwnSocketFirst => \A t \in Workers :
       /\ pc[t] \in InConstructor => t \in opened
       /\ BroughtUp(t) => SslBase[t] = "own"
  /\ \A t \in Workers \cap made :
       pc[t] \in {"idle", "call"} \cup InConstructor \cup InWarm => BroughtUp(t)
  /\ StreamsStay => \A t \in Tasks : pc[t] = "call" => BroughtUp(t)

(* The inductive invariant: no step of any task, whatever the labels of    *)
(* the others, breaks the agreement of list, nodes, AmiSSL slots,          *)
(* finalizers and flag.                                                    *)
IInv == TypeOK /\ RegistryInv /\ GlobalInv /\ UsageInv

=============================================================================
