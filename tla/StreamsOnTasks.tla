--------------------------- MODULE StreamsOnTasks ---------------------------
(***************************************************************************)
(* Sockets and streams over the tasks of AmiSslTasks.  A descriptor is a   *)
(* number in the table of one bsdsocket base; a stream stores only the     *)
(* number (SSL_set_fd), and OpenSSL looks it up, at each call, in the base *)
(* AmiSSL keeps for the calling task.  Whether that finds the connection   *)
(* of the stream depends on who made the socket, who built the stream, who *)
(* calls, what was closed in the meantime and which base the bring-up      *)
(* chose.  Every step of a task is an action of AmiSslTasks, or none of    *)
(* them, together with what it does to sockets and streams.                *)
(***************************************************************************)
EXTENDS AmiSslTasks

CONSTANTS
  Conns,            \* connections, each with its Socket object and at most one stream
  Fds,              \* descriptor numbers of a bsdsocket base
  ReleaseFirst,     \* the program closes a socket only when its stream is released
  UseWhileOpen      \* the program reads and writes a stream only while its socket is open

ASSUME StreamAssumptions ==
  /\ NULL \notin Tasks \cup Conns
  /\ Fds # {}
  /\ ReleaseFirst \in BOOLEAN /\ UseWhileOpen \in BOOLEAN

VARIABLES
  table,            \* each task's own base (main's is the global one): number to connection
  sock,             \* a connection's Socket: the task that created it and its number
  builder,          \* the task that built the connection's stream; NULL without a stream
  using,            \* the stream a task's constructor, call or release works on
  releasing         \* streams in native_release

socketVars == <<table, sock>>
streamVars == <<builder, using, releasing>>
jointVars == <<vars, socketVars, streamVars>>

Open(c) == table[sock[c].task][sock[c].num] = c
InUse(c) == \E t \in Tasks : using[t] = c
Held(c) == builder[c] # NULL \/ InUse(c)

JointInit ==
  /\ Init
  /\ table = [t \in Tasks |-> [n \in Fds |-> NULL]]
  /\ sock \in [Conns -> [task : {Main}, num : {CHOOSE n \in Fds : TRUE}]]
  /\ builder = [c \in Conns |-> NULL]
  /\ using = [t \in Tasks |-> NULL]
  /\ releasing = {}

-----------------------------------------------------------------------------
(* Sockets, as am-net keeps them in the base of the calling task.          *)

(* Socket.create and connect: any free number of the task's base.          *)
Connect(t, c, n) ==
  /\ IF t \in opened THEN pc[t] = "idle" /\ UNCHANGED vars ELSE SocketCreate(t)
  /\ ~Open(c) /\ ~Held(c) /\ table[t][n] = NULL
  /\ table' = [table EXCEPT ![t][n] = c]
  /\ sock' = [sock EXCEPT ![c] = [task |-> t, num |-> n]]
  /\ UNCHANGED streamVars

(* Socket.close, on the task that created the socket.                      *)
Close(c) ==
  /\ Open(c) /\ pc[sock[c].task] = "idle"
  /\ ReleaseFirst => ~Held(c)
  /\ table' = [table EXCEPT ![sock[c].task][sock[c].num] = NULL]
  /\ UNCHANGED <<vars, sock, streamVars>>

(* The end of a worker closes its base, and every descriptor in it.        *)
CloseBase(t) ==
  /\ SocketFinalizer(t)
  /\ table' = [table EXCEPT ![t] = [n \in Fds |-> NULL]]
  /\ UNCHANGED <<sock, streamVars>>

-----------------------------------------------------------------------------
(* Streams.                                                                *)

(* new SslSocketStream(socket, host).                                      *)
Build(t, c) ==
  /\ Open(c) /\ ~Held(c)
  /\ \E u \in Tasks : sock[c].task = u /\ BeginConstructor(t, u)
  /\ using' = [using EXCEPT ![t] = c]
  /\ UNCHANGED <<socketVars, builder, releasing>>

(* Steps inside the constructor; one that throws lets go of the socket.    *)
UsingAfterStepKept(t) == using
UsingAfterStep(t) ==
  IF pc'[t] = "idle" THEN [using EXCEPT ![t] = NULL] ELSE using

StepOfConstructor(t) ==
  /\ BringUp(t) \/ GlobalInit(t)
  /\ using' = UsingAfterStep(t)
  /\ UNCHANGED <<socketVars, builder, releasing>>

FinishConstructor(t) ==
  /\ EndConstructor(t)
  /\ \/ made' = made \cup {t} /\ builder' = [builder EXCEPT ![using[t]] = t]
     \/ made' = made /\ UNCHANGED builder
  /\ using' = [using EXCEPT ![t] = NULL]
  /\ UNCHANGED <<socketVars, releasing>>

MayCall(t, c) ==
  /\ builder[c] # NULL /\ c \notin releasing
  /\ StreamsStay => builder[c] = t

(* read or write: neither read_0 nor write_0 looks at the socket.          *)
Call(t, c) ==
  /\ BeginCall(t) /\ MayCall(t, c)
  /\ UseWhileOpen => Open(c)
  /\ using' = [using EXCEPT ![t] = c]
  /\ UNCHANGED <<socketVars, builder, releasing>>

(* The last reference is dropped: native_release runs SSL_shutdown.        *)
Release(t, c) ==
  /\ BeginCall(t) /\ MayCall(t, c)
  /\ ~InUse(c)
  /\ using' = [using EXCEPT ![t] = c]
  /\ releasing' = releasing \cup {c}
  /\ UNCHANGED <<socketVars, builder>>

(* After native_release the stream is gone; its number is not closed.      *)
BuilderAfterCall(t) ==
  IF using[t] \in releasing THEN [builder EXCEPT ![using[t]] = NULL] ELSE builder

FinishCall(t) ==
  /\ EndCall(t)
  /\ builder' = BuilderAfterCall(t)
  /\ releasing' = releasing \ {using[t]}
  /\ using' = [using EXCEPT ![t] = NULL]
  /\ UNCHANGED socketVars

(* A worker's Thread returns, its own streams released.                    *)
Finish(t) ==
  /\ EndThread(t)
  /\ StreamsStay => \A c \in Conns : builder[c] # t
  /\ UNCHANGED <<socketVars, streamVars>>

(* The steps that touch neither sockets nor streams.                       *)
OtherStep ==
  /\ \E t \in Tasks :
       \/ BeginWarm(t)
       \/ \E th \in Threads : StartWorker(t, th)
       \/ AmiSSLFinalizer(t) \/ SslTaskUnregister(t) \/ CleanupAmiSSL(t)
       \/ FreeNode(t) \/ ThreadEnded(t)
  /\ UNCHANGED <<socketVars, streamVars>>

JointNext ==
  \/ OtherStep
  \/ \E t \in Tasks :
       \/ StepOfConstructor(t) \/ FinishConstructor(t) \/ FinishCall(t)
       \/ CloseBase(t) \/ Finish(t)
       \/ \E c \in Conns : Build(t, c) \/ Call(t, c) \/ Release(t, c)
       \/ \E c \in Conns, n \in Fds : Connect(t, c, n)
  \/ \E c \in Conns : Close(c)

JointSpec == JointInit /\ [][JointNext]_jointVars

-----------------------------------------------------------------------------
(* Where OpenSSL's socket calls on task t find descriptor n: in the base   *)
(* AmiSSL keeps for t, if any.                                             *)
Reached(t, n) ==
  CASE SslBase[t] = "own"    -> table[t][n]
    [] SslBase[t] = "global" -> table[Main][n]
    [] SslBase[t] = "none"   -> NULL

InOpenSSL(t) == pc[t] \in {"ssl", "call"}

(* In a program that keeps a stream and its socket on one task, each       *)
(* handshake, and each read, write and shutdown made while the socket is   *)
(* open, is sent to the stream's own connection, although all bases hand   *)
(* out the same numbers, numbers and task addresses come again, and the    *)
(* getpeername check of the constructor has no effect                      *)
(* (amigaos SslSocketStream.c:117-143).                                    *)
CallsReachTheirConnection ==
  \A t \in Tasks :
    InOpenSSL(t) /\ (pc[t] = "call" => Open(using[t])) =>
      Reached(t, sock[using[t]].num) = using[t]

(* No call on a stream is sent to another connection: "Always close        *)
(* underlying socket" (.github/copilot-instructions.md:222) must not let a *)
(* later release write to a connection that got the socket's number.       *)
NoForeignTraffic ==
  \A t \in Tasks : InOpenSSL(t) => Reached(t, sock[using[t]].num) \in {using[t], NULL}

-----------------------------------------------------------------------------
(* The inductive invariant, on top of that of AmiSslTasks.                 *)

SocketsInv ==
  /\ table \in [Tasks -> [Fds -> Conns \cup {NULL}]]
  /\ sock \in [Conns -> [task : Tasks, num : Fds]]
  /\ \A t \in Tasks, n \in Fds : table[t][n] # NULL =>
       t \in opened /\ sock[table[t][n]] = [task |-> t, num |-> n]

StreamsInv ==
  /\ builder \in [Conns -> Tasks \cup {NULL}]
  /\ using \in [Tasks -> Conns \cup {NULL}] /\ releasing \subseteq Conns
  /\ \A t \in Tasks : using[t] # NULL <=> pc[t] \in InConstructor \cup {"call"}
  /\ \A t \in Tasks : pc[t] \in InConstructor =>
       /\ fd[t] = sock[using[t]].task /\ builder[using[t]] = NULL
       /\ \A u \in Tasks \ {t} : using[u] # using[t]
  /\ \A c \in releasing : builder[c] # NULL /\ InUse(c)

(* A stream is built, used and released on the task of its socket ...     *)
StreamsAreLocal == OwnSocketFirst /\ StreamsStay
(* ... and the socket is closed last.                                      *)
Conventions == StreamsAreLocal /\ ReleaseFirst

KeptTogether ==
  /\ SslBase[Main] = "global"
  /\ \A t \in Tasks : pc[t] \in InConstructor =>
       Open(using[t]) /\ sock[using[t]].task = t
  /\ \A t \in Tasks : pc[t] = "call" => builder[using[t]] = t
  /\ \A c \in Conns : builder[c] # NULL =>
       /\ sock[c].task = builder[c]
       /\ builder[c] \in made
       /\ pc[builder[c]] \in {"idle", "call"} \cup InConstructor \cup InWarm

ClosedLast == \A c \in Conns : builder[c] # NULL => Open(c)

JointInv ==
  /\ SocketsInv /\ StreamsInv
  /\ StreamsAreLocal => KeptTogether
  /\ Conventions => ClosedLast

=============================================================================
