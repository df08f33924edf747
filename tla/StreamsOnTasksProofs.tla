------------------------ MODULE StreamsOnTasksProofs ------------------------
(* What holds of StreamsOnTasks for any tasks, connections and descriptor  *)
(* numbers: it adds to the tasks' invariant which base finds what.         *)
EXTENDS StreamsOnTasks, AmiSslTasksProofs

(* Every step of the composition is a step of AmiSslTasks or none.         *)
LEMMA StepOfTasks == [JointNext]_jointVars => [Next]_vars
<1>. SUFFICES ASSUME [JointNext]_jointVars, ~UNCHANGED vars  PROVE Next
  OBVIOUS
<1>1. JointNext  BY DEF jointVars
<1>2. ASSUME NEW t \in Tasks
      PROVE  (StepOfConstructor(t) \/ FinishConstructor(t) \/ FinishCall(t) \/ CloseBase(t)
              \/ Finish(t)) => Next
  BY DEF StepOfConstructor, FinishConstructor, FinishCall, CloseBase, Finish,
         Next, Finalizers, Program
<1>3. ASSUME NEW t \in Tasks, NEW c \in Conns, NEW n \in Fds, Connect(t, c, n)  PROVE Next
  BY <1>3 DEF Connect, Next, Program
<1>4. ASSUME NEW t \in Tasks, NEW c \in Conns, Call(t, c) \/ Release(t, c)  PROVE Next
  BY <1>4 DEF Call, Release, Next, Program
<1>5. ASSUME NEW t \in Tasks, NEW c \in Conns, Build(t, c)  PROVE Next
  BY <1>5 DEF Build, BeginConstructor, Next, Program
<1>6. ASSUME NEW c \in Conns  PROVE ~Close(c)
  BY DEF Close
<1>7. OtherStep => Next
  BY DEF OtherStep, Next, Program, Finalizers
<1>8. QED
  BY <1>1, <1>2, <1>3, <1>4, <1>5, <1>6, <1>7 DEF JointNext

(* The composition implements its component: with sockets and streams left *)
(* out, what the tasks do is what AmiSslTasks allows, so that all that is  *)
(* proved of it holds here.                                                *)
THEOREM ImplementsTasks == JointSpec => Spec
<1>1. JointInit => Init  BY DEF JointInit
<1>2. QED  BY <1>1, StepOfTasks, PTL DEF JointSpec, Spec

LEMMA TasksInvariance == JointSpec => []IInv
BY ImplementsTasks, Invariance, PTL

-----------------------------------------------------------------------------
(* What the steps of the constructor do to the variables the composition   *)
(* looks at.                                                               *)
LEMMA ConstructorStepEffect ==
  ASSUME IInv, NEW t \in Tasks, BringUp(t) \/ GlobalInit(t)
  PROVE  /\ pc'[t] \in InConstructor \cup InWarm \cup {"idle"}
         /\ \A u \in Tasks \ {t} : pc'[u] = pc[u]
         /\ \/ pc[t] \in InConstructor /\ pc'[t] \in InConstructor \cup {"idle"}
            \/ pc[t] \in InWarm /\ pc'[t] \in InWarm \cup {"idle"}
         /\ pc'[t] # "idle" => fd' = fd
         /\ \A u \in Tasks \ {t} : fd'[u] = fd[u]
         /\ opened' = opened /\ made' = made /\ SslBase'[Main] = SslBase[Main]
<1>. USE DEF Goto, InConstructor, InWarm, taskVars, amisslVars
<1>1. TypeOK /\ MainIsApart  BY DEF IInv, RegistryInv
<1>2. CASE EnsureLookup(t)  BY <1>1, <1>2 DEF EnsureLookup, TypeOK
<1>3. CASE SslTaskRegister(t)
  BY <1>1, <1>3 DEF SslTaskRegister, Throw, LeaveConstructor, TypeOK
<1>4. CASE InitAmiSSLSucceeds(t)
  <2>1. t # Main  BY <1>1, <1>4 DEF InitAmiSSLSucceeds, MainIsApart
  <2>2. SslBase'[Main] = SslBase[Main]
    BY <2>1, <1>1, <1>4 DEF InitAmiSSLSucceeds, TypeOK
  <2>3. QED  BY <2>2, <1>1, <1>4 DEF InitAmiSSLSucceeds, TypeOK
<1>5. CASE InitAmiSSLFails(t)
  BY <1>1, <1>5 DEF InitAmiSSLFails, Throw, LeaveConstructor, TypeOK
<1>6. CASE NativeInit(t)  BY <1>1, <1>6 DEF NativeInit, TypeOK
<1>7. CASE GlobalInit(t)
  BY <1>1, <1>7 DEF GlobalInit, CheckFlag, WarmCheckFlag, EnsureInitialised, SetFlag, TypeOK
<1>8. QED  BY <1>2, <1>3, <1>4, <1>5, <1>6, <1>7 DEF BringUp

(* Labels of the constructor, of warming and of the rest are apart.        *)
LEMMA LabelsApart ==
  /\ InConstructor \cap InWarm = {} /\ InConstructor \cap InClose = {}
  /\ {"idle", "call", "ended", "finalize"} \cap (InConstructor \cup InWarm \cup InClose) = {}
BY DEF InConstructor, InWarm, InClose

LEMMA ConstructorStep ==
  ASSUME IInv, JointInv, NEW t \in Tasks, StepOfConstructor(t)
  PROVE  JointInv'
<1>1. SocketsInv /\ StreamsInv /\ (StreamsAreLocal => KeptTogether) /\ (Conventions => ClosedLast)
  BY DEF JointInv
<1>2. UNCHANGED <<table, sock, builder, releasing>> /\ using' = UsingAfterStep(t)
  BY DEF StepOfConstructor, socketVars
<1>3. PICK l \in InConstructor \cup InWarm \cup {"idle"} : l = pc'[t]
  BY ConstructorStepEffect DEF StepOfConstructor
<1>4. /\ \A u \in Tasks \ {t} : fd'[u] = fd[u]
      /\ \A u \in Tasks \ {t} : pc'[u] = pc[u]
      /\ \/ pc[t] \in InConstructor /\ l \in InConstructor \cup {"idle"}
         \/ pc[t] \in InWarm /\ l \in InWarm \cup {"idle"}
      /\ l # "idle" => fd' = fd
      /\ opened' = opened /\ made' = made /\ SslBase'[Main] = SslBase[Main]
  BY <1>3, ConstructorStepEffect DEF StepOfConstructor
<1>5. /\ using'[t] = IF l = "idle" THEN NULL ELSE using[t]
      /\ \A u \in Tasks \ {t} : using'[u] = using[u]
      /\ using' \in [Tasks -> Conns \cup {NULL}]
  BY <1>1, <1>2, <1>3 DEF UsingAfterStep, StreamsInv
<1>6. SocketsInv'  BY <1>1, <1>2, <1>4 DEF SocketsInv
<1>7. StreamsInv'
  <2>1. \A u \in Tasks : using'[u] # NULL <=> pc'[u] \in InConstructor \cup {"call"}
    BY <1>1, <1>3, <1>4, <1>5, LabelsApart DEF StreamsInv
  <2>2. ASSUME NEW u \in Tasks, pc'[u] \in InConstructor
        PROVE  /\ pc[u] \in InConstructor /\ using'[u] = using[u] /\ fd'[u] = fd[u]
               /\ fd'[u] = sock'[using'[u]].task /\ builder'[using'[u]] = NULL
               /\ \A v \in Tasks \ {u} : using'[v] # using'[u]
    <3>1. pc[u] \in InConstructor /\ using'[u] = using[u] /\ fd'[u] = fd[u]
      BY <2>2, <1>3, <1>4, <1>5, LabelsApart
    <3>2. using[u] # NULL  BY <3>1, <1>1 DEF StreamsInv
    <3>3. QED  BY <3>1, <3>2, <1>1, <1>2, <1>5 DEF StreamsInv
  <2>3. ASSUME NEW c \in releasing  PROVE builder'[c] # NULL /\ InUse(c)'
    <3>1. PICK u \in Tasks : using[u] = c /\ builder[c] # NULL
      BY <1>1, <2>3 DEF StreamsInv, InUse
    <3>2. CASE u # t  BY <3>1, <3>2, <1>2, <1>5 DEF InUse
    <3>3. CASE u = t /\ l # "idle"  BY <3>1, <3>3, <1>2, <1>5 DEF InUse
    <3>4. CASE u = t /\ l = "idle"
      <4>1. using[t] # NULL  BY <3>1, <3>4, <2>3, <1>1, StreamAssumptions DEF StreamsInv
      <4>2. pc[t] \in InConstructor  BY <4>1, <1>1, <1>4, LabelsApart DEF StreamsInv
      <4>3. QED  BY <4>2, <3>1, <3>4, <1>1 DEF StreamsInv
    <3>5. QED  BY <3>2, <3>3, <3>4
  <2>4. QED  BY <1>1, <1>2, <1>5, <2>1, <2>2, <2>3 DEF StreamsInv
<1>8. ASSUME StreamsAreLocal  PROVE KeptTogether'
  <2>1. KeptTogether /\ \A c \in Conns : Open(c)' = Open(c)
    BY <1>1, <1>2, <1>8 DEF Open
  <2>2. ASSUME NEW u \in Tasks, pc'[u] \in InConstructor
        PROVE  Open(using[u])' /\ sock'[using'[u]].task = u
    <3>1. pc[u] \in InConstructor /\ using'[u] = using[u]
      BY <2>2, <1>3, <1>4, <1>5, LabelsApart
    <3>2. using[u] \in Conns  BY <3>1, <1>1 DEF StreamsInv
    <3>3. QED  BY <3>1, <3>2, <2>1, <1>2 DEF KeptTogether, Open
  <2>3. ASSUME NEW u \in Tasks, pc'[u] = "call"
        PROVE  builder'[using'[u]] = u
    <3>1. u # t  BY <2>3, <1>3, LabelsApart
    <3>2. QED  BY <3>1, <2>1, <2>3, <1>2, <1>4, <1>5 DEF KeptTogether, Open
  <2>4. ASSUME NEW c \in Conns, builder[c] # NULL
        PROVE  pc'[builder[c]] \in {"idle", "call"} \cup InConstructor \cup InWarm
    <3>1. builder[c] \in Tasks  BY <2>4, <1>1 DEF StreamsInv
    <3>2. QED  BY <3>1, <2>1, <2>4, <1>3, <1>4 DEF KeptTogether
  <2>5. QED  BY <2>1, <2>2, <2>3, <2>4, <1>2, <1>4, <1>5 DEF KeptTogether, Open
<1>9. ASSUME Conventions  PROVE ClosedLast'
  BY <1>1, <1>2, <1>9 DEF ClosedLast, Open
<1>10. QED  BY <1>6, <1>7, <1>8, <1>9 DEF JointInv, Conventions, StreamsAreLocal

-----------------------------------------------------------------------------
(* Sockets.                                                                *)

(* A step that moves no label of a task between its constructor, its calls *)
(* and the rest, and leaves streams alone, keeps StreamsInv.               *)
LEMMA StreamsKept ==
  ASSUME StreamsInv, UNCHANGED streamVars,
         \A t \in Tasks : pc'[t] \in InConstructor \cup {"call"} <=>
                          pc[t] \in InConstructor \cup {"call"},
         \A t \in Tasks : pc'[t] \in InConstructor => pc[t] \in InConstructor,
         \A t \in Tasks : pc[t] \in InConstructor =>
                            fd'[t] = fd[t] /\ sock'[using[t]] = sock[using[t]]
  PROVE  StreamsInv'
<1>1. UNCHANGED <<builder, using, releasing>>  BY DEF streamVars
<1>2. \A c \in Conns : InUse(c)' <=> InUse(c)  BY <1>1 DEF InUse
<1>3. QED  BY <1>1, <1>2 DEF StreamsInv

LEMMA ConnectStep ==
  ASSUME IInv, JointInv, NEW t \in Tasks, NEW c \in Conns, NEW n \in Fds, Connect(t, c, n)
  PROVE  JointInv'
<1>1. /\ SocketsInv /\ StreamsInv /\ TypeOK
      /\ (StreamsAreLocal => KeptTogether) /\ (Conventions => ClosedLast)
  BY DEF JointInv, IInv
<1>2. /\ UNCHANGED <<pc, fd, made, SslBase, builder, using, releasing>>
      /\ opened' = opened \cup {t}
  BY DEF Connect, SocketCreate, vars, taskVars, amisslVars, streamVars
<1>3. /\ ~Open(c) /\ ~Held(c) /\ table[t][n] = NULL
      /\ table' = [table EXCEPT ![t][n] = c]
      /\ sock' = [sock EXCEPT ![c] = [task |-> t, num |-> n]]
  BY DEF Connect
<1>4. /\ table' \in [Tasks -> [Fds -> Conns \cup {NULL}]]
      /\ sock' \in [Conns -> [task : Tasks, num : Fds]]
      /\ \A u \in Tasks, m \in Fds :
           table'[u][m] = IF u = t /\ m = n THEN c ELSE table[u][m]
      /\ sock'[c] = [task |-> t, num |-> n]
      /\ \A d \in Conns \ {c} : sock'[d] = sock[d]
  BY <1>1, <1>3 DEF SocketsInv
<1>5. SocketsInv'
  <2>1. ASSUME NEW u \in Tasks, NEW m \in Fds, table'[u][m] # NULL
        PROVE  u \in opened' /\ sock'[table'[u][m]] = [task |-> u, num |-> m]
    <3>1. CASE u = t /\ m = n  BY <3>1, <1>2, <1>4
    <3>2. CASE ~(u = t /\ m = n)
      <4>1. table'[u][m] = table[u][m] /\ table[u][m] \in Conns
        BY <3>2, <2>1, <1>1, <1>4 DEF SocketsInv
      <4>2. u \in opened /\ sock[table[u][m]] = [task |-> u, num |-> m]
        BY <4>1, <2>1, <1>1 DEF SocketsInv
      <4>3. table[u][m] # c  BY <4>2, <1>3 DEF Open
      <4>4. QED  BY <4>1, <4>2, <4>3, <1>2, <1>4
    <3>3. QED  BY <3>1, <3>2
  <2>2. QED  BY <1>4, <2>1 DEF SocketsInv
<1>6. \A d \in Conns : Held(d) => d # c /\ sock'[d] = sock[d] /\ (Open(d) => Open(d)')
  <2>1. ASSUME NEW d \in Conns, Held(d)
        PROVE  d # c /\ sock'[d] = sock[d] /\ (Open(d) => Open(d)')
    <3>1. d # c /\ sock'[d] = sock[d]  BY <2>1, <1>3, <1>4
    <3>2. sock[d].task \in Tasks /\ sock[d].num \in Fds  BY <1>1 DEF SocketsInv
    <3>3. ASSUME Open(d)  PROVE Open(d)'
      <4>1. ~(sock[d].task = t /\ sock[d].num = n)
        BY <3>3, <1>3, StreamAssumptions DEF Open
      <4>2. QED  BY <4>1, <3>1, <3>2, <3>3, <1>4 DEF Open
    <3>4. QED  BY <3>1, <3>3
  <2>2. QED  BY <2>1
<1>7. \A u \in Tasks : pc[u] \in InConstructor \cup {"call"} => using[u] \in Conns /\ Held(using[u])
  BY <1>1 DEF StreamsInv, Held, InUse
<1>8. StreamsInv'
  BY <1>1, <1>2, <1>6, <1>7, StreamsKept DEF streamVars
<1>9. ASSUME StreamsAreLocal  PROVE KeptTogether'
  BY <1>1, <1>2, <1>6, <1>7, <1>9 DEF KeptTogether, Held
<1>10. ASSUME Conventions  PROVE ClosedLast'
  BY <1>1, <1>2, <1>6, <1>10 DEF ClosedLast, Held
<1>11. QED  BY <1>5, <1>8, <1>9, <1>10 DEF JointInv, Conventions, StreamsAreLocal

LEMMA CloseStep ==
  ASSUME JointInv, NEW c \in Conns, Close(c)
  PROVE  JointInv'
<1>1. SocketsInv /\ StreamsInv /\ (StreamsAreLocal => KeptTogether) /\ (Conventions => ClosedLast)
  BY DEF JointInv
<1>2. UNCHANGED <<pc, fd, made, SslBase, opened, sock, builder, using, releasing>>
  BY DEF Close, vars, taskVars, amisslVars, streamVars
<1>3. PICK t \in Tasks, n \in Fds : sock[c] = [task |-> t, num |-> n]
  BY <1>1 DEF SocketsInv
<1>4. /\ Open(c) /\ (ReleaseFirst => ~Held(c))
      /\ table' = [table EXCEPT ![t][n] = NULL]
  BY <1>3 DEF Close
<1>5. /\ table' \in [Tasks -> [Fds -> Conns \cup {NULL}]]
      /\ \A u \in Tasks, m \in Fds :
           table'[u][m] = IF u = t /\ m = n THEN NULL ELSE table[u][m]
  BY <1>1, <1>4 DEF SocketsInv
<1>6. SocketsInv'  BY <1>1, <1>2, <1>5 DEF SocketsInv
<1>7. StreamsInv'  BY <1>1, <1>2, StreamsKept DEF streamVars
<1>8. ASSUME NEW d \in Conns \ {c}, Open(d)  PROVE Open(d)'
  <2>1. sock[d].task \in Tasks /\ sock[d].num \in Fds  BY <1>1 DEF SocketsInv
  <2>2. ~(sock[d].task = t /\ sock[d].num = n)  BY <1>3, <1>4, <1>8 DEF Open
  <2>3. QED  BY <2>1, <2>2, <1>2, <1>5, <1>8 DEF Open
<1>9. ASSUME StreamsAreLocal  PROVE KeptTogether'
  <2>1. pc[t] = "idle"  BY <1>3 DEF Close
  <2>2. ASSUME NEW u \in Tasks, pc[u] \in InConstructor
        PROVE  using[u] \in Conns \ {c}
    <3>1. using[u] \in Conns /\ sock[using[u]].task = u
      BY <2>2, <1>1, <1>9 DEF StreamsInv, KeptTogether
    <3>2. u # t  BY <2>1, <2>2, LabelsApart
    <3>3. QED  BY <3>1, <3>2, <1>3
  <2>3. ASSUME NEW u \in Tasks, pc[u] = "call"
        PROVE  using[u] \in Conns \ {c}
    <3>1. using[u] \in Conns  BY <2>3, <1>1 DEF StreamsInv
    <3>2. builder[using[u]] = u  BY <2>3, <1>1, <1>9 DEF KeptTogether
    <3>3. sock[using[u]].task = u
      BY <3>1, <3>2, <2>3, <1>1, <1>9, StreamAssumptions DEF KeptTogether
    <3>4. u # t  BY <2>1, <2>3
    <3>5. QED  BY <3>1, <3>3, <3>4, <1>3
  <2>4. QED  BY <1>1, <1>2, <1>8, <1>9, <2>2, <2>3 DEF KeptTogether
<1>10. ASSUME Conventions  PROVE ClosedLast'
  <2>1. ~Held(c) /\ ClosedLast
    BY <1>1, <1>4, <1>10 DEF Conventions
  <2>2. QED  BY <2>1, <1>2, <1>8 DEF ClosedLast, Held
<1>11. QED  BY <1>6, <1>7, <1>9, <1>10 DEF JointInv, Conventions, StreamsAreLocal

(* A worker in its finalizers has no stream of its own left.               *)
LEMMA CloseBaseStep ==
  ASSUME IInv, JointInv, NEW t \in Tasks, CloseBase(t)
  PROVE  JointInv'
<1>1. SocketsInv /\ StreamsInv /\ (StreamsAreLocal => KeptTogether) /\ (Conventions => ClosedLast)
  BY DEF JointInv
<1>2. /\ UNCHANGED <<pc, fd, made, SslBase, sock, builder, using, releasing>>
      /\ opened' = opened \ {t} /\ pc[t] = "finalize"
      /\ table' = [table EXCEPT ![t] = [n \in Fds |-> NULL]]
  BY DEF CloseBase, SocketFinalizer, taskVars, amisslVars, streamVars
<1>3. /\ table' \in [Tasks -> [Fds -> Conns \cup {NULL}]]
      /\ \A u \in Tasks, m \in Fds : table'[u][m] = IF u = t THEN NULL ELSE table[u][m]
  BY <1>1, <1>2 DEF SocketsInv
<1>4. SocketsInv'  BY <1>1, <1>2, <1>3 DEF SocketsInv
<1>5. StreamsInv'  BY <1>1, <1>2, StreamsKept DEF streamVars
<1>6. ASSUME NEW d \in Conns, Open(d), sock[d].task # t  PROVE Open(d)'
  BY <1>6, <1>1, <1>2, <1>3 DEF Open, SocketsInv
<1>7. ASSUME StreamsAreLocal  PROVE KeptTogether'
  <2>1. \A u \in Tasks : pc[u] \in InConstructor => using[u] \in Conns /\ u # t
    BY <1>1, <1>2, LabelsApart DEF StreamsInv
  <2>2. \A c \in Conns : builder[c] # NULL => builder[c] # t
    BY <1>1, <1>2, <1>7, LabelsApart DEF KeptTogether
  <2>3. \A u \in Tasks : pc[u] = "call" => using[u] \in Conns /\ u # t
    BY <1>1, <1>2 DEF StreamsInv
  <2>4. \A u \in Tasks : pc[u] = "call" => sock[using[u]].task # t
    BY <2>2, <2>3, <1>1, <1>7, StreamAssumptions DEF KeptTogether
  <2>5. QED  BY <1>1, <1>2, <1>6, <1>7, <2>1, <2>2, <2>3, <2>4 DEF KeptTogether
<1>8. ASSUME Conventions  PROVE ClosedLast'
  <2>1. KeptTogether /\ ClosedLast  BY <1>1, <1>8 DEF Conventions
  <2>2. \A c \in Conns : builder[c] # NULL => sock[c].task # t
    BY <2>1, <1>1, <1>2, LabelsApart DEF KeptTogether
  <2>3. QED  BY <2>1, <2>2, <1>2, <1>6 DEF ClosedLast
<1>9. QED  BY <1>4, <1>5, <1>7, <1>8 DEF JointInv, Conventions, StreamsAreLocal

-----------------------------------------------------------------------------
(* Streams.                                                                *)

LEMMA BuildStep ==
  ASSUME IInv, JointInv, NEW t \in Tasks, NEW c \in Conns, Build(t, c)
  PROVE  JointInv'
<1>1. /\ SocketsInv /\ StreamsInv /\ TypeOK
      /\ (StreamsAreLocal => KeptTogether) /\ (Conventions => ClosedLast)
  BY DEF JointInv, IInv
<1>2. /\ UNCHANGED <<made, SslBase, opened, table, sock, builder, releasing>>
      /\ Open(c) /\ ~Held(c) /\ pc[t] = "idle"
      /\ using' = [using EXCEPT ![t] = c]
      /\ pc' = [pc EXCEPT ![t] = "lookup"]
      /\ fd' = [fd EXCEPT ![t] = sock[c].task]
      /\ OwnSocketFirst => sock[c].task = t
  BY DEF Build, BeginConstructor, Goto, taskVars, amisslVars, socketVars
<1>3. /\ using'[t] = c /\ pc'[t] = "lookup" /\ fd'[t] = sock[c].task
      /\ \A u \in Tasks \ {t} : using'[u] = using[u] /\ pc'[u] = pc[u] /\ fd'[u] = fd[u]
      /\ using' \in [Tasks -> Conns \cup {NULL}]
  BY <1>1, <1>2 DEF StreamsInv, TypeOK
<1>4. "lookup" \in InConstructor  BY DEF InConstructor
<1>5. builder[c] = NULL /\ (\A u \in Tasks : using[u] # c) /\ using[t] = NULL
  BY <1>1, <1>2, LabelsApart DEF Held, InUse, StreamsInv
<1>6. SocketsInv'  BY <1>1, <1>2 DEF SocketsInv
<1>7. StreamsInv'
  <2>1. \A u \in Tasks : using'[u] # NULL <=> pc'[u] \in InConstructor \cup {"call"}
    BY <1>1, <1>3, <1>4, StreamAssumptions DEF StreamsInv
  <2>2. ASSUME NEW u \in Tasks, pc'[u] \in InConstructor
        PROVE  /\ fd'[u] = sock'[using'[u]].task /\ builder'[using'[u]] = NULL
               /\ \A v \in Tasks \ {u} : using'[v] # using'[u]
    <3>1. CASE u = t  BY <3>1, <1>2, <1>3, <1>5
    <3>2. CASE u # t
      <4>1. pc[u] \in InConstructor /\ using[u] # c
        BY <3>2, <2>2, <1>3, <1>5
      <4>2. QED  BY <3>2, <4>1, <1>1, <1>2, <1>3 DEF StreamsInv
    <3>3. QED  BY <3>1, <3>2
  <2>3. ASSUME NEW d \in releasing  PROVE builder'[d] # NULL /\ InUse(d)'
    <3>1. PICK u \in Tasks : using[u] = d /\ builder[d] # NULL
      BY <1>1, <2>3 DEF StreamsInv, InUse
    <3>2. d # NULL  BY <2>3, <1>1, StreamAssumptions DEF StreamsInv
    <3>3. u # t  BY <3>1, <3>2, <1>5
    <3>4. QED  BY <3>1, <3>3, <1>2, <1>3 DEF InUse
  <2>4. QED  BY <1>1, <1>2, <1>3, <2>1, <2>2, <2>3 DEF StreamsInv
<1>8. ASSUME StreamsAreLocal  PROVE KeptTogether'
  <2>1. KeptTogether /\ \A d \in Conns : Open(d)' = Open(d)
    BY <1>1, <1>2, <1>8 DEF Open
  <2>2. ASSUME NEW u \in Tasks, pc'[u] \in InConstructor
        PROVE  Open(using[u])' /\ sock'[using'[u]].task = u
    <3>1. CASE u = t
      <4>1. Open(c)' /\ sock'[c].task = t  BY <1>2, <1>8, <2>1 DEF StreamsAreLocal
      <4>2. QED  BY <3>1, <4>1, <1>3 DEF Open
    <3>2. CASE u # t
      <4>1. pc[u] \in InConstructor /\ using'[u] = using[u]  BY <3>2, <2>2, <1>3
      <4>2. QED  BY <4>1, <2>1, <1>2 DEF KeptTogether, Open
    <3>3. QED  BY <3>1, <3>2
  <2>3. ASSUME NEW u \in Tasks, pc'[u] = "call"
        PROVE  builder'[using'[u]] = u
    <3>1. u # t /\ pc[u] = "call"  BY <2>3, <1>3
    <3>2. QED  BY <3>1, <2>1, <1>2, <1>3 DEF KeptTogether, Open
  <2>4. ASSUME NEW d \in Conns, builder[d] # NULL
        PROVE  pc'[builder[d]] \in {"idle", "call"} \cup InConstructor \cup InWarm
    <3>1. builder[d] \in Tasks  BY <2>4, <1>1 DEF StreamsInv
    <3>2. QED  BY <3>1, <2>1, <2>4, <1>3, <1>4 DEF KeptTogether
  <2>5. QED
    BY <2>1, <2>2, <2>3, <2>4, <1>2, <1>3 DEF KeptTogether, Open
<1>9. ASSUME Conventions  PROVE ClosedLast'
  BY <1>1, <1>2, <1>9 DEF ClosedLast, Open
<1>10. QED  BY <1>6, <1>7, <1>8, <1>9 DEF JointInv, Conventions, StreamsAreLocal

LEMMA FinishConstructorStep ==
  ASSUME IInv, JointInv, NEW t \in Tasks, FinishConstructor(t)
  PROVE  JointInv'
<1>1. /\ SocketsInv /\ StreamsInv /\ TypeOK
      /\ (StreamsAreLocal => KeptTogether) /\ (Conventions => ClosedLast)
  BY DEF JointInv, IInv
<1>2. /\ UNCHANGED <<SslBase, opened, table, sock, releasing>>
      /\ pc[t] = "ssl"
      /\ using' = [using EXCEPT ![t] = NULL]
      /\ pc' = [pc EXCEPT ![t] = "idle"]
      /\ fd' = [fd EXCEPT ![t] = t]
      /\ \/ made' = made \cup {t} /\ builder' = [builder EXCEPT ![using[t]] = t]
         \/ made' = made /\ builder' = builder
  BY DEF FinishConstructor, EndConstructor, LeaveConstructor, Goto, amisslVars, socketVars
<1>3. /\ using'[t] = NULL /\ pc'[t] = "idle"
      /\ \A u \in Tasks \ {t} : using'[u] = using[u] /\ pc'[u] = pc[u] /\ fd'[u] = fd[u]
      /\ using' \in [Tasks -> Conns \cup {NULL}]
  BY <1>1, <1>2 DEF StreamsInv, TypeOK
<1>4. pc[t] \in InConstructor  BY <1>2 DEF InConstructor
<1>5. PICK c \in Conns : c = using[t]  BY <1>1, <1>4 DEF StreamsInv
<1>6. builder[c] = NULL /\ \A u \in Tasks \ {t} : using[u] # c
  BY <1>1, <1>4, <1>5 DEF StreamsInv
<1>7. /\ builder' \in [Conns -> Tasks \cup {NULL}]
      /\ \A d \in Conns \ {c} : builder'[d] = builder[d]
      /\ builder'[c] = NULL \/ (builder'[c] = t /\ t \in made')
      /\ made \subseteq made'
  <2>1. CASE made' = made \cup {t} /\ builder' = [builder EXCEPT ![c] = t]
    <3>1. builder \in [Conns -> Tasks \cup {NULL}]  BY <1>1 DEF StreamsInv
    <3>2. builder' \in [Conns -> Tasks \cup {NULL}]  BY <2>1, <3>1
    <3>3. builder'[c] = t /\ \A d \in Conns \ {c} : builder'[d] = builder[d]
      BY <2>1, <3>1
    <3>4. t \in made' /\ made \subseteq made'  BY <2>1
    <3>5. QED  BY <3>2, <3>3, <3>4
  <2>2. CASE made' = made /\ builder' = builder
    <3>1. builder \in [Conns -> Tasks \cup {NULL}]  BY <1>1 DEF StreamsInv
    <3>2. builder'[c] = NULL  BY <2>2, <1>6
    <3>3. builder' \in [Conns -> Tasks \cup {NULL}]  BY <3>1, <2>2
    <3>4. \A d \in Conns \ {c} : builder'[d] = builder[d]  BY <2>2
    <3>5. made \subseteq made'  BY <2>2
    <3>6. QED  BY <3>2, <3>3, <3>4, <3>5
  <2>3. QED  BY <2>1, <2>2, <1>2, <1>5
<1>8. SocketsInv'  BY <1>1, <1>2 DEF SocketsInv
<1>9. StreamsInv'
  <2>1. \A u \in Tasks : using'[u] # NULL <=> pc'[u] \in InConstructor \cup {"call"}
    BY <1>1, <1>3, LabelsApart DEF StreamsInv
  <2>2. ASSUME NEW u \in Tasks, pc'[u] \in InConstructor
        PROVE  /\ fd'[u] = sock'[using'[u]].task /\ builder'[using'[u]] = NULL
               /\ \A v \in Tasks \ {u} : using'[v] # using'[u]
    <3>1. u # t /\ pc[u] \in InConstructor  BY <2>2, <1>3, LabelsApart
    <3>2. using[u] \in Conns \ {c}  BY <3>1, <1>1, <1>6 DEF StreamsInv
    <3>3. QED
      BY <3>1, <3>2, <1>1, <1>2, <1>3, <1>7, StreamAssumptions DEF StreamsInv
  <2>3. ASSUME NEW d \in releasing  PROVE builder'[d] # NULL /\ InUse(d)'
    <3>1. PICK u \in Tasks : using[u] = d /\ builder[d] # NULL /\ d \in Conns
      BY <1>1, <2>3 DEF StreamsInv, InUse
    <3>2. d # c /\ u # t  BY <3>1, <1>5, <1>6
    <3>3. QED  BY <3>1, <3>2, <1>3, <1>7 DEF InUse
  <2>4. QED  BY <1>1, <1>2, <1>3, <1>7, <2>1, <2>2, <2>3 DEF StreamsInv
<1>10. ASSUME StreamsAreLocal  PROVE KeptTogether'
  <2>1. KeptTogether /\ \A d \in Conns : Open(d)' = Open(d)
    BY <1>1, <1>2, <1>10 DEF Open
  <2>2. ASSUME NEW u \in Tasks, pc'[u] \in InConstructor
        PROVE  Open(using[u])' /\ sock'[using'[u]].task = u
    <3>1. pc[u] \in InConstructor /\ using'[u] = using[u]  BY <2>2, <1>3, LabelsApart
    <3>2. QED  BY <3>1, <2>1, <1>2 DEF KeptTogether, Open
  <2>3. ASSUME NEW u \in Tasks, pc'[u] = "call"
        PROVE  builder'[using'[u]] = u
    <3>1. u # t /\ pc[u] = "call"  BY <2>3, <1>3
    <3>2. using[u] \in Conns \ {c}  BY <3>1, <1>1, <1>6 DEF StreamsInv
    <3>3. QED  BY <3>1, <3>2, <2>1, <1>2, <1>3, <1>7 DEF KeptTogether, Open
  <2>4. ASSUME NEW d \in Conns, builder'[d] # NULL
        PROVE  /\ sock[d].task = builder'[d] /\ builder'[d] \in made'
               /\ pc'[builder'[d]] \in {"idle", "call"} \cup InConstructor \cup InWarm
    <3>1. CASE d = c  BY <3>1, <2>1, <2>4, <1>3, <1>4, <1>5, <1>7 DEF KeptTogether
    <3>2. CASE d # c
      <4>1. builder'[d] = builder[d] /\ builder[d] \in Tasks
        BY <3>2, <2>4, <1>1, <1>7 DEF StreamsInv
      <4>2. QED  BY <4>1, <2>1, <2>4, <1>3, <1>7 DEF KeptTogether
    <3>3. QED  BY <3>1, <3>2
  <2>5. QED
    BY <2>1, <2>2, <2>3, <2>4, <1>2, <1>3 DEF KeptTogether, Open
<1>11. ASSUME Conventions  PROVE ClosedLast'
  <2>1. Open(c)  BY <1>1, <1>4, <1>5, <1>11 DEF Conventions, KeptTogether
  <2>2. \A d \in Conns : Open(d)' = Open(d)  BY <1>2 DEF Open
  <2>3. QED  BY <2>1, <2>2, <1>1, <1>7, <1>11 DEF ClosedLast
<1>12. QED  BY <1>8, <1>9, <1>10, <1>11 DEF JointInv, Conventions, StreamsAreLocal

(* A call or a release begins.                                             *)
LEMMA BeginCallStep ==
  ASSUME IInv, JointInv, NEW t \in Tasks, NEW c \in Conns, Call(t, c) \/ Release(t, c)
  PROVE  JointInv'
<1>1. /\ SocketsInv /\ StreamsInv /\ TypeOK
      /\ (StreamsAreLocal => KeptTogether) /\ (Conventions => ClosedLast)
  BY DEF JointInv, IInv
<1>2. /\ UNCHANGED <<made, SslBase, opened, fd, table, sock, builder>>
      /\ pc[t] = "idle" /\ builder[c] # NULL /\ (StreamsStay => builder[c] = t)
      /\ using' = [using EXCEPT ![t] = c]
      /\ pc' = [pc EXCEPT ![t] = "call"]
      /\ releasing' \in {releasing, releasing \cup {c}}
  BY DEF Call, Release, MayCall, BeginCall, Goto, taskVars, amisslVars, socketVars
<1>3. /\ using'[t] = c /\ pc'[t] = "call"
      /\ \A u \in Tasks \ {t} : using'[u] = using[u] /\ pc'[u] = pc[u]
      /\ using' \in [Tasks -> Conns \cup {NULL}]
  BY <1>1, <1>2 DEF StreamsInv, TypeOK
<1>4. using[t] = NULL  BY <1>1, <1>2, LabelsApart DEF StreamsInv
<1>5. SocketsInv'  BY <1>1, <1>2 DEF SocketsInv
<1>6. StreamsInv'
  <2>1. \A u \in Tasks : using'[u] # NULL <=> pc'[u] \in InConstructor \cup {"call"}
    BY <1>1, <1>3, StreamAssumptions DEF StreamsInv
  <2>2. ASSUME NEW u \in Tasks, pc'[u] \in InConstructor
        PROVE  /\ fd'[u] = sock'[using'[u]].task /\ builder'[using'[u]] = NULL
               /\ \A v \in Tasks \ {u} : using'[v] # using'[u]
    <3>1. u # t /\ pc[u] \in InConstructor  BY <2>2, <1>3, LabelsApart
    <3>2. builder[using[u]] = NULL  BY <3>1, <1>1 DEF StreamsInv
    <3>3. QED  BY <3>1, <3>2, <1>1, <1>2, <1>3 DEF StreamsInv
  <2>3. ASSUME NEW d \in releasing'  PROVE builder'[d] # NULL /\ InUse(d)'
    <3>1. CASE d = c  BY <3>1, <1>2, <1>3 DEF InUse
    <3>2. CASE d # c
      <4>1. PICK u \in Tasks : using[u] = d /\ builder[d] # NULL /\ d \in Conns
        BY <3>2, <2>3, <1>1, <1>2 DEF StreamsInv, InUse
      <4>2. u # t  BY <4>1, <1>4, StreamAssumptions
      <4>3. QED  BY <4>1, <4>2, <1>2, <1>3 DEF InUse
    <3>3. QED  BY <3>1, <3>2
  <2>4. QED  BY <1>1, <1>2, <1>3, <2>1, <2>2, <2>3 DEF StreamsInv
<1>7. ASSUME StreamsAreLocal  PROVE KeptTogether'
  <2>1. KeptTogether /\ \A d \in Conns : Open(d)' = Open(d)
    BY <1>1, <1>2, <1>7 DEF Open
  <2>2. ASSUME NEW u \in Tasks, pc'[u] \in InConstructor
        PROVE  Open(using[u])' /\ sock'[using'[u]].task = u
    <3>1. pc[u] \in InConstructor /\ using'[u] = using[u]  BY <2>2, <1>3, LabelsApart
    <3>2. QED  BY <3>1, <2>1, <1>2 DEF KeptTogether, Open
  <2>3. ASSUME NEW u \in Tasks, pc'[u] = "call"
        PROVE  builder'[using'[u]] = u
    <3>1. CASE u = t
      <4>1. builder'[c] = t  BY <1>2, <1>7 DEF StreamsAreLocal
      <4>2. QED  BY <3>1, <4>1, <1>3
    <3>2. CASE u # t
      BY <3>2, <2>1, <2>3, <1>2, <1>3 DEF KeptTogether, Open
    <3>3. QED  BY <3>1, <3>2
  <2>4. ASSUME NEW d \in Conns, builder[d] # NULL
        PROVE  pc'[builder[d]] \in {"idle", "call"} \cup InConstructor \cup InWarm
    <3>1. builder[d] \in Tasks  BY <2>4, <1>1 DEF StreamsInv
    <3>2. QED  BY <3>1, <2>1, <2>4, <1>3 DEF KeptTogether
  <2>5. QED
    BY <2>1, <2>2, <2>3, <2>4, <1>2, <1>3 DEF KeptTogether, Open
<1>8. ASSUME Conventions  PROVE ClosedLast'
  BY <1>1, <1>2, <1>8 DEF ClosedLast, Open
<1>9. QED  BY <1>5, <1>6, <1>7, <1>8 DEF JointInv, Conventions, StreamsAreLocal

(* A call ends; after native_release the stream is gone.                   *)
LEMMA FinishCallStep ==
  ASSUME IInv, JointInv, NEW t \in Tasks, FinishCall(t)
  PROVE  JointInv'
<1>1. /\ SocketsInv /\ StreamsInv /\ TypeOK
      /\ (StreamsAreLocal => KeptTogether) /\ (Conventions => ClosedLast)
  BY DEF JointInv, IInv
<1>2. /\ UNCHANGED <<made, SslBase, opened, fd, table, sock>>
      /\ pc[t] = "call"
      /\ using' = [using EXCEPT ![t] = NULL]
      /\ pc' = [pc EXCEPT ![t] = "idle"]
      /\ builder' = BuilderAfterCall(t) /\ releasing' = releasing \ {using[t]}
  BY DEF FinishCall, EndCall, Goto, taskVars, amisslVars, socketVars
<1>3. /\ using'[t] = NULL /\ pc'[t] = "idle"
      /\ \A u \in Tasks \ {t} : using'[u] = using[u] /\ pc'[u] = pc[u]
      /\ using' \in [Tasks -> Conns \cup {NULL}]
  BY <1>1, <1>2 DEF StreamsInv, TypeOK
<1>4. PICK c \in Conns : c = using[t]  BY <1>1, <1>2 DEF StreamsInv
<1>5. /\ builder' \in [Conns -> Tasks \cup {NULL}]
      /\ builder'[c] = NULL \/ builder'[c] = builder[c]
      /\ \A d \in Conns \ {c} : builder'[d] = builder[d]
  <2>1. CASE c \in releasing  BY <2>1, <1>1, <1>2, <1>4 DEF BuilderAfterCall, StreamsInv
  <2>2. CASE c \notin releasing  BY <2>2, <1>1, <1>2, <1>4 DEF BuilderAfterCall, StreamsInv
  <2>3. QED  BY <2>1, <2>2
<1>6. SocketsInv'  BY <1>1, <1>2 DEF SocketsInv
<1>7. StreamsInv'
  <2>1. \A u \in Tasks : using'[u] # NULL <=> pc'[u] \in InConstructor \cup {"call"}
    BY <1>1, <1>3, LabelsApart DEF StreamsInv
  <2>2. ASSUME NEW u \in Tasks, pc'[u] \in InConstructor
        PROVE  /\ fd'[u] = sock'[using'[u]].task /\ builder'[using'[u]] = NULL
               /\ \A v \in Tasks \ {u} : using'[v] # using'[u]
    <3>1. u # t /\ pc[u] \in InConstructor  BY <2>2, <1>3, LabelsApart
    <3>2. using[u] \in Conns \ {c} /\ builder[using[u]] = NULL
      BY <3>1, <1>1, <1>4 DEF StreamsInv
    <3>3. QED
      BY <3>1, <3>2, <1>1, <1>2, <1>3, <1>5, StreamAssumptions DEF StreamsInv
  <2>3. ASSUME NEW d \in releasing'  PROVE builder'[d] # NULL /\ InUse(d)'
    <3>1. PICK u \in Tasks : using[u] = d /\ builder[d] # NULL /\ d \in Conns \ {c}
      BY <1>1, <1>2, <1>4, <2>3 DEF StreamsInv, InUse
    <3>2. u # t  BY <3>1, <1>4
    <3>3. QED  BY <3>1, <3>2, <1>3, <1>5 DEF InUse
  <2>4. QED  BY <1>1, <1>2, <1>3, <1>5, <2>1, <2>2, <2>3 DEF StreamsInv
<1>8. ASSUME StreamsAreLocal  PROVE KeptTogether'
  <2>1. KeptTogether /\ \A d \in Conns : Open(d)' = Open(d)
    BY <1>1, <1>2, <1>8 DEF Open
  <2>2. ASSUME NEW u \in Tasks, pc'[u] \in InConstructor
        PROVE  Open(using[u])' /\ sock'[using'[u]].task = u
    <3>1. pc[u] \in InConstructor /\ using'[u] = using[u]  BY <2>2, <1>3, LabelsApart
    <3>2. QED  BY <3>1, <2>1, <1>2 DEF KeptTogether, Open
  <2>3. ASSUME NEW u \in Tasks, pc'[u] = "call"
        PROVE  builder'[using'[u]] = u
    <3>1. u # t /\ pc[u] = "call" /\ using'[u] = using[u]  BY <2>3, <1>3
    <3>2. builder[using[u]] = u /\ builder[c] = t
      BY <3>1, <2>1, <1>2, <1>4 DEF KeptTogether
    <3>3. using[u] \in Conns \ {c}  BY <3>1, <3>2, <1>1 DEF StreamsInv
    <3>4. QED  BY <3>1, <3>2, <3>3, <2>1, <1>2, <1>4, <1>5 DEF KeptTogether, Open
  <2>4. ASSUME NEW d \in Conns, builder'[d] # NULL
        PROVE  /\ sock[d].task = builder'[d] /\ builder'[d] \in made
               /\ pc'[builder'[d]] \in {"idle", "call"} \cup InConstructor \cup InWarm
    <3>1. builder'[d] = builder[d] /\ builder[d] \in Tasks
      BY <2>4, <1>1, <1>5 DEF StreamsInv
    <3>2. QED  BY <3>1, <2>1, <2>4, <1>3 DEF KeptTogether
  <2>5. QED
    BY <2>1, <2>2, <2>3, <2>4, <1>2, <1>3 DEF KeptTogether, Open
<1>9. ASSUME Conventions  PROVE ClosedLast'
  <2>1. \A d \in Conns : Open(d)' = Open(d)  BY <1>2 DEF Open
  <2>2. QED  BY <2>1, <1>1, <1>5, <1>9 DEF ClosedLast
<1>10. QED  BY <1>6, <1>7, <1>8, <1>9 DEF JointInv, Conventions, StreamsAreLocal

-----------------------------------------------------------------------------
(* The end of a worker, and the other steps.                               *)

LEMMA FinishStep ==
  ASSUME IInv, JointInv, NEW t \in Tasks, Finish(t)
  PROVE  JointInv'
<1>1. /\ SocketsInv /\ StreamsInv /\ TypeOK
      /\ (StreamsAreLocal => KeptTogether) /\ (Conventions => ClosedLast)
  BY DEF JointInv, IInv
<1>2. /\ UNCHANGED <<made, SslBase, opened, fd, table, sock, builder, using, releasing>>
      /\ pc[t] = "idle" /\ pc' = [pc EXCEPT ![t] = "finalize"]
      /\ StreamsStay => \A c \in Conns : builder[c] # t
  BY DEF Finish, EndThread, Goto, taskVars, amisslVars, socketVars, streamVars
<1>3. pc'[t] = "finalize" /\ \A u \in Tasks \ {t} : pc'[u] = pc[u]
  BY <1>1, <1>2 DEF TypeOK
<1>4. SocketsInv'  BY <1>1, <1>2 DEF SocketsInv
<1>5. StreamsInv'  BY <1>1, <1>2, <1>3, LabelsApart, StreamsKept DEF streamVars
<1>6. ASSUME StreamsAreLocal  PROVE KeptTogether'
  <2>1. \A d \in Conns : Open(d)' = Open(d)  BY <1>2 DEF Open
  <2>2. \A u \in Tasks : pc'[u] \in InConstructor \cup {"call"} => pc'[u] = pc[u] /\ using[u] \in Conns
    BY <1>1, <1>3, LabelsApart DEF StreamsInv
  <2>3. \A c \in Conns : builder[c] # NULL => builder[c] \in Tasks \ {t}
    BY <1>1, <1>2, <1>6 DEF StreamsInv, StreamsAreLocal
  <2>4. QED
    BY <1>1, <1>2, <1>3, <1>6, <2>1, <2>2, <2>3 DEF KeptTogether, Open
<1>7. ASSUME Conventions  PROVE ClosedLast'
  BY <1>1, <1>2, <1>7 DEF ClosedLast, Open
<1>8. QED  BY <1>4, <1>5, <1>6, <1>7 DEF JointInv, Conventions, StreamsAreLocal

LEMMA OtherStepKeeps ==
  ASSUME IInv, JointInv, OtherStep
  PROVE  JointInv'
<1>. DEFINE Quiet(t) ==
       /\ {pc[t], pc'[t]} \cap (InConstructor \cup {"call"}) = {}
       /\ \A u \in Tasks \ {t} : pc'[u] = pc[u]
       /\ opened' = opened /\ fd' = fd /\ SslBase'[Main] = SslBase[Main]
       /\ \/ pc[t] = "idle" /\ pc'[t] \in InWarm /\ made' = made
          \/ pc[t] \notin {"idle", "call"} \cup InConstructor \cup InWarm
             /\ \A u \in Tasks \ {t} : u \in made => u \in made'
<1>1. /\ SocketsInv /\ StreamsInv /\ TypeOK /\ MainIsApart
      /\ (StreamsAreLocal => KeptTogether) /\ (Conventions => ClosedLast)
  BY DEF JointInv, IInv, RegistryInv
<1>2. UNCHANGED <<table, sock, builder, using, releasing>>
  BY DEF OtherStep, socketVars, streamVars
<1>3. PICK t \in Tasks : Quiet(t)
  <2>. USE DEF Goto, InWarm, InConstructor, InClose, taskVars, amisslVars
  <2>1. ASSUME NEW t \in Tasks, BeginWarm(t)  PROVE Quiet(t)
    BY <2>1, <1>1 DEF BeginWarm, TypeOK
  <2>2. ASSUME NEW t \in Tasks, NEW th \in Threads, StartWorker(t, th)  PROVE Quiet(t)
    BY <2>2, <1>1 DEF StartWorker, TypeOK
  <2>3. ASSUME NEW t \in Tasks, CleanupAmiSSL(t)  PROVE Quiet(t)
    <3>1. t # Main  BY <2>3, <1>1 DEF CleanupAmiSSL, MainIsApart
    <3>2. SslBase'[Main] = SslBase[Main]  BY <3>1, <2>3, <1>1 DEF CleanupAmiSSL, TypeOK
    <3>3. QED  BY <3>2, <2>3, <1>1 DEF CleanupAmiSSL, TypeOK
  <2>4. ASSUME NEW t \in Tasks,
               AmiSSLFinalizer(t) \/ SslTaskUnregister(t) \/ FreeNode(t) \/ ThreadEnded(t)
        PROVE  Quiet(t)
    BY <2>4, <1>1
       DEF AmiSSLFinalizer, SslTaskUnregister, FreeNode, ThreadEnded, TypeOK
  <2>5. QED  BY <2>1, <2>2, <2>3, <2>4 DEF OtherStep
<1>4. \A u \in Tasks : /\ pc'[u] \in InConstructor \cup {"call"} <=>
                          pc[u] \in InConstructor \cup {"call"}
                       /\ pc'[u] \in InConstructor \cup {"call"} => pc'[u] = pc[u]
  BY <1>3
<1>5. SocketsInv'  BY <1>1, <1>2, <1>3 DEF SocketsInv
<1>6. StreamsInv'  BY <1>1, <1>2, <1>3, <1>4, StreamsKept DEF streamVars
<1>7. ASSUME StreamsAreLocal  PROVE KeptTogether'
  <2>1. \A d \in Conns : Open(d)' = Open(d)  BY <1>2 DEF Open
  <2>2. \A u \in Tasks : pc'[u] \in InConstructor \cup {"call"} => using[u] \in Conns
    BY <1>1, <1>4 DEF StreamsInv
  <2>3. ASSUME NEW c \in Conns, builder[c] # NULL
        PROVE  /\ builder[c] \in made'
               /\ pc'[builder[c]] \in {"idle", "call"} \cup InConstructor \cup InWarm
    <3>1. /\ builder[c] \in Tasks /\ builder[c] \in made
          /\ pc[builder[c]] \in {"idle", "call"} \cup InConstructor \cup InWarm
      BY <2>3, <1>1, <1>7 DEF KeptTogether, StreamsInv
    <3>2. CASE builder[c] # t  BY <3>1, <3>2, <1>3
    <3>3. CASE builder[c] = t  BY <3>1, <3>3, <1>3
    <3>4. QED  BY <3>2, <3>3
  <2>4. QED  BY <1>1, <1>2, <1>3, <1>4, <1>7, <2>1, <2>2, <2>3 DEF KeptTogether
<1>8. ASSUME Conventions  PROVE ClosedLast'
  BY <1>1, <1>2, <1>8 DEF ClosedLast, Open
<1>9. QED  BY <1>5, <1>6, <1>7, <1>8 DEF JointInv, Conventions, StreamsAreLocal

-----------------------------------------------------------------------------
(* Bases, sockets, streams and tasks agree in every reachable state.       *)
THEOREM JointInvariance == JointSpec => []JointInv
<1>1. JointInit => JointInv
  <2>1. SUFFICES ASSUME JointInit  PROVE JointInv
    OBVIOUS
  <2>2. /\ pc = [t \in Tasks |-> IF t = Main THEN "idle" ELSE "ended"]
        /\ SslBase[Main] = "global" /\ opened = {} /\ builder = [c \in Conns |-> NULL]
        /\ table = [t \in Tasks |-> [n \in Fds |-> NULL]]
        /\ using = [t \in Tasks |-> NULL] /\ releasing = {}
        /\ sock \in [Conns -> [task : {Main}, num : {CHOOSE n \in Fds : TRUE}]]
    BY <2>1, Assumptions DEF JointInit, Init
  <2>3. (CHOOSE n \in Fds : TRUE) \in Fds  BY StreamAssumptions
  <2>4. PICK n0 \in Fds : n0 = CHOOSE n \in Fds : TRUE  BY <2>3
  <2>5. sock \in [Conns -> [task : Tasks, num : Fds]]
    BY <2>2, <2>4, Assumptions
  <2>6. SocketsInv  BY <2>2, <2>5 DEF SocketsInv
  <2>7. StreamsInv  BY <2>2, LabelsApart DEF StreamsInv
  <2>8. KeptTogether /\ ClosedLast  BY <2>2, LabelsApart DEF KeptTogether, ClosedLast
  <2>9. QED  BY <2>6, <2>7, <2>8 DEF JointInv
<1>2. IInv /\ JointInv /\ [JointNext]_jointVars => JointInv'
  <2>1. SUFFICES ASSUME IInv, JointInv, [JointNext]_jointVars  PROVE JointInv'
    OBVIOUS
  <2>2. CASE UNCHANGED jointVars
    BY <2>1, <2>2
       DEF JointInv, SocketsInv, StreamsInv, KeptTogether, ClosedLast, Conventions,
           StreamsAreLocal, Open, InUse,
           jointVars, vars, taskVars, amisslVars, socketVars, streamVars
  <2>3. ASSUME NEW t \in Tasks,
               StepOfConstructor(t) \/ FinishConstructor(t) \/ FinishCall(t)
               \/ CloseBase(t) \/ Finish(t)
        PROVE  JointInv'
    BY <2>1, <2>3, ConstructorStep, FinishConstructorStep, FinishCallStep,
       CloseBaseStep, FinishStep
  <2>4. ASSUME NEW t \in Tasks, NEW c \in Conns,
               Build(t, c) \/ Call(t, c) \/ Release(t, c)
        PROVE  JointInv'
    BY <2>1, <2>4, BuildStep, BeginCallStep
  <2>5. ASSUME NEW t \in Tasks, NEW c \in Conns, NEW n \in Fds, Connect(t, c, n)
        PROVE  JointInv'
    BY <2>1, <2>5, ConnectStep
  <2>6. ASSUME NEW c \in Conns, Close(c)  PROVE JointInv'
    BY <2>1, <2>6, CloseStep
  <2>7. CASE OtherStep  BY <2>1, <2>7, OtherStepKeeps
  <2>8. QED  BY <2>1, <2>2, <2>3, <2>4, <2>5, <2>6, <2>7 DEF JointNext
<1>3. QED  BY <1>1, <1>2, TasksInvariance, PTL DEF JointSpec

(* What a local stream's calls find: the task's own connection, if open.   *)
LEMMA LocalCallsReach ==
  ASSUME IInv, JointInv, StreamsAreLocal, NEW t \in Tasks, InOpenSSL(t), Open(using[t])
  PROVE  Reached(t, sock[using[t]].num) = using[t]
<1>1. SocketsInv /\ StreamsInv /\ KeptTogether /\ TypeOK /\ RegistryInv /\ UsageInv
  BY DEF JointInv, IInv
<1>2. PICK c \in Conns : c = using[t]
  BY <1>1 DEF StreamsInv, InOpenSSL, InConstructor
<1>3. sock[c].task = t
  <2>1. CASE pc[t] = "ssl"
    BY <2>1, <1>1, <1>2 DEF KeptTogether, InConstructor
  <2>2. CASE pc[t] = "call"
    BY <2>2, <1>1, <1>2, StreamAssumptions DEF KeptTogether
  <2>3. QED  BY <2>1, <2>2 DEF InOpenSSL
<1>4. table[t][sock[c].num] = c  BY <1>2, <1>3 DEF Open
<1>5. CASE t = Main
  BY <1>1, <1>2, <1>4, <1>5 DEF KeptTogether, Reached
<1>6. CASE t # Main
  <2>1. t \in Workers  BY <1>6 DEF Workers
  <2>2. BroughtUp(t)
    <3>1. CASE pc[t] = "ssl"
      BY <3>1, <2>1, <1>1 DEF RegistryInv, WorkerIsAt
    <3>2. CASE pc[t] = "call"
      BY <3>2, <1>1 DEF UsageInv, BringUpBeforeAnyCall, StreamsAreLocal
    <3>3. QED  BY <3>1, <3>2 DEF InOpenSSL
  <2>3. SslBase[t] = "own"
    BY <2>1, <2>2, <1>1 DEF UsageInv, StreamsAreLocal
  <2>4. QED  BY <2>3, <1>2, <1>4 DEF Reached
<1>7. QED  BY <1>5, <1>6

(* A stream built, used and released on the task of its socket reaches its *)
(* own connection through whatever base the bring-up gave the task, with   *)
(* no convention on when the socket is closed: only calls made after that  *)
(* are left out.                                                           *)
THEOREM OwnConnection == JointSpec => [](StreamsAreLocal => CallsReachTheirConnection)
<1>1. IInv /\ JointInv => (StreamsAreLocal => CallsReachTheirConnection)
  <2>1. SUFFICES ASSUME IInv, JointInv, StreamsAreLocal, NEW t \in Tasks, InOpenSSL(t),
                        pc[t] = "call" => Open(using[t])
                 PROVE  Reached(t, sock[using[t]].num) = using[t]
    BY DEF CallsReachTheirConnection
  <2>2. Open(using[t])
    BY <2>1 DEF JointInv, KeptTogether, InOpenSSL, InConstructor
  <2>3. QED  BY <2>1, <2>2, LocalCallsReach
<1>2. QED  BY <1>1, TasksInvariance, JointInvariance, PTL

(* In a program that also closes the socket last no call on a stream, its  *)
(* shutdown included, is sent to another connection: the order is all that *)
(* the advice to always close the socket lacks.                            *)
THEOREM NothingStrays == JointSpec => [](Conventions => NoForeignTraffic)
<1>1. IInv /\ JointInv => (Conventions => NoForeignTraffic)
  <2>1. SUFFICES ASSUME IInv, JointInv, Conventions, NEW t \in Tasks, InOpenSSL(t)
                 PROVE  Reached(t, sock[using[t]].num) = using[t]
    BY DEF NoForeignTraffic
  <2>2. StreamsAreLocal /\ KeptTogether /\ ClosedLast /\ StreamsInv
    BY <2>1 DEF JointInv, Conventions
  <2>3. Open(using[t])
    <3>1. CASE pc[t] = "ssl"  BY <3>1, <2>2 DEF KeptTogether, InConstructor
    <3>2. CASE pc[t] = "call"
      <4>1. using[t] \in Conns /\ builder[using[t]] = t
        BY <3>2, <2>2, StreamAssumptions DEF StreamsInv, KeptTogether
      <4>2. QED  BY <4>1, <2>2, StreamAssumptions DEF ClosedLast
    <3>3. QED  BY <3>1, <3>2, <2>1 DEF InOpenSSL
  <2>4. QED  BY <2>1, <2>2, <2>3, LocalCallsReach
<1>2. QED  BY <1>1, TasksInvariance, JointInvariance, PTL

=============================================================================
