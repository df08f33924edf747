---------------------- MODULE AsyncSecureSocketStream ----------------------
(***************************************************************************)
(* AsyncSecureSocketStream: coroutines of the program call createAsync,    *)
(* readAsync, writeAsync, readToEndAsync and closeAsync; each call puts a  *)
(* task on the IO TaskScheduler's queue and suspends; the one IO worker    *)
(* runs the tasks in turn, blocking in OpenSSL where it must, stores the   *)
(* outcome in the call's holder and resumes the caller.                    *)
(*                                                                         *)
(* The scheduler (a FIFO queue, one thread) and the resumption of a        *)
(* coroutine belong to am-lang-core and are modelled from their use here.  *)
(* At the other end of a stream is a server that answers each request with *)
(* one piece of data and closes after MaxRequests of them; it may fall     *)
(* silent, without a sign of it, before the connection is made or at any   *)
(* time after, and the connection may break.  A read returns one piece.    *)
(***************************************************************************)
EXTENDS Naturals, Sequences, FiniteSets

CONSTANTS
  Callers,        \* coroutines
  Streams,        \* AsyncSecureSocketStream objects
  NULL,           \* no caller
  MaxRequests,    \* bound: requests written to one stream
  MaxPieces       \* readToEndAsync's maxBytes, in pieces

ASSUME AsyncAssumptions ==
  /\ NULL \notin Callers
  /\ {MaxRequests, MaxPieces} \subseteq Nat \ {0}

VARIABLES
  status,       \* a caller: "idle" (running other code), "suspended" or "resumed"
  asked,        \* its latest call: operation and stream
  holder,       \* the holder of that call, or createAsync's errorMessage
  queue,        \* the IO scheduler's tasks, named by the callers that made them
  running,      \* whose task the IO worker runs
  wpc,          \* the worker: "idle", "run", "resume" or "return"
  out,          \* what the task has read so far
  inner,        \* the streams' SslSocketStream: "none", "open" or "dropped"
  conn,         \* the connection: "up", "closed" by the server, "silent" or "broken"
  received,     \* requests the server got
  answered,     \* pieces of data it sent
  taken,        \* pieces SSL_read returned
  nwrites,      \* writes that returned normally
  nreads        \* reads called

callVars == <<status, asked, holder>>
workVars == <<queue, running, wpc, out>>
peerVars == <<conn, received, answered, taken>>
countVars == <<nwrites, nreads>>
vars == <<callVars, workVars, inner, peerVars, countVars>>

Ops == {"create", "read", "write", "readToEnd", "close"}
None == [kind |-> "none", data |-> <<>>]
Outcome(kind) == [kind |-> kind, data |-> <<>>]

Init ==
  /\ status = [c \in Callers |-> "idle"]
  /\ asked \in [Callers -> {[op |-> "create", st |-> st] : st \in Streams}]
  /\ holder = [c \in Callers |-> None]
  /\ queue = <<>> /\ running = NULL /\ wpc = "idle" /\ out = <<>>
  /\ inner = [st \in Streams |-> "none"]
  /\ conn = [st \in Streams |-> "up"]
  /\ received = [st \in Streams |-> 0]
  /\ answered = [st \in Streams |-> 0]
  /\ taken = [st \in Streams |-> 0]
  /\ nwrites = [st \in Streams |-> 0]
  /\ nreads = [st \in Streams |-> 0]

-----------------------------------------------------------------------------
(* A call: a new, empty holder, a task for the IO worker, and suspension.  *)

(* Each call has a holder of its own.  (Definitions whose names continue   *)
(* another's are wrong variants no action uses.)                           *)
HolderOfStream(c) ==
  CHOOSE d \in Callers : asked[d].st = asked[c].st
HolderOf(c) == c

EnqueuedRunning(c) == Append(queue, running)
Enqueued(c) == Append(queue, c)

InFlight(st) == {c \in Callers : status[c] # "idle" /\ asked[c].st = st}
WritesInFlight(st) == {c \in InFlight(st) : asked[c].op = "write"}

Ask(c, op, st) ==
  /\ status[c] = "idle"
  /\ IF op = "create" THEN inner[st] = "none" /\ InFlight(st) = {} ELSE inner[st] = "open"
  /\ op = "write" => nwrites[st] + Cardinality(WritesInFlight(st)) < MaxRequests
  /\ op = "read" => nreads[st] < MaxRequests + 1
  /\ asked' = [asked EXCEPT ![c] = [op |-> op, st |-> st]]
  /\ nreads' = IF op = "read" THEN [nreads EXCEPT ![st] = @ + 1] ELSE nreads
  /\ queue' = Enqueued(c)
  /\ status' = [status EXCEPT ![c] = "suspended"]
  /\ UNCHANGED <<holder, running, wpc, out, inner, peerVars, nwrites>>

(* After the suspension point: throw the holder's errorMessage or return   *)
(* its result.                                                             *)
Return(c) ==
  /\ status[c] = "resumed"
  /\ status' = [status EXCEPT ![c] = "idle"]
  /\ nwrites' = IF asked[c].op = "write" /\ holder[HolderOf(c)].kind = "void"
                THEN [nwrites EXCEPT ![asked[c].st] = @ + 1] ELSE nwrites
  /\ holder' = [holder EXCEPT ![c] = None]
  /\ UNCHANGED <<asked, workVars, inner, peerVars, nreads>>

(* The program's last reference to an idle stream goes away; the last task *)
(* may still refer to it.  Where it is released: see StreamsOnTasks.       *)
DropStream(st) ==
  /\ inner[st] = "open" /\ InFlight(st) = {}
  /\ inner' = [inner EXCEPT ![st] = "dropped"]
  /\ UNCHANGED <<callVars, workVars, peerVars, countVars>>

-----------------------------------------------------------------------------
(* The IO worker.                                                          *)

TakeTask ==
  /\ wpc = "idle" /\ queue # <<>>
  /\ running' = Head(queue) /\ queue' = Tail(queue)
  /\ wpc' = "run"
  /\ UNCHANGED <<callVars, out, inner, peerVars, countVars>>

Runs(op) == wpc = "run" /\ asked[running].op = op
Stream == asked[running].st

(* The try block ended, or its catch block did: on to cont.resume().       *)
AfterTaskIfNoThrow(kind) == IF kind = "throw" THEN "return" ELSE "resume"
AfterTask(kind) == "resume"

Finish(o) ==
  /\ holder' = [holder EXCEPT ![HolderOf(running)] = o]
  /\ wpc' = AfterTask(o.kind)
  /\ UNCHANGED <<status, asked, queue, running, countVars>>

(* Socket.create, connect and new SslSocketStream, whose handshake needs   *)
(* the server's answers, or an exception.                                  *)
RunCreate ==
  /\ Runs("create")
  /\ \/ /\ conn[Stream] = "up"
        /\ inner' = [inner EXCEPT ![Stream] = "open"] /\ Finish(Outcome("void"))
     \/ UNCHANGED inner /\ Finish(Outcome("throw"))
  /\ UNCHANGED <<out, peerVars>>

(* SSL_read returned a piece of data.                                      *)
Readable(st) == taken[st] < answered[st]
TakePiece(st) ==
  /\ Readable(st)
  /\ taken' = [taken EXCEPT ![st] = @ + 1]
  /\ out' = Append(out, taken[st] + 1)
  /\ UNCHANGED <<conn, received, answered>>

(* SSL_read returns 0 after a clean close, once all is read; on a broken   *)
(* connection it returns -1, whether or not data was left.                 *)
ReadEnds(st, kind) ==
  \/ conn[st] = "closed" /\ ~Readable(st) /\ kind = "eof"
  \/ conn[st] = "broken" /\ kind = "error"

RunRead ==
  /\ Runs("read")
  /\ \/ TakePiece(Stream) /\ Finish([kind |-> "data", data |-> out'])
     \/ /\ \E kind \in {"eof", "error"} :
             ReadEnds(Stream, kind) /\ Finish(Outcome(kind))
        /\ UNCHANGED <<out, peerVars>>
     \/ Finish(Outcome("throw")) /\ UNCHANGED <<out, peerVars>>
  /\ UNCHANGED inner

(* A failed bounds check throws; what SSL_write returns is not looked at.  *)
RunWrite ==
  /\ Runs("write")
  /\ \/ /\ received' = IF conn[Stream] = "up"
                       THEN [received EXCEPT ![Stream] = @ + 1] ELSE received
        /\ Finish(Outcome("void"))
     \/ UNCHANGED received /\ Finish(Outcome("throw"))
  /\ UNCHANGED <<out, inner, conn, answered, taken>>

(* One turn of the drain loop: the end of the stream, an error, maxBytes   *)
(* reached or an exception, at whatever point of the turn, ends it; with   *)
(* an exception the pieces read so far are in no holder.                   *)
RunReadToEnd ==
  /\ Runs("readToEnd")
  /\ \/ /\ TakePiece(Stream)
        /\ \/ /\ Len(out') < MaxPieces
              /\ UNCHANGED <<callVars, queue, running, wpc, countVars>>
           \/ Len(out') >= MaxPieces /\ Finish([kind |-> "data", data |-> out'])
           \/ Finish(Outcome("throw"))
     \/ /\ \/ /\ \E kind \in {"eof", "error"} : ReadEnds(Stream, kind)
              /\ Finish([kind |-> "data", data |-> out])
           \/ Finish(Outcome("throw"))
        /\ UNCHANGED <<out, peerVars>>
  /\ UNCHANGED inner

(* closeAsync's task touches nothing.                                      *)
RunClose ==
  /\ Runs("close")
  /\ Finish(Outcome("void"))
  /\ UNCHANGED <<out, inner, peerVars>>

(* cont.resume(): from here the caller runs, beside the worker.            *)
Resume ==
  /\ wpc = "resume"
  /\ status' = [status EXCEPT ![running] = "resumed"]
  /\ out' = <<>>
  /\ wpc' = "return"
  /\ UNCHANGED <<asked, holder, queue, running, inner, peerVars, countVars>>

(* The task returns and the worker lets go of its closure.                 *)
TaskReturns ==
  /\ wpc = "return"
  /\ wpc' = "idle" /\ running' = NULL
  /\ UNCHANGED <<callVars, queue, out, inner, peerVars, countVars>>

-----------------------------------------------------------------------------
(* The server and the network.                                             *)

ServerAnswers(st) ==
  /\ conn[st] = "up" /\ answered[st] < received[st]
  /\ answered' = [answered EXCEPT ![st] = @ + 1]
  /\ UNCHANGED <<callVars, workVars, inner, conn, received, taken, countVars>>

ServerCloses(st) ==
  /\ conn[st] = "up" /\ answered[st] = MaxRequests
  /\ conn' = [conn EXCEPT ![st] = "closed"]
  /\ UNCHANGED <<callVars, workVars, inner, received, answered, taken, countVars>>

(* The server or the way to it is gone and nothing tells the client.       *)
PeerFallsSilent(st) ==
  /\ inner[st] # "dropped" /\ conn[st] = "up"
  /\ conn' = [conn EXCEPT ![st] = "silent"]
  /\ UNCHANGED <<callVars, workVars, inner, received, answered, taken, countVars>>

ConnectionBreaks(st) ==
  /\ inner[st] = "open" /\ conn[st] \in {"up", "silent"}
  /\ conn' = [conn EXCEPT ![st] = "broken"]
  /\ UNCHANGED <<callVars, workVars, inner, received, answered, taken, countVars>>

-----------------------------------------------------------------------------
Worker ==
  \/ TakeTask \/ RunCreate \/ RunRead \/ RunWrite \/ RunReadToEnd \/ RunClose
  \/ Resume \/ TaskReturns

Server(st) == ServerAnswers(st) \/ ServerCloses(st)

Next ==
  \/ \E c \in Callers :
       Return(c) \/ \E op \in Ops, st \in Streams : Ask(c, op, st)
  \/ Worker
  \/ \E st \in Streams :
       DropStream(st) \/ Server(st) \/ PeerFallsSilent(st) \/ ConnectionBreaks(st)

Spec == Init /\ [][Next]_vars

(* connect, SSL_connect, SSL_read and SSL_write block without a timeout:   *)
(* the first, the handshake and a write while the peer is silent, a read   *)
(* also while a live peer has sent nothing.                                *)
OnSilentPeer ==
  /\ wpc = "run" /\ asked[running].op # "close"
  /\ conn[Stream] = "silent"
WaitsForPeer ==
  \/ OnSilentPeer
  \/ /\ wpc = "run" /\ asked[running].op \in {"read", "readToEnd"}
     /\ conn[Stream] = "up" /\ ~Readable(Stream)

(* The worker thread and resumed coroutines run, except while the peer     *)
(* keeps the worker waiting; a server that is not silent answers and       *)
(* closes.  Nothing is assumed of what the program calls.                  *)
FairSpec ==
  /\ Spec
  /\ WF_vars(Worker /\ ~WaitsForPeer)
  /\ \A c \in Callers : WF_vars(Return(c))
  /\ \A st \in Streams : WF_vars(Server(st))

-----------------------------------------------------------------------------
(* The tasks whose callers wait: the running one, until it resumes, and    *)
(* the queue.                                                              *)
InTask == wpc \in {"run", "resume"}
Tasks == IF InTask THEN <<running>> \o queue ELSE queue

(* The promise to callers: one effect per call, in order, to its caller.   *)
Abs == INSTANCE AsyncCalls WITH
  pending <- Tasks,
  asked <- asked,
  answer <- [c \in Callers |-> IF status[c] = "resumed" THEN holder[HolderOf(c)] ELSE None],
  delivered <- [st \in Streams |->
                  IF InTask /\ Stream = st THEN taken[st] - Len(out) ELSE taken[st]]

TypeOK ==
  /\ status \in [Callers -> {"idle", "suspended", "resumed"}]
  /\ asked \in [Callers -> [op : Ops, st : Streams]]
  /\ queue \in Seq(Callers) /\ running \in Callers \cup {NULL}
  /\ wpc \in {"idle", "run", "resume", "return"} /\ out \in Seq(Nat)
  /\ holder \in [Callers -> [kind : Abs!Kinds, data : Seq(Nat)]]
  /\ inner \in [Streams -> {"none", "open", "dropped"}]
  /\ conn \in [Streams -> {"up", "closed", "silent", "broken"}]
  /\ received \in [Streams -> Nat] /\ answered \in [Streams -> Nat]
  /\ taken \in [Streams -> Nat]
  /\ nwrites \in [Streams -> Nat] /\ nreads \in [Streams -> Nat]

(* The callers that wait are those the worker or its queue has a task for, *)
(* each once: nobody is resumed twice or forgotten, also when the task     *)
(* caught an exception (AsyncSecureSocketStream.aml:107-115, 184-190).     *)
WaitingHaveATask ==
  /\ \A c \in Callers :
       status[c] = "suspended" <=> \E i \in DOMAIN Tasks : Tasks[i] = c
  /\ \A i, j \in DOMAIN Tasks : Tasks[i] = Tasks[j] => i = j

(* The calls of all callers on all streams, with their tasks, holders and  *)
(* resumptions, keep the promise of AsyncCalls.                            *)
KeepsThePromise == Abs!Spec

(* The worker waits in SSL_read for data nobody has asked the server for.  *)
StuckInARead ==
  /\ wpc = "run" /\ asked[running].op \in {"read", "readToEnd"}
  /\ conn[Stream] = "up" /\ ~Readable(Stream)
  /\ answered[Stream] = received[Stream] /\ received[Stream] < MaxRequests

(* Whatever the program calls, on however many streams, every call         *)
(* returns.  Two things can stop callers, and each then stops all of them, *)
(* as the blocked call holds the only IO worker                            *)
(* (AsyncSecureSocketStream.aml:18-22): a read of an answer to a request   *)
(* not written yet, whose write waits behind it, and a peer that falls     *)
(* silent under a connect, handshake, read or write.                       *)
EveryCallReturns ==
  \/ <>[]StuckInARead
  \/ <>[]OnSilentPeer
  \/ \A c \in Callers : (status[c] = "suspended") ~> (status[c] = "idle")


-----------------------------------------------------------------------------
(* The inductive invariant behind the refinement: the tasks are those of   *)
(* the waiting callers, and what the running one has read and stored is an *)
(* outcome the abstract call may have.                                     *)

Results(op) ==
  CASE op = "read" -> IF out = <<>> THEN [kind : {"eof", "error", "throw"}, data : {<<>>}]
                                    ELSE {[kind |-> "data", data |-> out]}
    [] op = "readToEnd" -> {[kind |-> "data", data |-> out], Outcome("throw")}
    [] OTHER -> [kind : {"void", "throw"}, data : {<<>>}]

(* How much a task of each operation may have read, before and at its end. *)
ReadSoFar(op) ==
  IF wpc = "run"
  THEN IF op = "readToEnd" THEN Len(out) < MaxPieces ELSE out = <<>>
  ELSE CASE op = "readToEnd" -> Len(out) <= MaxPieces
         [] op = "read" -> Len(out) <= 1
         [] OTHER -> out = <<>>

WorkerInv ==
  /\ wpc # "idle" => running \in Callers
  /\ ~InTask => out = <<>>
  /\ InTask => /\ ReadSoFar(asked[running].op)
               /\ Len(out) <= taken[Stream]
               /\ \A i \in 1 .. Len(out) : out[i] = taken[Stream] - Len(out) + i
  /\ wpc = "resume" => holder[running] \in Results(asked[running].op)

IInv ==
  /\ TypeOK /\ WaitingHaveATask /\ WorkerInv
  /\ \A c \in Callers : status[c] = "resumed" => holder[c].kind # "none"

=============================================================================
