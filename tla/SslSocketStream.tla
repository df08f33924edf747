--------------------------- MODULE SslSocketStream ---------------------------
(***************************************************************************)
(* The life of SslSocketStream objects in the OpenSSL back ends (libc,     *)
(* morphos-ppc; amigaos after its bring-up): _native_init and the labels   *)
(* it unwinds through when a step fails, read and write, the reference     *)
(* count they hold while they run, and _native_release, run by whichever   *)
(* thread drops the last reference.                                        *)
(*                                                                         *)
(* One action is one OpenSSL call of one thread.  A label of pc is the     *)
(* call the thread makes next.  The reference counting itself is the       *)
(* AmLang runtime's, taken to be atomic; OpenSSL is what its calls do to   *)
(* the four objects below.                                                 *)
(***************************************************************************)
EXTENDS Integers, FiniteSets

CONSTANTS
  Streams,      \* SslSocketStream objects
  Threads,      \* threads of the program
  HostNames,    \* host names given to constructors; EmptyName is ""
  EmptyName,
  NULL,         \* no stream, no failed step
  MaxVars       \* bound: references the program holds to one stream

VARIABLES
  pc,           \* each thread's next call, "idle" outside the library
  this,         \* the stream a thread is working on
  life,         \* "unborn", "making" (in its constructor), "live" or "dead"
  refs,         \* the reference count
  vars,         \* how many of them are the program's variables
  heap,         \* [ctx, ssl, cert]: each "none", "live", "freed" or "corrupt"
  holder,       \* the calloc'd ssl_socket_stream_holder, once custom_value points to it
  hostName,     \* the constructor's argument
  checks,       \* what OpenSSL was told to verify of the server
  server,       \* what is true of the server at the other end
  thrown        \* the step whose exception ended the constructor

objVars == <<life, refs, vars, hostName, server, thrown>>
sslVars == <<heap, holder, checks>>
allVars == <<pc, this, objVars, sslVars>>

Goto(t, l) == pc' = [pc EXCEPT ![t] = l]

(* _native_init: each call and the one that follows it.                    *)
After ==
  [SSL_CTX_new                      |-> "SSL_CTX_set_verify",
   SSL_CTX_set_verify               |-> "SSL_CTX_set_default_verify_paths",
   SSL_CTX_set_default_verify_paths |-> "SSL_new",
   SSL_new                          |-> "SSL_set_fd",
   SSL_set_fd                       |-> "SSL_set_tlsext_host_name",
   SSL_set_tlsext_host_name         |-> "SSL_set1_host",
   SSL_set1_host                    |-> "SSL_connect",
   SSL_connect                      |-> "SSL_get_peer_certificate",
   SSL_get_peer_certificate         |-> "SSL_get_verify_result",
   SSL_get_verify_result            |-> "calloc",
   calloc                           |-> "exit"]
InInit == DOMAIN After

ASSUME StreamAssumptions ==
  /\ NULL \notin Streams \cup InInit
  /\ IsFiniteSet(Threads)
  /\ MaxVars \in Nat \ {0}

(* The labels __fail5 .. __fail2, which are also the body of               *)
(* _native_release, and then __exit.                                       *)
InFree  == {"X509_free", "SSL_shutdown", "SSL_free", "SSL_CTX_free", "exit"}
InCall  == {"SSL_read", "SSL_write"}
Labels  == {"idle", "drop", "leave", "release"} \cup InInit \cup InFree \cup InCall

Facts == {"presents", "chain", "name"}

-----------------------------------------------------------------------------
Init ==
  /\ pc = [t \in Threads |-> "idle"]
  /\ this = [t \in Threads |-> NULL]
  /\ life = [s \in Streams |-> "unborn"]
  /\ refs = [s \in Streams |-> 0]
  /\ vars = [s \in Streams |-> 0]
  /\ heap = [s \in Streams |-> [ctx |-> "none", ssl |-> "none", cert |-> "none"]]
  /\ holder = [s \in Streams |-> "none"]
  /\ hostName = [s \in Streams |-> EmptyName]
  /\ checks = [s \in Streams |-> {}]
  /\ server = [s \in Streams |-> {}]
  /\ thrown = [s \in Streams |-> NULL]

-----------------------------------------------------------------------------
(* Reference counting.                                                     *)

Increase(s) == refs' = [refs EXCEPT ![s] = @ + 1]

(* Whoever drops the last reference goes on into _native_release.          *)
Decrease(t, s) ==
  /\ refs' = [refs EXCEPT ![s] = @ - 1]
  /\ IF refs[s] = 1
     THEN Goto(t, "release") /\ this' = [this EXCEPT ![t] = s]
     ELSE Goto(t, "idle") /\ this' = [this EXCEPT ![t] = NULL]

(* Another variable of the program, of any thread, refers to the stream.   *)
Share(s) ==
  /\ vars[s] \in 1 .. MaxVars - 1
  /\ Increase(s)
  /\ vars' = [vars EXCEPT ![s] = @ + 1]
  /\ UNCHANGED <<pc, this, life, hostName, server, thrown, sslVars>>

(* A variable that referred to the stream goes away or is overwritten.     *)
Drop(t, s) ==
  /\ pc[t] = "idle" /\ vars[s] > 0
  /\ vars' = [vars EXCEPT ![s] = @ - 1]
  /\ Decrease(t, s)
  /\ UNCHANGED <<life, hostName, server, thrown, sslVars>>

-----------------------------------------------------------------------------
(* The constructor.                                                        *)

(* The new object has the reference of the expression that creates it and  *)
(* the one _native_init takes.                                             *)
New(t, s, h, f) ==
  /\ pc[t] = "idle" /\ life[s] = "unborn"
  /\ life' = [life EXCEPT ![s] = "making"]
  /\ refs' = [refs EXCEPT ![s] = 2]
  /\ hostName' = [hostName EXCEPT ![s] = h]
  /\ server' = [server EXCEPT ![s] = f]
  /\ this' = [this EXCEPT ![t] = s]
  /\ Goto(t, "SSL_CTX_new")
  /\ UNCHANGED <<vars, thrown, sslVars>>

(* The server's certificate passes the verification OpenSSL was told to do.*)
(* An anonymous server shows none and OpenSSL then reports X509_V_OK.      *)
Verifies(s) ==
  "presents" \in server[s] =>
    "chain" \in server[s] /\ ("identity" \in checks[s] => "name" \in server[s])

(* What must hold for a call to succeed.  OpenSSL refuses "" as a server   *)
(* name indication.                                                        *)
MaySucceed(l, s) ==
  CASE l = "SSL_set_tlsext_host_name" -> hostName[s] # EmptyName
    [] l = "SSL_connect" -> "VERIFY_PEER" \in checks[s] => Verifies(s)
    [] l = "SSL_get_peer_certificate" -> "presents" \in server[s]
    [] l = "SSL_get_verify_result" -> Verifies(s)
    [] OTHER -> TRUE

MayFail(l, s) ==
  CASE l \in {"SSL_CTX_set_verify", "calloc"} -> FALSE
    [] l \in {"SSL_get_peer_certificate", "SSL_get_verify_result"} -> ~MaySucceed(l, s)
    [] OTHER -> TRUE

HeapAfter(l, s) ==
  CASE l = "SSL_CTX_new" -> [heap EXCEPT ![s].ctx = "live"]
    [] l = "SSL_new" -> [heap EXCEPT ![s].ssl = "live"]
    [] l = "SSL_get_peer_certificate" -> [heap EXCEPT ![s].cert = "live"]
    [] OTHER -> heap

ChecksAfterNoIdentity(l, s) ==
  CASE l = "SSL_CTX_set_verify" -> [checks EXCEPT ![s] = @ \cup {"VERIFY_PEER"}]
    [] OTHER -> checks
ChecksAfter(l, s) ==
  CASE l = "SSL_CTX_set_verify" -> [checks EXCEPT ![s] = @ \cup {"VERIFY_PEER"}]
    [] l = "SSL_set1_host" -> [checks EXCEPT ![s] = @ \cup {"identity"}]
    [] OTHER -> checks

InitSucceeds(t) ==
  LET s == this[t] IN
  /\ pc[t] \in InInit
  /\ MaySucceed(pc[t], s)
  /\ heap' = HeapAfter(pc[t], s)
  /\ checks' = ChecksAfter(pc[t], s)
  /\ holder' = IF pc[t] = "calloc" THEN [holder EXCEPT ![s] = "live"] ELSE holder
  /\ Goto(t, After[pc[t]])
  /\ UNCHANGED <<this, objVars>>

(* The label a failed step jumps to.  (Definitions whose names continue    *)
(* another's are wrong variants no action uses.)                           *)
FailLabelOffByOne(l) ==
  CASE l = "SSL_CTX_new" -> "exit"
    [] l \in {"SSL_CTX_set_default_verify_paths", "SSL_new", "SSL_set_fd"} -> "SSL_CTX_free"
    [] l = "SSL_get_verify_result" -> "X509_free"
    [] OTHER -> "SSL_shutdown"
FailLabelTooEarly(l) ==
  CASE l = "SSL_CTX_new" -> "exit"
    [] l = "SSL_new" -> "SSL_CTX_free"
    [] l \in {"SSL_CTX_set_default_verify_paths", "SSL_set_fd"} -> "SSL_free"
    [] l = "SSL_get_verify_result" -> "X509_free"
    [] OTHER -> "SSL_shutdown"
FailLabel(l) ==
  CASE l = "SSL_CTX_new" -> "exit"
    [] l \in {"SSL_CTX_set_default_verify_paths", "SSL_new"} -> "SSL_CTX_free"
    [] l = "SSL_set_fd" -> "SSL_free"
    [] l = "SSL_get_verify_result" -> "X509_free"
    [] OTHER -> "SSL_shutdown"

InitFails(t) ==
  LET s == this[t] IN
  /\ pc[t] \in InInit
  /\ MayFail(pc[t], s)
  /\ thrown' = [thrown EXCEPT ![s] = pc[t]]
  /\ Goto(t, FailLabel(pc[t]))
  /\ UNCHANGED <<this, life, refs, vars, hostName, server, sslVars>>

-----------------------------------------------------------------------------
(* The cleanup calls, of a failed constructor and of _native_release.      *)

Free(x) == IF x = "live" THEN "freed" ELSE "corrupt"

X509Free(t) ==
  /\ pc[t] = "X509_free"
  /\ heap' = [heap EXCEPT ![this[t]].cert = Free(@)]
  /\ Goto(t, "SSL_shutdown")
  /\ UNCHANGED <<this, objVars, holder, checks>>

SSLShutdown(t) ==
  /\ pc[t] = "SSL_shutdown"
  /\ Goto(t, "SSL_free")
  /\ UNCHANGED <<this, objVars, sslVars>>

SSLFree(t) ==
  /\ pc[t] = "SSL_free"
  /\ heap' = [heap EXCEPT ![this[t]].ssl = Free(@)]
  /\ Goto(t, "SSL_CTX_free")
  /\ UNCHANGED <<this, objVars, holder, checks>>

SSLCTXFree(t) ==
  /\ pc[t] = "SSL_CTX_free"
  /\ heap' = [heap EXCEPT ![this[t]].ctx = Free(@)]
  /\ Goto(t, "exit")
  /\ UNCHANGED <<this, objVars, holder, checks>>

(* __exit of _native_init: drop its own reference, then hand the object to *)
(* the program or, when it threw, drop the creating expression's too.      *)
RefsAfterInitKept(s) == refs
RefsAfterInitTwice(s) == [refs EXCEPT ![s] = @ - 2]
RefsAfterInit(s) == [refs EXCEPT ![s] = @ - 1]

ExitInit(t) ==
  LET s == this[t] IN
  /\ pc[t] = "exit" /\ life[s] = "making" /\ refs[s] > 0
  /\ refs' = RefsAfterInit(s)
  /\ IF thrown[s] = NULL
     THEN /\ life' = [life EXCEPT ![s] = "live"]
          /\ vars' = [vars EXCEPT ![s] = 1]
          /\ Goto(t, "idle")
          /\ this' = [this EXCEPT ![t] = NULL]
     ELSE Goto(t, "drop") /\ UNCHANGED <<this, life, vars>>
  /\ UNCHANGED <<hostName, server, thrown, sslVars>>

DropFailed(t) ==
  /\ pc[t] = "drop"
  /\ Decrease(t, this[t])
  /\ UNCHANGED <<life, vars, hostName, server, thrown, sslVars>>

(* _native_release: nothing to do unless the constructor made a holder.    *)
Release(t) ==
  /\ pc[t] = "release"
  /\ Goto(t, IF holder[this[t]] = "none" THEN "exit" ELSE "X509_free")
  /\ UNCHANGED <<this, objVars, sslVars>>

(* The runtime frees the object itself.                                    *)
ExitRelease(t) ==
  /\ pc[t] = "exit" /\ refs[this[t]] = 0
  /\ life' = [life EXCEPT ![this[t]] = "dead"]
  /\ Goto(t, "idle")
  /\ this' = [this EXCEPT ![t] = NULL]
  /\ UNCHANGED <<refs, vars, hostName, server, thrown, sslVars>>

-----------------------------------------------------------------------------
(* read and write.                                                         *)

(* A call through a variable of the program; the variable may be dropped   *)
(* while the call runs.  A failed bounds check skips the OpenSSL call.     *)
RefsInCallUncounted(s) == refs
RefsInCall(s) == [refs EXCEPT ![s] = @ + 1]

BeginCall(t, s) ==
  /\ pc[t] = "idle" /\ vars[s] > 0
  /\ refs' = RefsInCall(s)
  /\ this' = [this EXCEPT ![t] = s]
  /\ \E l \in InCall \cup {"leave"} : Goto(t, l)
  /\ UNCHANGED <<life, vars, hostName, server, thrown, sslVars>>

(* Data, end of stream or an error: the call returns.                      *)
SslCallReturns(t) ==
  /\ pc[t] \in InCall
  /\ Goto(t, "leave")
  /\ UNCHANGED <<this, objVars, sslVars>>

LeaveCall(t) ==
  /\ pc[t] = "leave"
  /\ Decrease(t, this[t])
  /\ UNCHANGED <<life, vars, hostName, server, thrown, sslVars>>

-----------------------------------------------------------------------------
Constructor(t) == InitSucceeds(t) \/ InitFails(t)

Cleanup(t) ==
  \/ X509Free(t) \/ SSLShutdown(t) \/ SSLFree(t) \/ SSLCTXFree(t)
  \/ ExitInit(t) \/ DropFailed(t) \/ Release(t) \/ ExitRelease(t)

Call(t) == SslCallReturns(t) \/ LeaveCall(t)

Program(t) ==
  \E s \in Streams :
    \/ \E h \in HostNames, f \in SUBSET Facts : New(t, s, h, f)
    \/ Share(s) \/ Drop(t, s) \/ BeginCall(t, s)

Next == \E t \in Threads : Constructor(t) \/ Cleanup(t) \/ Call(t) \/ Program(t)

Spec == Init /\ [][Next]_allVars

(* Threads run; a peer may keep SSL_connect, SSL_read or SSL_write waiting *)
(* for ever, since the sockets have no timeout.                            *)
FairSpec == Spec /\ \A t \in Threads : WF_allVars(Cleanup(t) \/ LeaveCall(t))

-----------------------------------------------------------------------------
TypeOK ==
  /\ pc \in [Threads -> Labels]
  /\ this \in [Threads -> Streams \cup {NULL}]
  /\ life \in [Streams -> {"unborn", "making", "live", "dead"}]
  /\ refs \in [Streams -> Nat]
  /\ vars \in [Streams -> 0 .. MaxVars]
  /\ heap \in [Streams -> [{"ctx", "ssl", "cert"} -> {"none", "live", "freed", "corrupt"}]]
  /\ holder \in [Streams -> {"none", "live"}]
  /\ hostName \in [Streams -> HostNames \cup {EmptyName}]
  /\ checks \in [Streams -> SUBSET {"VERIFY_PEER", "identity"}]
  /\ server \in [Streams -> SUBSET Facts]
  /\ thrown \in [Streams -> InInit \cup {NULL}]

(* No thread is inside OpenSSL, or still to touch the object, with a       *)
(* stream another thread has released meanwhile (SslSocketStream.c:165-167,*)
(* 201-203: the reference a call takes).                                   *)
NoUseAfterRelease ==
  \A t \in Threads :
    LET s == this[t] IN
    /\ pc[t] \in InCall => heap[s].ctx = "live" /\ heap[s].ssl = "live"
    /\ pc[t] # "idle" => life[s] # "dead"

(* Whatever step of a constructor fails, and however many threads share a  *)
(* stream, each OpenSSL object is freed at most once and only if it was    *)
(* made (the order of the __fail labels).                                  *)
NoBadFree ==
  \A s \in Streams : \A x \in DOMAIN heap[s] : heap[s][x] # "corrupt"

(* A stream that is gone, also one whose constructor threw, has left no    *)
(* SSL_CTX, SSL or X509 behind.                                            *)
DeadHoldsNothing ==
  \A s \in Streams : life[s] = "dead" =>
    \A x \in DOMAIN heap[s] : heap[s][x] # "live"

(* A stream that read and write can use is connected to a server that      *)
(* showed a certificate with a trusted chain for the requested name        *)
(* (SslSocketStream.c:88-111).                                             *)
UsableMeansVerified ==
  \A s \in Streams : holder[s] = "live" => server[s] = Facts

(* A thread in read or write.                                              *)
Uses(t) == pc[t] \in InCall \cup {"leave"}
Calls(s) == {t \in Threads : Uses(t) /\ this[t] = s}

(* A failed constructor closes its stream, and so does the last reference. *)
Phase(s) ==
  CASE life[s] = "making" /\ thrown[s] # NULL -> "closing"
    [] life[s] = "live" /\ refs[s] = 0         -> "closing"
    [] OTHER -> life[s]

Phases == [s \in Streams |-> Phase(s)]
Users  == [s \in Streams |-> Calls(s)]

Abs == INSTANCE StreamLife WITH
  phase <- Phases, objects <- heap, holders <- vars, users <- Users, peer <- server

(* Constructor, calls and releases, spread over threads and counted by one *)
(* number, give the program the life of a stream of StreamLife: the count  *)
(* reaches zero exactly when nobody holds or uses the stream, and nothing  *)
(* is freed before (libc SslSocketStream.c:18-20, 120-155, 165-167).       *)
ImplementsStreamLife == Abs!Spec

(* Once the program has no reference and no thread is blocked in OpenSSL,  *)
(* the stream is released; a constructor that threw releases its object.   *)
DroppedIsReleased ==
  \A s \in Streams :
    (\/ thrown[s] # NULL
     \/ life[s] = "live" /\ vars[s] = 0 /\ \A t \in Threads : this[t] = s => pc[t] \notin InCall)
      ~> (life[s] = "dead")

-----------------------------------------------------------------------------
(* The inductive invariant: who works on a stream, and what it then holds. *)

(* A thread in its constructor or its release.                             *)
Owns(t) == pc[t] \in InInit \cup InFree \cup {"drop", "release"}

Full(s)  == \A x \in DOMAIN heap[s] : heap[s][x] = "live"
Empty(s) == \A x \in DOMAIN heap[s] : heap[s][x] # "live"

(* The constructor before its call l: what has been made, and told OpenSSL,*)
(* and what the calls that succeeded say of the server.                    *)
MadeBefore(l, s) ==
  /\ heap[s].ctx = IF l = "SSL_CTX_new" THEN "none" ELSE "live"
  /\ heap[s].ssl = IF l \in {"SSL_CTX_new", "SSL_CTX_set_verify",
                             "SSL_CTX_set_default_verify_paths", "SSL_new"}
                   THEN "none" ELSE "live"
  /\ heap[s].cert = IF l \in {"SSL_get_verify_result", "calloc"} THEN "live" ELSE "none"

ToldBefore(l, s) ==
  /\ l \notin {"SSL_CTX_new", "SSL_CTX_set_verify"} => "VERIFY_PEER" \in checks[s]
  /\ l \in {"SSL_connect", "SSL_get_peer_certificate", "SSL_get_verify_result", "calloc"} =>
       "identity" \in checks[s]
  /\ l \in {"SSL_get_peer_certificate", "SSL_get_verify_result", "calloc"} => Verifies(s)
  /\ l \in {"SSL_get_verify_result", "calloc"} => "presents" \in server[s]

(* What is left to free before the cleanup call l.                         *)
LeftBefore(l, s) ==
  /\ heap[s].ctx = "live"
  /\ l # "SSL_CTX_free" <=> heap[s].ssl = "live"
  /\ l = "X509_free" <=> heap[s].cert = "live"

Failed(s)    == life[s] = "making" /\ thrown[s] # NULL /\ holder[s] = "none"
Succeeded(s) == thrown[s] = NULL /\ holder[s] = "live"

(* What its label says of the stream an owner works on.                    *)
OwnerIsAt(t, s) ==
  LET l == pc[t] IN
  /\ l \in InInit =>
       /\ life[s] = "making" /\ refs[s] = 2 /\ thrown[s] = NULL /\ holder[s] = "none"
       /\ MadeBefore(l, s) /\ ToldBefore(l, s)
  /\ l \in InFree \ {"exit"} =>
       /\ LeftBefore(l, s)
       /\ \/ Failed(s) /\ refs[s] = 2
          \/ Succeeded(s) /\ life[s] = "live" /\ refs[s] = 0
  /\ l = "exit" =>
       \/ Failed(s) /\ refs[s] \in {0, 2} /\ Empty(s)
       \/ Succeeded(s) /\ life[s] = "making" /\ refs[s] = 2 /\ Full(s)
       \/ Succeeded(s) /\ life[s] = "live" /\ refs[s] = 0 /\ Empty(s)
  /\ l = "drop" => Failed(s) /\ refs[s] = 1 /\ Empty(s)
  /\ l = "release" =>
       /\ refs[s] = 0
       /\ \/ Failed(s) /\ Empty(s)
          \/ Succeeded(s) /\ life[s] = "live" /\ Full(s)

(* An owner is alone with its stream; users have a live one.               *)
ThreadsInv ==
  /\ \A t \in Threads : pc[t] = "idle" <=> this[t] = NULL
  /\ \A t, u \in Threads : Owns(t) /\ this[t] = this[u] => t = u
  /\ \A t \in Threads : Owns(t) => OwnerIsAt(t, this[t])
  /\ \A t \in Threads : Uses(t) => life[this[t]] = "live"

(* The count of a live stream is its variables and the calls inside it.    *)
CountInv ==
  \A s \in Streams :
    /\ life[s] = "live" => refs[s] = vars[s] + Cardinality(Calls(s))
    /\ life[s] # "live" => vars[s] = 0

(* What a stream holds that has no owner.                                  *)
HeapInv ==
  \A s \in Streams :
    /\ life[s] = "unborn" =>
         /\ refs[s] = 0 /\ thrown[s] = NULL /\ holder[s] = "none"
         /\ \A x \in DOMAIN heap[s] : heap[s][x] = "none"
    /\ life[s] = "live" /\ refs[s] > 0 => Full(s) /\ Succeeded(s)

IInv ==
  /\ TypeOK /\ ThreadsInv /\ CountInv /\ HeapInv
  /\ NoBadFree /\ DeadHoldsNothing /\ UsableMeansVerified

=============================================================================
