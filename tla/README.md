# TLA+ models of am-ssl

am-ssl is the TLS library of AmLang: a small class library (`src/src/am-lang/Am/Net/Ssl`)
over native C back ends (`src/src/native-c/<platform>`). Little of it is algorithmic. What
is hard is *when* things happen: preemptible Amiga tasks that must each be made known to
AmiSSL, objects whose last reference any thread may drop, constructors with a dozen steps
that can each fail, coroutines that wait for one worker thread. That is what is modelled.

Source paths below are relative to the repository; in PROJECT.json they start with `src/`.

## The system

| Component | State it keeps | Operations |
|---|---|---|
| Per-task AmiSSL bring-up (`src/native-c/amigaos/am_ssl_amissl_init.c`) | the list `ssl_task_list` of `ssl_task_node`s, keyed by the AmLang Thread in `tc_UserData`; in AmiSSL, a slot per task with its errno pointer and socket base | `ensure_initialised_for_current_task`, `close_for_current_task`, `current_task_errno`, `ensure_initialised` |
| One-shot OpenSSL initialisation (amigaos `SslSocketStream.c`, `SslPrivate.aml`) | Runtime property `openssl-initialized` | test, `OPENSSL_init_ssl` + `RAND_seed`, set; in the constructor and in `warmCurrentTask` |
| `SslSocketStream` (`SslSocketStream.aml`; libc, morphos-ppc, amigaos C files) | holder with `ctx`, `ssl`, `cert`; the runtime's reference count | `_native_init`, `read`, `write`, `_native_release`, `nativeInit`, `closeAmiSSLForThread`, `warmCurrentTask` |
| `AsyncSecureSocketStream` (`.aml` only) | the wrapped stream; per call a holder and an error message | `createAsync`, `readAsync`, `writeAsync`, `readToEndAsync`, `closeAsync` |
| AROS back end | none | a constructor that only takes a reference, `read` = 0, `write`, an empty release |
| External: AmLang runtime, TaskScheduler, am-net `Socket`, OpenSSL, AmiSSL, Exec | threads with finalizers, atomic reference counts, a FIFO queue with one worker | modelled from how the code here uses them |

How they interact. A coroutine calls an `AsyncSecureSocketStream`, which puts a task on the
IO `TaskScheduler` and suspends; the single IO worker runs it and calls into the wrapped
`SslSocketStream`, whose native code calls OpenSSL. On AmigaOS m68k the constructor first
brings up the calling task and, once per process, OpenSSL itself; `nativeInit` registers a
finalizer with the task's Thread that undoes the bring-up. Native methods take a reference
to their object while they run; whichever thread drops the last one runs `_native_release`.

What is hard, and what makes each part correct:

* **Bring-up.** Worker tasks and Thread objects come and go at recycled addresses, and are
  preempted anywhere. A constructor must never reach OpenSSL on a task AmiSSL does not know
  (it hangs); AmiSSL must never write an errno through a freed or shared node; an ended
  worker must leave nothing behind; nobody may use OpenSSL before its global initialisation
  is through, although test and set of the flag are separate; no worker may run that
  initialisation in a program that warms main.
* **Streams.** Each object is freed once and only if made, whichever call failed; no thread is
  in OpenSSL with a released stream; a usable stream has a verified peer; dropped streams go away.
* **Async calls.** Every caller resumes once, with the outcome of its own call; calls take
  effect in order; no data is read twice or out of order, and none is lost but what a
  `readToEndAsync` that threw had read; callers do not wait for ever, peers permitting.
* **Buffers.** OpenSSL must be given memory inside an array that lives as long as the call, and
  a length that survives its `int`; no call, throwing or not, may keep the array alive.
* **Streams on tasks.** A stream keeps only a descriptor *number*, and every base hands out the
  same numbers: each call must reach the stream's own connection.
* **Drain loop.** A reused signed chunk must yield exactly the peer's bytes; the cap must hold
  (nearly) and must end the loop.

PROJECT.json lists the hazards one by one, at their lines, with the properties that cover them.

## The modules

| Module | Models | Extends / uses |
|---|---|---|
| `AmiSslTasks` | bring-up, flag, Thread finalizers | instantiates `AmiSslContract` |
| `AmiSslTasksProofs` | theorems about it | `AmiSslTasks`, `TLAPS` |
| `AmiSslContract` | abstract: what AmiSSL and OpenSSL ask of the tasks of a process | |
| `SslSocketStream` | stream objects, constructor to release | instantiates `StreamLife` |
| `SslSocketStreamProofs` | theorems about it | `SslSocketStream`, `FiniteSetTheorems`, `TLAPS` |
| `StreamLife` | abstract: the life of a stream as the program sees it | |
| `StreamBuffer` | bounds check, lengths and array references of `read`/`write` | |
| `StreamBufferProofs` | theorems about it | `StreamBuffer`, `FiniteSetTheorems`, `TLAPS` |
| `StreamsOnTasks` | composition: sockets and streams over the tasks of `AmiSslTasks` | `AmiSslTasks` |
| `StreamsOnTasksProofs` | theorems about it | `StreamsOnTasks`, `AmiSslTasksProofs` |
| `AsyncSecureSocketStream` | callers, IO queue, worker, server | instantiates `AsyncCalls` |
| `AsyncSecureSocketStreamProofs` | theorems about it, the refinement among them | `AsyncSecureSocketStream`, `SequenceTheorems`, `TLAPS` |
| `AsyncCalls` | abstract: what the async class promises | |
| `ReadToEnd` | the loop of `readToEndAsync`, byte by byte | instantiates `BoundedDrain` |
| `ReadToEndProofs` | theorems about it | `ReadToEnd`, `SequenceTheorems`, `TLAPS` |
| `BoundedDrain` | abstract: what a drain of the connection promises | |
| `MC*` | TLC instances: model values, symmetry | the module each is named after |

`ReadToEnd` zooms into the action `RunReadToEnd` of `AsyncSecureSocketStream`: there a read
returns a "piece", here bytes. `AmiSslTasks` and `SslSocketStream` see the same constructor
from two sides: the first has its bring-up in steps and the OpenSSL calls as the one label
`ssl`, the second the OpenSSL calls in steps. `StreamBuffer` looks inside the `read` and `write`
that `SslSocketStream` has as one step up to OpenSSL, at the other object they count, the array.
`StreamsOnTasks` is a composition: each of its actions is an action of `AmiSslTasks` joined with
what the same code does to sockets and streams.

Some definitions are variants of the one defined just below them (`RefsInCallUncounted`
beside `RefsInCall`, and so on). No action uses them: they are plausible mistakes, each
breaking a property when it replaces the right definition, which shows that the property
depends on that line of the code. PROJECT.json pairs them with properties under "mutants".

### AmiSslTasks

A task's `pc` is the step it runs next; one action is a stretch of code that is local to the
task or sits inside one `Forbid()`/`Permit()` pair. `node` is the heap of `ssl_task_node`s
(their `thread` field; NULL when not allocated), `ssl_task_list` the set of linked ones,
`frame` the local variable `node` of the running call, `ErrNoPtr`/`SslBase` what AmiSSL
remembers of a task, `finalizers` those `addFinalizer` put on its Thread. `malloc` and
`InitAmiSSL` may fail. Main, brought up by amisslauto, has no Thread and skips the
per-worker part. `warmCurrentTask` (`BeginWarm`) may run on any task and, like the code, brings
nothing up. The list is a set: how its `next` pointers are spliced is not modelled,
since every splice is inside one Forbid/Permit pair.

Four constants state what the *program* does, so that each promise is checked under exactly
the convention it needs: `WarmFirst` (main calls `warmCurrentTask` before workers use SSL or warm),
`OwnSocketFirst` (workers build streams only over sockets they created), `StreamsStay`
(a stream is used on its builder's task or main; in `StreamsOnTasks`, on its builder's task),
`WorkerInitHangs` (the hang described in
the comments of `am_ssl_amissl_init.c`).

`AmiSslContract` is the other side of these steps: tasks that are `known` to AmiSSL between
their own `InitAmiSSL` and `CleanupAmiSSL`, each with an errno cell of its own that stays
allocated as long; tasks that are `inside` OpenSSL only in that time and only once it is
`ready`; and an end only after the cleanup. List, Threads, finalizers and flag do not appear. The
mapping reads `known` off AmiSSL's slots (`BroughtUp`), `inside` off the labels `ssl` and
`call`, and `memory` off the nodes that are allocated.

### SslSocketStream

`After` is the table of `_native_init`: each OpenSSL call and its successor; `FailLabel` is
where each `goto` leads. Cleanup is the label chain `X509_free`, `SSL_shutdown`, `SSL_free`,
`SSL_CTX_free`, `exit`, which is the body of `_native_release` too. `refs` is the runtime's
count: one for the creating expression or each variable (`vars`), one that `_native_init`
takes and drops at `__exit`, one per running `read` or `write`. `heap` keeps each object's
fate and turns "corrupt" when something not live is freed. `server` says what is
true of the peer (shows a certificate, its chain is trusted, it names this host), and
`Verifies` what OpenSSL concludes from that and from what it was told to check.

`StreamLife` has no count, no labels and no threads of the library: a stream is unborn, making,
live, closing or dead; it becomes live when all its objects are made and its peer is verified,
can be entered while somebody holds it, closes with the last holder or user
(`LetGo`), and has its objects freed, once each, while it is closing. Under the mapping (`Phases`, `Users`) a
constructor's step that makes no object, `SSL_shutdown` and the dropping of a failed
constructor's references are stutters. What the detailed module adds is *how* the code knows who
is last: the one number `refs`.

### StreamBuffer

`BeginCall` is `read_0` or `write_0` up to the call of OpenSSL: take a reference to the array
(`RefsInCall`), compare `(unsigned long long) offset + length` with its size (`TooLong`, with
`Wrap` for the conversion and the sum), throw or go on. `SslCallReturns` is OpenSSL returning,
after any time, and `LeaveCall` is `__exit`. Arrays are the program's: it shares and drops
them at any time, and an address whose last reference is gone goes to a new array of any
size. `Word` and `Wide` are 2^32 and 2^64; the theorems hold for any two with
`2 * Word <= Wide`. The properties speak of offsets that are not negative. With a negative one
the sum can wrap to a small value, so the check passes and OpenSSL is handed a pointer before
the array: the code leaves it to its callers not to do so, and no caller in this repository
passes anything but a caller's offset or 0.

### StreamsOnTasks

`table` is the descriptor table of each task's bsdsocket base (main's is the global base),
`sock` where a connection's socket was made, `builder` who built its stream, `using` the stream
a task works on. `Connect` may take any free number, so a number comes again after `Close` or in
another base. `Reached` is where OpenSSL's socket calls find a number: in the base that
`AmiSslTasks` recorded at the task's bring-up. `StreamsAreLocal` is the two conventions
(`OwnSocketFirst`, `StreamsStay`) that keep a stream on the task that opened its socket;
`Conventions` adds `ReleaseFirst`: close a socket only after its stream is released. A program that
does not keep to that may read and write a stream whose socket is closed, for `read_0` and
`write_0` do not look at the socket, and `Call` allows it; `UseWhileOpen` is the convention not to
do so, which only the run `streams_closed` adopts, to show that the release alone is enough to
reach another connection.
The result of `getpeername` in the constructor is thrown away by the code, so it appears
nowhere in the model.

### AsyncSecureSocketStream

`Ask` is a call up to its suspension, `TakeTask`, `Run...`, `Resume` and `TaskReturns` are
the worker, `Return` is what the coroutine does after the suspension point. `holder` is the
call's holder object, which the worker fills before it resumes the caller. After `Resume` the caller
runs beside the worker, which still holds the task's closure, and with it a reference to the
stream, until `TaskReturns`; so `DropStream` runs the release on the caller's task or leaves
it to the worker, depending on who is last. The server answers requests with numbered
pieces and closes after `MaxRequests`; the connection can break; and the peer can fall silent
without a sign of it (`PeerFallsSilent`), before the connection is made or at any time after. Each task but that of
`closeAsync` can throw instead of doing its work, a `readToEndAsync` also between two pieces:
the pieces it has read are then in no holder.

`AsyncCalls` says the same in three steps: a call is made, takes effect (first in, first out, data
in order), and returns. A `readToEndAsync` that throws takes pieces and hands out none. The
refinement mapping makes a call take effect at `Resume`: `pending` is the running task, until
resumed, followed by the queue.

### ReadToEnd

`ReadData` overwrites a prefix of the chunk (any length up to what arrived), `CopyByte`
converts one byte, `EndTurn` adds to `totalRead` and compares with the cap. `Byte` is signed.
The int -1 of a failed `SSL_read` passes through the `UInt` that `read` is declared to return
(`SslSocketStream.aml:13`). What `n <= 0` then sees is up to the AmLang compiler, which is not in
the repository, so `asInt` is either: with TRUE the loop ends there; with FALSE `n` is the largest
`UInt`, and the loop copies the chunk until its index leaves the array and AmLang's index check
throws (`IndexThrow`, an assumption about AmLang). `Throw` is an exception of the
allocations or of `read`, at any point of the loop; both end in the catch block of lines 184-186.

In `BoundedDrain` a read appends the next bytes of the peer to the result in one step (`Take`),
which finishes it if the cap is reached; else only an ended connection finishes it
(`Finish`), a closed one when everything has been taken; or it throws and the result is empty
(`Fail`). A turn of the loop maps to `Take` where it
ends (`EndTurn`); `Result` is what the turns before have added up to.

## What is checked

Passing runs:

| Run | Instance | Shows |
|---|---|---|
| `tasks_any` | main, 2 workers, 2 Thread and 2 node addresses; no convention; symmetric | bring-up, errno slots, cleanup and the flag are right whatever the program does |
| `tasks_contract` | the same, all conventions, `FairSpec`, no symmetry | no worker initialises OpenSSL, own sockets go through own bases, every call and warm-up is on a known task; the tasks keep `AmiSslContract`; `IInv` holds; constructors get through; finalizers finish and give the slot back |
| `stream_shared` | 1 stream, 3 threads, 3 references, host names with one empty, `FairSpec` | no use after release, no bad free, no leak of OpenSSL objects, usable means verified; the streams implement `StreamLife`; `IInv` holds; dropped or failed streams are released |
| `buffer_calls` | 1 address, 2 threads, `Word` 8, `Wide` 64, 3 sizes, 5 offsets, 5 lengths | transfers stay inside a live array, nothing that fits is refused, lengths survive `int`, no reference is lost; `IInv` holds |
| `streams_own` | main, 2 workers, 2 connections, 2 numbers; `StreamsAreLocal`, without `ReleaseFirst` and `UseWhileOpen`; symmetric | every handshake, and every read, write and shutdown made while the socket is open, reaches the stream's own connection; `JointInv` holds |
| `async_promise` | 3 callers, 1 stream, 2 requests; symmetric | waiting callers and tasks correspond one to one; the class implements `AsyncCalls`; `IInv` holds |
| `async_live` | 2 callers, 1 stream, 2 requests, `FairSpec` | every call returns, unless the worker ends up in a read nobody asked an answer for, or in a connect, handshake, read or write with a silent peer |
| `read_drain` | chunk 3, cap 4, 8 bytes across all sign boundaries, 16 numbers in a `UInt`, both readings of -1, `FairSpec` | prefix, overshoot, end at the cap; the loop implements `BoundedDrain` |

Runs that end in a counterexample, each against a sentence of the repository:

| Run | The repository says | The code does |
|---|---|---|
| `tasks_call` | bring-up happens "BEFORE any OpenSSL call" (amigaos `SslSocketStream.c:60-64`); in the async class "everything happens on the IO worker task" (`AsyncSecureSocketStream.aml:12-14`) | only the constructor brings a task up; `read`, `write` and release run wherever they are called, the release where the last reference is dropped; `closeAsync`, a stub by its own comment (207-219), does nothing about it |
| `tasks_base` | "fall back to the global only on the main task / unmanaged tasks" (`am_ssl_amissl_init.c:209-212`) | a managed worker that builds its first stream over another task's socket is brought up with the global base (218-220) and keeps it (early return, 181-184) for handshakes over sockets it opens later |
| `streams_closed` | "Always close underlying socket", while the stream is still referenced (the "Resource Management" pattern, `.github/copilot-instructions.md:211-222`, also `examples/ssl-test`) | the stream's release runs `SSL_shutdown` on a number that may be another connection's by then |
| `async_write` | write "errors out by throwing" (`AsyncSecureSocketStream.aml:124-126`) | the result of `SSL_write` is not looked at |

More divergences, without a run of their own. The comment at amigaos `SslSocketStream.c:28-38` says
that `-lamisslauto` is not linked and that `CleanupAmiSSL` is skipped; `package.yml:51-52` links
amisslauto, `am_ssl_amissl_init.c:3-4` relies on it, and 262-271 there call `CleanupAmiSSL`. The
models follow the code. Reads are said to go on "until SSL_read returns 0"
(`AsyncSecureSocketStream.aml:147`); if the compiler compares the -1 of a failed read as signed,
they also end there, and the caller gets truncated data without an error. "Proper cleanup" is asked
for (`.github/copilot-instructions.md:355`), but nothing frees the `ssl_socket_stream_holder` the
constructor callocs (libc `SslSocketStream.c:113, 142`). An empty host name is said to skip
verification (`.github/copilot-instructions.md:252`), but the constructor sets `SSL_VERIFY_PEER`
whatever the name is and throws when OpenSSL refuses "" (`MaySucceed`). The result of
`readToEndAsync` is said to be capped at `maxBytes` (`AsyncSecureSocketStream.aml:148`), but may be
up to a chunk less one byte longer (`OvershootsByLessThanAChunk`). On AROS `_native_release` is said
to drop the reference `_native_init` takes (`SslSocketStream.c:41-42` there), and does not.

**Bounds.** Two workers, two Threads and two nodes are the least with which one worker can
inherit another's Thread and node address, and with which all nodes are taken so that
`malloc` must fail. Three threads with three references to a stream let one be blocked in a read,
another leave one, and a third drop the last variable; two streams share no state and no property
relates them, so one is enough. Two threads on one array let one be blocked in OpenSSL while the
other drops the array; offsets and lengths lie on both sides of each boundary (a sum of 0, of a
size, of one more, beyond `Word`, lengths from half of `Word` on). In `StreamsOnTasks` one
connection holds a stream while the other takes and gives back numbers, in three bases; an
instance with three connections (2,267,864 states) passes as well. Three callers fill the worker, the queue and a caller that has just been resumed. Two requests
make a second read depend on the first. A chunk of 3 and a cap of 4 make the cap fall inside
a chunk, and later turns shorter than earlier ones. `MaxVars`, `MaxRequests` and, in `Ask`,
`MaxRequests + 1` reads per stream are bounds of the models, not of the code; `MaxPieces`,
`ChunkSize` and `MaxBytes` are small values of the code's constants and argument. `UIntRange` is
2^32 in the code; 16 is enough to make a misread -1 larger than the chunk, which is what the theorems ask of it.

**Fairness.** Exec and the other systems run every ready task, so `FairSpec` in `AmiSslTasks`
and `SslSocketStream` has weak fairness of the library's own steps, per task. There is none for
`SSL_connect`, `SSL_read` and `SSL_write`: the sockets have no timeout. `SSL_shutdown` is
taken to return, since it sends one alert and does not wait for the peer's. In
`AsyncSecureSocketStream` resumed coroutines run, and so does the worker except while it waits for the peer
(`WaitsForPeer`): in a read of data that has not come, and in a connect, handshake, read or write
with a peer that has fallen silent, since none of these has a timeout. A server that has not fallen silent answers what
it received and closes in the end. Nothing is assumed of what the program calls. So
`EveryCallReturns` has two alternatives: the program reads an answer before writing the request
(`StuckInARead`, for ever), or the worker is with a silent peer for ever (`OnSilentPeer`). Either
blocks the only IO worker and every call behind it, and TLC refutes the property without either.
A write to a silent peer blocks in the code only once the send buffer is full; the model lets it
block at once, or go through.

**Deadlock** checking is off where the system may really stop: every stream of the instance
dead and every thread idle (`SslSocketStream`), all callers waiting
behind a read the server will not answer, or no request left (`AsyncSecureSocketStream`), and the drain loop done
(`ReadToEnd`). In `AmiSslTasks` it is on.

## What is proved

For every number of tasks, Threads and nodes, under `Assumptions` (main is a task, NULL is
no Thread and no node), `AmiSslTasksProofs` proves `Spec => []` of `TypeOK`, `IInv`, and each
safety property of the runs `tasks_any` and `tasks_contract`: `ConstructorIsBroughtUp`,
`ErrnoSlotIsLiveAndPrivate`, `ReportsOwnErrno`, `EndedLeavesNothing`, `GlobalInitBeforeUse`,
`WorkersNeverInit`, and, under the convention each needs, `OwnSocketUsesOwnBase` and
`BringUpBeforeAnyCall`. None is inductive alone: that a constructor on `ssl` is brought up depends on
`EnsureLookup` finding a node only when AmiSSL has the task, which depends on every linked
node being owned by a running worker, which depends on finalizers having run before an
address is reused. `IInv` is that knot:

* `RegistryInv`: main is apart; running workers have distinct Threads; per label, what the
  frame, list, slot and finalizers of a worker are (`WorkerIsAt`); each linked node has an owner.
* `GlobalInv`: flag and `warmed` imply that OpenSSL is initialised, and who is past that point.
* `UsageInv`: what the three conventions add.

One lemma per part goes through the actions; `Invariance` puts them together. From it follows the
refinement `ContractIsKept`: with `WarmFirst` and `StreamsStay` (without the second the run
`tasks_call` shows a call on an unknown task, without the first a worker may warm before it is
brought up), `Spec => KeepsTheContract`. Each lemma `...KeepsTerms` takes one group of actions and
names the step of the contract it is: `InitAmiSSLSucceeds` is `InitAmiSSL` because the registered
node is nobody else's, `FreeNode` is `Free` because `CleanupAmiSSL` has run, `EndConstructor` and
`BeginCall` find the task known and OpenSSL ready because of `IInv`. The contract holds after any
failure of `malloc` or `InitAmiSSL` and with every address reused.

For any streams, host names and bound on references and any finite set of threads
(`StreamAssumptions`), `SslSocketStreamProofs` proves `TypeOK`, `NoUseAfterRelease`, `NoBadFree`,
`DeadHoldsNothing`, `UsableMeansVerified` and their invariant `IInv`. That a release never meets a
running call is a matter of counting, `CountInv`: the count of a live stream is its
variables plus the calls inside it, so it is zero only when nobody is there. `ThreadsInv` says the
rest: a thread in a constructor or a release has the stream to itself, and
its label determines what has been made, told to OpenSSL and freed (`OwnerIsAt`, with
`MadeBefore`, `ToldBefore`, `LeftBefore`). The proof rests on two lemmas about whole classes
of steps: `AloneStep` (a thread with a stream to itself) and `UserStep` (a thread entering or
leaving a live one). On top of them `LifeIsKept` proves `Spec => ImplementsStreamLife`, one
lemma `...Lives` per action. The heart is `LetsGo`: by `CountInv` after the step, `refs` is zero if and
only if no variable is left and no call is inside, so the thread that goes on to `_native_release`
is the one that closes the stream in `StreamLife`.

`ReadToEndProofs` proves, for every chunk size, cap and data, and for both readings of -1, the
invariant `Inv` and from it that what is handed out is the peer's data (`OutIsWhatThePeerSent`) and
the bounded overshoot. `ByteRoundTrip` is the arithmetic fact that the conversion undoes the sign of
`Byte`; `Inv` needs both the contents of the *current* prefix of the chunk and the counters that say
how far the copy is, and that a misread -1 (`Misread`) never gets to the end of a turn: the chunk
ends first. `TypeOK` is proved as well, and so is `DrainIsBounded`: `Spec =>
ImplementsBoundedDrain`, where `ResultState` says that the turns so far add up to the first
`totalRead` bytes of the data.

`StreamBufferProofs` proves every property of `buffer_calls` under `BufferAssumptions`. `IInv` has
two parts besides types: an array's count is its variables plus the calls that use it, so an
array in use is never freed and its size never changes under a call; and the verdict of the check is
still true when OpenSSL runs. `CheckIsExact` is the arithmetic: for an offset that is
not negative neither the conversion nor the sum wraps, so the check is exactly
`offset + length > size`.

`AsyncSecureSocketStreamProofs` proves for any callers, streams and bounds that tasks and waiting
callers correspond (`WaitingHaveATask`) and that the class implements `AsyncCalls`
(`KeepsThePromise`): each step of the detailed specification is a step of the abstract one
or a stutter under the mapping. `IInv` adds to `WaitingHaveATask` what the running task has read and what
outcome its holder may have, an exception included, so that the abstract call takes effect at
`Resume` with an outcome allowed to its operation. Of a `readToEndAsync` that throws after some pieces
that outcome is the exception, with its pieces taken from the connection: the only data
that is read and reaches nobody.

`StreamsOnTasksProofs` proves `JointInv`. Every joint step is a step or a stutter of `AmiSslTasks`
(`StepOfTasks`), so `JointSpec => Spec` (`ImplementsTasks`): `IInv` and every theorem of that module
hold of the composition, and supply that a worker's recorded base is its own. `KeptTogether` carries
the rest: under `StreamsAreLocal`, a stream's builder is the task its socket was made on, whose
Thread has not ended while the stream lives; the main task's recorded base is the global one. From
it, `OwnConnection`: under `StreamsAreLocal` every handshake, and every call made while the stream's
socket is open, reaches its own connection. `ClosedLast` adds what `ReleaseFirst` gives, the socket
is open as long as the stream is held, and `NothingStrays` then excludes the other calls too: under
`Conventions`, `NoForeignTraffic` holds. The run `streams_closed` violates the same property without
`ReleaseFirst`, so that convention is what the documented pattern lacks.

Only model-checked: liveness (`ConstructorGetsThrough`, `FinalizersCleanUp`, `DroppedIsReleased`,
`EveryCallReturns`, `CapEndsTheDrain`), which is beyond the prover.

## What is not modelled

* `calloc` and its unchecked NULL: the write through NULL leaves the program's state space.
* The AmLang compiler. `ReadToEnd` has both things it may make of the `UInt` result of `read`, and
  relies on its check of array indices. `AsyncSecureSocketStream`, where a read returns a piece, has the
  outcomes of both: data or an exception.
* A verification result other than ok after a handshake with `SSL_VERIFY_PEER`: OpenSSL has refused
  such a peer in `SSL_connect`, so the branch to `__fail5` on it is never taken in the model.
* Error texts, logging, `seekFromStart`, `readByte` and `writeByte` (they only throw), the
  inert AROS back end, empty platform stubs, the example client, build recipes.
* The node list by its `next` pointers: each traversal and splice is inside one Forbid/Permit
  pair, so no other task sees a half-made list, and `AmiSslTasks` has it as a set.
* Which of the two Thread finalizers (am-net's, AmiSSL's) runs first: that order is
  am-lang-core's; the models allow both. Whether `CleanupAmiSSL` uses the base is AmiSSL's.
* The AROS back end: `_native_init` takes a reference nobody drops, and no other operation
  changes anything, so there is no state to model.
* Two threads in `SSL_read` and `SSL_write` of one SSL object: what OpenSSL then does is not
  defined, and the async class keeps to one worker.
* am-lang-core, am-net, OpenSSL and AmiSSL themselves: only what this code relies on.

## Plan

Done: the bring-up, streams, buffers, the async class with its refinement, the drain loop, and the
composition of bring-up, sockets and streams, each with its proofs, and an abstract specification
that is proved to be implemented for bring-up, streams, async class and drain loop. What is left:

1. The async class on top of `StreamsOnTasks`: callers whose streams are built on the IO worker
   and released where `DropStream` happens, with `CallsReachTheirConnection` for that program.
2. In `StreamsOnTasksProofs`, what handshakes alone need: `OwnSocketFirst` without `StreamsStay`.
3. A joint refinement of `StreamsOnTasks` into `StreamLife` and the connections it may write to.
