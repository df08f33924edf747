------------------- MODULE AsyncSecureSocketStreamProofs -------------------
(***************************************************************************)
(* AsyncSecureSocketStream implements AsyncCalls, for any callers, streams *)
(* and bounds.                                                             *)
(***************************************************************************)
EXTENDS AsyncSecureSocketStream, SequenceTheorems, TLAPS

(* The lists of answers and of delivered pieces the mapping makes.         *)
Answers == [c \in Callers |-> IF status[c] = "resumed" THEN holder[c] ELSE None]
Delivered ==
  [st \in Streams |-> IF InTask /\ Stream = st THEN taken[st] - Len(out) ELSE taken[st]]

LEMMA Mapping == Abs!vars = <<Tasks, asked, Answers, Delivered>>
BY DEF Abs!vars, Answers, Delivered, HolderOf

LEMMA SameMapping ==
  ASSUME Tasks' = Tasks, asked' = asked, Answers' = Answers, Delivered' = Delivered
  PROVE  UNCHANGED Abs!vars
BY DEF Abs!vars, Answers, Delivered, HolderOf

(* The running task comes before the queue.                                *)
LEMMA TasksFacts ==
  ASSUME TypeOK, wpc # "idle" => running \in Callers
  PROVE  /\ Tasks \in Seq(Callers)
         /\ InTask => Tasks # <<>> /\ Head(Tasks) = running /\ Tail(Tasks) = queue
         /\ ~InTask => Tasks = queue
<1>1. queue \in Seq(Callers)  BY DEF TypeOK
<1>2. ~InTask => Tasks = queue  BY DEF Tasks
<1>3. ASSUME InTask
      PROVE  /\ Tasks \in Seq(Callers) /\ Tasks # <<>>
             /\ Head(Tasks) = running /\ Tail(Tasks) = queue
  <2>1. running \in Callers  BY <1>3 DEF InTask
  <2>2. Tasks = <<running>> \o queue  BY <1>3 DEF Tasks
  <2>3. <<running>> \in Seq(Callers) /\ Len(<<running>>) = 1 /\ <<running>>[1] = running
    BY <2>1
  <2>4. /\ Tasks \in Seq(Callers) /\ Len(Tasks) = 1 + Len(queue)
        /\ \A i \in 1 .. 1 + Len(queue) :
             Tasks[i] = IF i <= 1 THEN <<running>>[i] ELSE queue[i - 1]
    BY <1>1, <2>2, <2>3, ConcatProperties
  <2>5. Len(queue) \in Nat  BY <1>1, LenProperties
  <2>6. Tasks # <<>>  BY <2>4, <2>5, EmptySeq
  <2>7. Head(Tasks) = running  BY <2>3, <2>4, <2>5, <2>6
  <2>8. /\ Tail(Tasks) \in Seq(Callers) /\ Len(Tail(Tasks)) = Len(queue)
        /\ \A i \in 1 .. Len(queue) : Tail(Tasks)[i] = Tasks[i + 1]
    BY <2>4, <2>5, <2>6, HeadTailProperties
  <2>9. \A i \in 1 .. Len(queue) : Tail(Tasks)[i] = queue[i]  BY <2>4, <2>5, <2>8
  <2>10. Tail(Tasks) = queue  BY <1>1, <2>8, <2>9, SeqEqual
  <2>11. QED  BY <2>4, <2>6, <2>7, <2>10
<1>4. QED  BY <1>1, <1>2, <1>3

(* The caller of the running task waits for it.                            *)
LEMMA RunningWaits ==
  ASSUME IInv, InTask
  PROVE  running \in Callers /\ status[running] = "suspended"
<1>1. TypeOK /\ WaitingHaveATask /\ running \in Callers
  BY DEF IInv, WorkerInv, InTask
<1>2. Tasks \in Seq(Callers) /\ Tasks # <<>> /\ Head(Tasks) = running
  BY <1>1, TasksFacts
<1>3. 1 \in DOMAIN Tasks /\ Tasks[1] = running  BY <1>2, EmptySeq, LenProperties
<1>4. QED  BY <1>1, <1>3 DEF WaitingHaveATask

-----------------------------------------------------------------------------
(* Types.                                                                  *)

OutcomeType == [kind : Abs!Kinds, data : Seq(Nat)]

LEMMA OutcomeTypes ==
  /\ \A k \in Abs!Kinds : Outcome(k) \in OutcomeType
  /\ \A d \in Seq(Nat) : [kind |-> "data", data |-> d] \in OutcomeType
  /\ None \in OutcomeType
BY DEF Outcome, OutcomeType, None, Abs!Kinds

LEMMA CountUp ==
  ASSUME NEW f \in [Streams -> Nat], NEW st \in Streams
  PROVE  [f EXCEPT ![st] = @ + 1] \in [Streams -> Nat]
OBVIOUS

LEMMA FinishType ==
  ASSUME TypeOK, running \in Callers, NEW o \in OutcomeType, Finish(o)
  PROVE  /\ holder' = [holder EXCEPT ![running] = o]
         /\ holder' \in [Callers -> OutcomeType]
         /\ wpc' = "resume"
         /\ UNCHANGED <<status, asked, queue, running, countVars>>
BY DEF TypeOK, Finish, HolderOf, AfterTask, OutcomeType

LEMMA TakePieceType ==
  ASSUME TypeOK, NEW st \in Streams, TakePiece(st)
  PROVE  /\ taken' = [taken EXCEPT ![st] = @ + 1] /\ taken' \in [Streams -> Nat]
         /\ out' = Append(out, taken[st] + 1) /\ out' \in Seq(Nat)
         /\ UNCHANGED <<conn, received, answered>>
BY DEF TypeOK, TakePiece

LEMMA TypeStep ==
  ASSUME TypeOK, wpc # "idle" => running \in Callers, [Next]_vars
  PROVE  TypeOK'
<1>. USE DEF TypeOK
<1>1. CASE UNCHANGED vars
  BY <1>1 DEF vars, callVars, workVars, peerVars, countVars
<1>2. ASSUME NEW c \in Callers, NEW op \in Ops, NEW st \in Streams, Ask(c, op, st)
      PROVE  TypeOK'
  <2>1. queue' \in Seq(Callers)  BY <1>2, AppendProperties DEF Ask, Enqueued
  <2>2. nreads' \in [Streams -> Nat]
    <3>1. CASE op = "read"
      <4>1. nreads' = [nreads EXCEPT ![st] = @ + 1]  BY <1>2, <3>1 DEF Ask
      <4>2. QED  BY <4>1, CountUp
    <3>2. CASE op # "read"  BY <1>2, <3>2 DEF Ask
    <3>3. QED  BY <3>1, <3>2
  <2>3. asked' = [asked EXCEPT ![c] = [op |-> op, st |-> st]]
        /\ status' = [status EXCEPT ![c] = "suspended"]
        /\ UNCHANGED <<holder, running, wpc, out, inner, peerVars, nwrites>>
    BY <1>2 DEF Ask
  <2>4. asked' \in [Callers -> [op : Ops, st : Streams]]
        /\ status' \in [Callers -> {"idle", "suspended", "resumed"}]
    BY <2>3
  <2>5. QED  BY <2>1, <2>2, <2>3, <2>4 DEF peerVars
<1>3. ASSUME NEW c \in Callers, Return(c)  PROVE TypeOK'
  <2>1. holder' \in [Callers -> OutcomeType]
    BY <1>3, OutcomeTypes DEF Return, OutcomeType
  <2>2. nwrites' \in [Streams -> Nat]
    <3>1. PICK st \in Streams : st = asked[c].st  OBVIOUS
    <3>2. CASE nwrites' = nwrites  BY <3>2
    <3>3. CASE nwrites' = [nwrites EXCEPT ![st] = @ + 1]  BY <3>3, CountUp
    <3>4. QED  BY <1>3, <3>1, <3>2, <3>3 DEF Return
  <2>3. QED  BY <1>3, <2>1, <2>2 DEF Return, workVars, peerVars, OutcomeType
<1>4. CASE TakeTask
  BY <1>4, HeadTailProperties DEF TakeTask, callVars, peerVars, countVars
<1>5. ASSUME wpc = "run", running \in Callers, NEW o \in OutcomeType, Finish(o)
      PROVE  /\ holder' \in [Callers -> [kind : Abs!Kinds, data : Seq(Nat)]]
             /\ wpc' \in {"idle", "run", "resume", "return"}
             /\ UNCHANGED <<status, asked, queue, running, countVars>>
  BY <1>5, FinishType DEF OutcomeType
<1>6. Stream \in Streams \/ wpc = "idle"  BY DEF Stream
<1>7. CASE RunCreate
  BY <1>5, <1>7, OutcomeTypes DEF RunCreate, Runs, Stream, peerVars, countVars, Abs!Kinds
<1>8. CASE RunRead
  <2>1. CASE TakePiece(Stream) /\ Finish([kind |-> "data", data |-> out'])
    BY <1>5, <1>6, <1>8, <2>1, OutcomeTypes, TakePieceType
       DEF RunRead, Runs, countVars
  <2>2. CASE UNCHANGED <<out, peerVars>>
             /\ \E kind \in {"eof", "error", "throw"} : Finish(Outcome(kind))
    BY <1>5, <1>8, <2>2, OutcomeTypes DEF RunRead, Runs, peerVars, countVars, Abs!Kinds
  <2>3. QED  BY <1>8, <2>1, <2>2 DEF RunRead
<1>9. CASE RunWrite
  <2>1. received' \in [Streams -> Nat]
    <3>1. PICK st \in Streams : st = Stream  BY <1>6, <1>9 DEF RunWrite, Runs
    <3>2. CASE received' = received  BY <3>2
    <3>3. CASE received' = [received EXCEPT ![st] = @ + 1]  BY <3>3, CountUp
    <3>4. QED  BY <1>9, <3>1, <3>2, <3>3 DEF RunWrite
  <2>2. QED
    BY <1>5, <1>9, <2>1, OutcomeTypes DEF RunWrite, Runs, countVars, Abs!Kinds
<1>10. CASE RunReadToEnd
  <2>1. CASE TakePiece(Stream) /\ Finish([kind |-> "data", data |-> out'])
    BY <1>5, <1>6, <1>10, <2>1, OutcomeTypes, TakePieceType
       DEF RunReadToEnd, Runs, countVars
  <2>2. CASE TakePiece(Stream) /\ UNCHANGED <<callVars, queue, running, wpc, countVars>>
    BY <1>6, <1>10, <2>2, TakePieceType DEF RunReadToEnd, Runs, callVars, countVars
  <2>3. CASE Finish([kind |-> "data", data |-> out]) /\ UNCHANGED <<out, peerVars>>
    BY <1>5, <1>10, <2>3, OutcomeTypes DEF RunReadToEnd, Runs, peerVars, countVars
  <2>4. CASE TakePiece(Stream) /\ Finish(Outcome("throw"))
    BY <1>5, <1>6, <1>10, <2>4, OutcomeTypes, TakePieceType
       DEF RunReadToEnd, Runs, countVars, Abs!Kinds
  <2>5. CASE Finish(Outcome("throw")) /\ UNCHANGED <<out, peerVars>>
    BY <1>5, <1>10, <2>5, OutcomeTypes DEF RunReadToEnd, Runs, peerVars, countVars, Abs!Kinds
  <2>6. QED  BY <1>10, <2>1, <2>2, <2>3, <2>4, <2>5 DEF RunReadToEnd
<1>11. CASE RunClose
  BY <1>5, <1>11, OutcomeTypes DEF RunClose, Runs, peerVars, countVars, Abs!Kinds
<1>12. CASE Resume
  BY <1>12, EmptySeq DEF Resume, peerVars, countVars
<1>13. CASE TaskReturns
  BY <1>13 DEF TaskReturns, callVars, peerVars, countVars
<1>14. ASSUME NEW st \in Streams,
              DropStream(st) \/ Server(st) \/ PeerFallsSilent(st) \/ ConnectionBreaks(st)
       PROVE  TypeOK'
  <2>1. CASE DropStream(st)
    BY <2>1 DEF DropStream, callVars, workVars, peerVars, countVars
  <2>2. CASE ServerAnswers(st)
    <3>1. answered' \in [Streams -> Nat]  BY <2>2, CountUp DEF ServerAnswers
    <3>2. QED  BY <2>2, <3>1 DEF ServerAnswers, callVars, workVars, countVars
  <2>3. CASE ServerCloses(st) \/ PeerFallsSilent(st) \/ ConnectionBreaks(st)
    BY <2>3 DEF ServerCloses, PeerFallsSilent, ConnectionBreaks, callVars, workVars, countVars
  <2>4. QED  BY <1>14, <2>1, <2>2, <2>3 DEF Server
<1>15. QED
  BY <1>1, <1>2, <1>3, <1>4, <1>7, <1>8, <1>9, <1>10, <1>11, <1>12, <1>13, <1>14
     DEF Next, Worker

-----------------------------------------------------------------------------
(* Steps of the running task: the abstract state stands still, as what it  *)
(* reads is not delivered, and what it stores not answered, before Resume. *)
LEMMA WorkStep ==
  ASSUME IInv, TypeOK', wpc = "run", wpc' \in {"run", "resume"},
         UNCHANGED <<status, asked, queue, running>>,
         \A c \in Callers \ {running} : holder'[c] = holder[c],
         NEW st \in Streams, st = Stream,
         \A s \in Streams \ {st} : taken'[s] = taken[s],
         taken'[st] - Len(out') = taken[st] - Len(out),
         ReadSoFar(asked[running].op)',
         Len(out') <= taken'[st],
         \A i \in 1 .. Len(out') : out'[i] = taken'[st] - Len(out') + i,
         wpc' = "resume" => holder'[running] \in Results(asked[running].op)'
  PROVE  IInv' /\ UNCHANGED Abs!vars
<1>1. TypeOK /\ WaitingHaveATask /\ WorkerInv  BY DEF IInv
<1>2. InTask /\ InTask' /\ Stream' = st  BY DEF InTask, Stream
<1>3. running \in Callers /\ status[running] = "suspended"  BY <1>2, RunningWaits
<1>4. Tasks' = Tasks  BY <1>2 DEF Tasks
<1>5. WaitingHaveATask'  BY <1>1, <1>4 DEF WaitingHaveATask
<1>6. WorkerInv'  BY <1>2, <1>3 DEF WorkerInv
<1>7. \A c \in Callers : status'[c] = "resumed" => holder'[c].kind # "none"
  BY <1>3 DEF IInv
<1>8. Answers' = Answers  BY <1>3 DEF Answers
<1>9. Delivered' = Delivered  BY <1>2 DEF Delivered
<1>10. QED  BY <1>4, <1>5, <1>6, <1>7, <1>8, <1>9, SameMapping DEF IInv

LEMMA FinishStep ==
  ASSUME IInv, TypeOK', wpc = "run", NEW o \in OutcomeType, Finish(o),
         out' = out, taken' = taken,
         ReadSoFar(asked[running].op)', o \in Results(asked[running].op)
  PROVE  IInv' /\ UNCHANGED Abs!vars
<1>1. TypeOK /\ WorkerInv /\ running \in Callers  BY DEF IInv, WorkerInv
<1>2. /\ holder' = [holder EXCEPT ![running] = o] /\ wpc' = "resume"
      /\ UNCHANGED <<status, asked, queue, running>>
  BY <1>1, FinishType
<1>3. PICK st \in Streams : st = Stream  BY <1>1 DEF TypeOK, Stream
<1>4. /\ Len(out) <= taken[st] /\ \A i \in 1 .. Len(out) : out[i] = taken[st] - Len(out) + i
  BY <1>1, <1>3 DEF WorkerInv, InTask
<1>5. holder'[running] = o /\ \A c \in Callers \ {running} : holder'[c] = holder[c]
  BY <1>1, <1>2 DEF TypeOK
<1>6. holder'[running] \in Results(asked[running].op)'
  BY <1>2, <1>5 DEF Results
<1>7. QED  BY <1>2, <1>3, <1>4, <1>5, <1>6, WorkStep

(* Taking a piece appends the next number to what has been read.           *)
LEMMA PieceTaken ==
  ASSUME IInv, wpc = "run", NEW st \in Streams, st = Stream, TakePiece(st)
  PROVE  /\ taken' \in [Streams -> Nat] /\ out' \in Seq(Nat)
         /\ \A s \in Streams \ {st} : taken'[s] = taken[s]
         /\ Len(out') = Len(out) + 1 /\ taken'[st] = taken[st] + 1
         /\ Len(out) \in Nat /\ Len(out') <= taken'[st]
         /\ \A i \in 1 .. Len(out') : out'[i] = taken'[st] - Len(out') + i
         /\ out' # <<>>
<1>1. TypeOK /\ WorkerInv  BY DEF IInv
<1>2. /\ Len(out) <= taken[st] /\ \A i \in 1 .. Len(out) : out[i] = taken[st] - Len(out) + i
  BY <1>1 DEF WorkerInv, InTask
<1>3. out \in Seq(Nat) /\ taken[st] \in Nat /\ Len(out) \in Nat
  BY <1>1, LenProperties DEF TypeOK
<1>4. /\ taken' = [taken EXCEPT ![st] = @ + 1] /\ taken' \in [Streams -> Nat]
      /\ out' = Append(out, taken[st] + 1) /\ out' \in Seq(Nat)
  BY <1>1, TakePieceType
<1>5. /\ Len(out') = Len(out) + 1
      /\ \A i \in 1 .. Len(out) : out'[i] = out[i]
      /\ out'[Len(out) + 1] = taken[st] + 1
  BY <1>3, <1>4, AppendProperties
<1>6. taken'[st] = taken[st] + 1  BY <1>1, <1>4 DEF TypeOK
<1>7. \A i \in 1 .. Len(out') : out'[i] = taken'[st] - Len(out') + i
  <2>1. SUFFICES ASSUME NEW i \in 1 .. Len(out) + 1
                 PROVE  out'[i] = (taken[st] + 1) - (Len(out) + 1) + i
    BY <1>5, <1>6
  <2>2. CASE i \in 1 .. Len(out)  BY <2>2, <1>2, <1>3, <1>5
  <2>3. CASE i = Len(out) + 1  BY <2>3, <1>3, <1>5
  <2>4. QED  BY <2>2, <2>3, <1>3
<1>8. out' # <<>>  BY <1>3, <1>4, <1>5, EmptySeq
<1>9. \A s \in Streams \ {st} : taken'[s] = taken[s]  BY <1>1, <1>4 DEF TypeOK
<1>10. Len(out') <= taken'[st]  BY <1>2, <1>3, <1>5, <1>6
<1>11. QED  BY <1>3, <1>4, <1>5, <1>6, <1>7, <1>8, <1>9, <1>10


-----------------------------------------------------------------------------
(* A read: one piece, or the end of the stream, an error or an exception.  *)
LEMMA RunReadStep ==
  ASSUME IInv, TypeOK', RunRead
  PROVE  IInv' /\ UNCHANGED Abs!vars
<1>1. TypeOK /\ WorkerInv /\ running \in Callers /\ wpc = "run"
      /\ asked[running].op = "read" /\ out = <<>>
  BY DEF IInv, WorkerInv, RunRead, Runs, InTask, ReadSoFar
<1>2. PICK st \in Streams : st = Stream  BY <1>1 DEF TypeOK, Stream
<1>3. CASE TakePiece(st) /\ Finish([kind |-> "data", data |-> out'])
  <2>1. /\ \A s \in Streams \ {st} : taken'[s] = taken[s]
        /\ Len(out') = Len(out) + 1 /\ taken'[st] = taken[st] + 1
        /\ Len(out') <= taken'[st] /\ out' # <<>> /\ out' \in Seq(Nat)
        /\ \A i \in 1 .. Len(out') : out'[i] = taken'[st] - Len(out') + i
    BY <1>1, <1>2, <1>3, PieceTaken
  <2>2. Len(out) = 0 /\ taken[st] \in Nat  BY <1>1 DEF TypeOK
  <2>3. [kind |-> "data", data |-> out'] \in OutcomeType  BY <2>1, OutcomeTypes
  <2>4. /\ holder' = [holder EXCEPT ![running] = [kind |-> "data", data |-> out']]
        /\ wpc' = "resume" /\ UNCHANGED <<status, asked, queue, running>>
    BY <1>1, <1>3, <2>3, FinishType
  <2>5. /\ holder'[running] = [kind |-> "data", data |-> out']
        /\ \A c \in Callers \ {running} : holder'[c] = holder[c]
    BY <1>1, <2>4 DEF TypeOK
  <2>6. holder'[running] \in Results(asked[running].op)'
    BY <1>1, <2>1, <2>4, <2>5 DEF Results
  <2>7. ReadSoFar(asked[running].op)'
    BY <1>1, <2>1, <2>2, <2>4 DEF ReadSoFar
  <2>8. QED  BY <1>1, <1>2, <2>1, <2>2, <2>4, <2>5, <2>6, <2>7, WorkStep
<1>4. CASE UNCHANGED <<out, peerVars>>
           /\ \E kind \in {"eof", "error", "throw"} : Finish(Outcome(kind))
  <2>1. PICK kind \in {"eof", "error", "throw"} : Finish(Outcome(kind))  BY <1>4
  <2>2. out' = out /\ taken' = taken  BY <1>4 DEF peerVars
  <2>3. Outcome(kind) \in OutcomeType  BY OutcomeTypes DEF Abs!Kinds
  <2>4. Outcome(kind) \in Results(asked[running].op)
    BY <1>1 DEF Results, Outcome
  <2>5. ReadSoFar(asked[running].op)'
    BY <1>1, <2>1, <2>2, <2>3, FinishType DEF ReadSoFar
  <2>6. QED  BY <1>1, <2>1, <2>2, <2>3, <2>4, <2>5, FinishStep
<1>5. QED  BY <1>2, <1>3, <1>4 DEF RunRead

(* A turn of the drain loop, its last one or not.                          *)
LEMMA RunReadToEndStep ==
  ASSUME IInv, TypeOK', RunReadToEnd
  PROVE  IInv' /\ UNCHANGED Abs!vars
<1>1. TypeOK /\ WorkerInv /\ running \in Callers /\ wpc = "run"
      /\ asked[running].op = "readToEnd" /\ Len(out) < MaxPieces
  BY DEF IInv, WorkerInv, RunReadToEnd, Runs, InTask, ReadSoFar
<1>2. PICK st \in Streams : st = Stream  BY <1>1 DEF TypeOK, Stream
<1>3. MaxPieces \in Nat  BY AsyncAssumptions
<1>4. CASE TakePiece(st)
  <2>1. /\ \A s \in Streams \ {st} : taken'[s] = taken[s]
        /\ Len(out') = Len(out) + 1 /\ taken'[st] = taken[st] + 1
        /\ Len(out') <= taken'[st] /\ out' \in Seq(Nat) /\ Len(out) \in Nat
        /\ \A i \in 1 .. Len(out') : out'[i] = taken'[st] - Len(out') + i
    BY <1>1, <1>2, <1>4, PieceTaken
  <2>2. taken'[st] - Len(out') = taken[st] - Len(out)
    <3>1. taken[st] \in Nat  BY <1>1 DEF TypeOK
    <3>2. QED  BY <3>1, <2>1
  <2>3. ASSUME NEW o \in OutcomeType, Finish(o),
               o = Outcome("throw") \/ o = [kind |-> "data", data |-> out']
        PROVE  IInv' /\ UNCHANGED Abs!vars
    <3>1. /\ holder' = [holder EXCEPT ![running] = o]
          /\ wpc' = "resume" /\ UNCHANGED <<status, asked, queue, running>>
      BY <1>1, <2>3, FinishType
    <3>2. holder'[running] = o /\ \A c \in Callers \ {running} : holder'[c] = holder[c]
      BY <1>1, <3>1 DEF TypeOK
    <3>3. holder'[running] \in Results(asked[running].op)'
      BY <1>1, <2>3, <3>1, <3>2 DEF Results
    <3>4. ReadSoFar(asked[running].op)'
      BY <1>1, <1>3, <2>1, <3>1 DEF ReadSoFar
    <3>5. QED  BY <1>1, <1>2, <2>1, <2>2, <3>1, <3>2, <3>3, <3>4, WorkStep
  <2>4. CASE Len(out') < MaxPieces
             /\ UNCHANGED <<callVars, queue, running, wpc, countVars>>
    <3>1. UNCHANGED <<status, asked, holder, queue, running, wpc>>
      BY <2>4 DEF callVars
    <3>2. ReadSoFar(asked[running].op)'
      BY <1>1, <1>3, <2>1, <2>4, <3>1 DEF ReadSoFar
    <3>3. wpc' # "resume" /\ wpc' \in {"run", "resume"}  BY <1>1, <3>1
    <3>4. QED  BY <1>1, <1>2, <2>1, <2>2, <3>1, <3>2, <3>3, WorkStep
  <2>5. CASE Finish([kind |-> "data", data |-> out'])
    BY <2>1, <2>3, <2>5, OutcomeTypes
  <2>6. CASE Finish(Outcome("throw"))
    BY <2>3, <2>6, OutcomeTypes DEF Abs!Kinds
  <2>7. \/ Len(out') < MaxPieces /\ UNCHANGED <<callVars, queue, running, wpc, countVars>>
        \/ Finish([kind |-> "data", data |-> out'])
        \/ Finish(Outcome("throw"))
    <3>1. taken[st] \in Nat /\ taken'[st] = taken[st] + 1  BY <1>1, <2>1 DEF TypeOK
    <3>2. taken'[st] # taken[st]  BY <3>1
    <3>3. taken' # taken  BY <3>2
    <3>4. QED  BY <3>3 DEF RunReadToEnd, peerVars
  <2>8. QED  BY <2>4, <2>5, <2>6, <2>7
<1>5. ASSUME NEW o \in OutcomeType, Finish(o), UNCHANGED <<out, peerVars>>,
             o = Outcome("throw") \/ o = [kind |-> "data", data |-> out]
      PROVE  IInv' /\ UNCHANGED Abs!vars
  <2>1. out' = out /\ taken' = taken  BY <1>5 DEF peerVars
  <2>2. o \in Results(asked[running].op)  BY <1>1, <1>5 DEF Results
  <2>3. wpc' = "resume" /\ asked' = asked /\ running' = running
    BY <1>1, <1>5, FinishType
  <2>4. Len(out) \in Nat  BY <1>1, LenProperties DEF TypeOK
  <2>5. ReadSoFar(asked[running].op)'
    BY <1>1, <1>3, <2>1, <2>3, <2>4 DEF ReadSoFar
  <2>6. QED  BY <1>1, <1>5, <2>1, <2>2, <2>5, FinishStep
<1>6. CASE Finish([kind |-> "data", data |-> out]) /\ UNCHANGED <<out, peerVars>>
  BY <1>1, <1>5, <1>6, OutcomeTypes DEF TypeOK
<1>7. CASE Finish(Outcome("throw")) /\ UNCHANGED <<out, peerVars>>
  BY <1>5, <1>7, OutcomeTypes DEF Abs!Kinds
<1>8. QED  BY <1>2, <1>4, <1>6, <1>7 DEF RunReadToEnd

(* The tasks that read nothing.                                            *)
LEMMA OtherRunStep ==
  ASSUME IInv, TypeOK', RunCreate \/ RunWrite \/ RunClose
  PROVE  IInv' /\ UNCHANGED Abs!vars
<1>1. /\ TypeOK /\ WorkerInv /\ running \in Callers /\ wpc = "run" /\ out = <<>>
      /\ asked[running].op \in {"create", "write", "close"}
  BY DEF IInv, WorkerInv, RunCreate, RunWrite, RunClose, Runs, InTask, ReadSoFar
<1>2. PICK kind \in {"void", "throw"} : Finish(Outcome(kind))
  BY DEF RunCreate, RunWrite, RunClose
<1>3. out' = out /\ taken' = taken
  BY DEF RunCreate, RunWrite, RunClose, peerVars
<1>4. Outcome(kind) \in OutcomeType  BY OutcomeTypes DEF Abs!Kinds
<1>5. Outcome(kind) \in Results(asked[running].op)  BY <1>1 DEF Results, Outcome
<1>6. ReadSoFar(asked[running].op)'
  BY <1>1, <1>2, <1>3, <1>4, FinishType DEF ReadSoFar
<1>7. QED  BY <1>1, <1>2, <1>3, <1>4, <1>5, <1>6, FinishStep

-----------------------------------------------------------------------------
(* A call appends its caller to the tasks; no caller waits twice.          *)
LEMMA AskStep ==
  ASSUME IInv, TypeOK', NEW c \in Callers, NEW op \in Ops, NEW st \in Streams,
         Ask(c, op, st)
  PROVE  IInv' /\ Abs!Ask(c, op, st)
<1>1. TypeOK /\ WaitingHaveATask /\ WorkerInv  BY DEF IInv
<1>2. /\ status[c] = "idle" /\ status' = [status EXCEPT ![c] = "suspended"]
      /\ asked' = [asked EXCEPT ![c] = [op |-> op, st |-> st]]
      /\ queue' = Append(queue, c)
      /\ UNCHANGED <<holder, running, wpc, out, taken>>
  BY DEF Ask, Enqueued, peerVars
<1>3. Tasks \in Seq(Callers) /\ queue \in Seq(Callers)
  BY <1>1, TasksFacts DEF WorkerInv, TypeOK
<1>4. Tasks' = Append(Tasks, c)
  <2>1. CASE InTask
    <3>1. Tasks = <<running>> \o queue /\ Tasks' = <<running>> \o Append(queue, c)
      BY <2>1, <1>2 DEF Tasks, InTask
    <3>2. running \in Callers  BY <2>1, <1>1 DEF WorkerInv, InTask
    <3>3. <<running>> \in Seq(Callers) /\ <<c>> \in Seq(Callers)  BY <3>2
    <3>4. /\ Append(queue, c) = queue \o <<c>> /\ Append(Tasks, c) = Tasks \o <<c>>
      BY <1>3, AppendIsConcat
    <3>5. (<<running>> \o queue) \o <<c>> = <<running>> \o (queue \o <<c>>)
      BY <1>3, <3>3, ConcatAssociative
    <3>6. QED  BY <3>1, <3>4, <3>5
  <2>2. CASE ~InTask  BY <2>2, <1>2 DEF Tasks, InTask
  <2>3. QED  BY <2>1, <2>2
<1>5. \A i \in DOMAIN Tasks : Tasks[i] # c  BY <1>1, <1>2 DEF WaitingHaveATask
<1>6. /\ DOMAIN Tasks = 1 .. Len(Tasks) /\ DOMAIN Tasks' = 1 .. Len(Tasks) + 1
      /\ Len(Tasks) \in Nat
      /\ \A i \in 1 .. Len(Tasks) : Tasks'[i] = Tasks[i]
      /\ Tasks'[Len(Tasks) + 1] = c
  <2>1. Append(Tasks, c) \in Seq(Callers) /\ Len(Append(Tasks, c)) = Len(Tasks) + 1
    BY <1>3, AppendProperties
  <2>2. QED  BY <1>3, <1>4, <2>1, AppendProperties, LenProperties
<1>7. WaitingHaveATask'
  <2>1. ASSUME NEW d \in Callers
        PROVE  status'[d] = "suspended" <=> \E i \in DOMAIN Tasks' : Tasks'[i] = d
    <3>1. CASE d = c
      <4>1. Len(Tasks) + 1 \in DOMAIN Tasks'  BY <1>6
      <4>2. QED  BY <3>1, <4>1, <1>1, <1>2, <1>6 DEF TypeOK
    <3>2. CASE d # c
      <4>1. status'[d] = status[d]  BY <3>2, <1>1, <1>2 DEF TypeOK
      <4>2. (\E i \in DOMAIN Tasks' : Tasks'[i] = d) <=> (\E i \in DOMAIN Tasks : Tasks[i] = d)
        BY <3>2, <1>6
      <4>3. QED  BY <4>1, <4>2, <1>1 DEF WaitingHaveATask
    <3>3. QED  BY <3>1, <3>2
  <2>2. ASSUME NEW i \in DOMAIN Tasks', NEW j \in DOMAIN Tasks', Tasks'[i] = Tasks'[j]
        PROVE  i = j
    <3>1. i \in DOMAIN Tasks \/ i = Len(Tasks) + 1  BY <1>6
    <3>2. j \in DOMAIN Tasks \/ j = Len(Tasks) + 1  BY <1>6
    <3>3. QED  BY <3>1, <3>2, <2>2, <1>1, <1>5, <1>6 DEF WaitingHaveATask
  <2>3. QED  BY <2>1, <2>2 DEF WaitingHaveATask
<1>8. InTask => running # c /\ asked'[running] = asked[running]
  BY <1>1, <1>2, RunningWaits DEF TypeOK
<1>9. InTask' <=> InTask  BY <1>2 DEF InTask
<1>10. WorkerInv'
  <2>1. wpc' # "idle" => running' \in Callers  BY <1>1, <1>2 DEF WorkerInv
  <2>2. ~InTask' => out' = <<>>  BY <1>1, <1>2, <1>9 DEF WorkerInv
  <2>3. InTask => (Stream' = Stream /\ (ReadSoFar(asked[running].op)' <=> ReadSoFar(asked[running].op)))
    BY <1>2, <1>8 DEF Stream, ReadSoFar
  <2>4. wpc = "resume" => Results(asked[running].op)' = Results(asked[running].op)
    BY <1>2, <1>8 DEF Results, InTask
  <2>5. QED  BY <1>1, <1>2, <1>8, <1>9, <2>1, <2>2, <2>3, <2>4 DEF WorkerInv, InTask
<1>11. \A d \in Callers : status'[d] = "resumed" => holder'[d].kind # "none"
  BY <1>1, <1>2 DEF IInv, TypeOK
<1>12. IInv'  BY <1>7, <1>10, <1>11 DEF IInv
<1>13. Answers' = Answers  BY <1>1, <1>2 DEF Answers, TypeOK
<1>14. Delivered' = Delivered  BY <1>2, <1>8, <1>9 DEF Delivered, Stream
<1>15. Abs!Ask(c, op, st)
  <2>1. Answers[c] = Abs!None  BY <1>2 DEF Answers, None, Abs!None
  <2>2. QED
    BY <1>2, <1>4, <1>5, <1>13, <1>14, <2>1
       DEF Abs!Ask, Abs!Waiting, Answers, Delivered, HolderOf
<1>16. QED  BY <1>12, <1>15

(* After a caller has looked into its holder it may call again.            *)
LEMMA ReturnStep ==
  ASSUME IInv, TypeOK', NEW c \in Callers, Return(c)
  PROVE  IInv' /\ Abs!Return(c)
<1>1. TypeOK /\ WaitingHaveATask /\ WorkerInv  BY DEF IInv
<1>2. /\ status[c] = "resumed" /\ status' = [status EXCEPT ![c] = "idle"]
      /\ holder' = [holder EXCEPT ![c] = None]
      /\ UNCHANGED <<asked, queue, running, wpc, out, taken>>
  BY DEF Return, workVars, peerVars
<1>3. Tasks' = Tasks /\ (InTask' <=> InTask) /\ Stream' = Stream
  BY <1>2 DEF Tasks, InTask, Stream
<1>4. WaitingHaveATask'
  <2>1. \A d \in Callers : status'[d] = "suspended" <=> status[d] = "suspended"
    BY <1>1, <1>2 DEF TypeOK
  <2>2. QED  BY <2>1, <1>1, <1>3 DEF WaitingHaveATask
<1>5. InTask => holder'[running] = holder[running]
  BY <1>1, <1>2, RunningWaits DEF TypeOK
<1>6. WorkerInv'
  <2>1. (ReadSoFar(asked[running].op)' <=> ReadSoFar(asked[running].op))
        /\ Results(asked[running].op)' = Results(asked[running].op)
    BY <1>2 DEF ReadSoFar, Results
  <2>2. QED  BY <1>1, <1>2, <1>3, <1>5, <2>1 DEF WorkerInv, InTask
<1>7. \A d \in Callers : status'[d] = "resumed" => holder'[d].kind # "none"
  BY <1>1, <1>2 DEF IInv, TypeOK
<1>8. IInv'  BY <1>4, <1>6, <1>7 DEF IInv
<1>9. Answers' = [Answers EXCEPT ![c] = None]
  BY <1>1, <1>2 DEF Answers, TypeOK
<1>10. Answers[c] # None  BY <1>2 DEF Answers, None, IInv
<1>11. Delivered' = Delivered  BY <1>2, <1>3 DEF Delivered
<1>12. Abs!Return(c)
  BY <1>2, <1>3, <1>9, <1>10, <1>11
     DEF Abs!Return, Abs!None, None, Answers, Delivered, HolderOf
<1>13. QED  BY <1>8, <1>12

(* Steps that move no task, answer no caller and deliver nothing.          *)
LEMMA QuietStep ==
  ASSUME IInv, TypeOK', UNCHANGED <<status, asked, holder, out, taken>>,
         Tasks' = Tasks, InTask' <=> InTask,
         InTask => wpc' = wpc /\ running' = running,
         wpc' # "idle" => running' \in Callers
  PROVE  IInv' /\ UNCHANGED Abs!vars
<1>1. TypeOK /\ WaitingHaveATask /\ WorkerInv  BY DEF IInv
<1>2. InTask => Stream' = Stream  BY DEF Stream
<1>3. Answers' = Answers /\ Delivered' = Delivered  BY <1>2 DEF Answers, Delivered
<1>4. WaitingHaveATask'  BY <1>1 DEF WaitingHaveATask
<1>5. WorkerInv'
  <2>1. InTask => /\ Results(asked[running].op)' = Results(asked[running].op)
                  /\ ReadSoFar(asked[running].op)' <=> ReadSoFar(asked[running].op)
    BY DEF Results, ReadSoFar
  <2>2. ~InTask' => out' = <<>>  BY <1>1 DEF WorkerInv
  <2>3. ASSUME InTask
        PROVE  /\ ReadSoFar(asked[running].op)'
               /\ Len(out') <= taken'[Stream']
               /\ \A i \in 1 .. Len(out') : out'[i] = taken'[Stream'] - Len(out') + i
    BY <1>1, <1>2, <2>1, <2>3 DEF WorkerInv
  <2>4. ASSUME wpc' = "resume"
        PROVE  holder'[running'] \in Results(asked[running].op)'
    BY <1>1, <2>1, <2>4 DEF WorkerInv, InTask
  <2>5. QED  BY <2>2, <2>3, <2>4 DEF WorkerInv
<1>6. \A c \in Callers : status'[c] = "resumed" => holder'[c].kind # "none"
  BY DEF IInv
<1>7. QED  BY <1>3, <1>4, <1>5, <1>6, SameMapping DEF IInv

(* The worker takes the oldest task: the tasks are still the same.         *)
LEMMA TakeTaskStep ==
  ASSUME IInv, TypeOK', TakeTask
  PROVE  IInv' /\ UNCHANGED Abs!vars
<1>1. TypeOK /\ WaitingHaveATask /\ WorkerInv  BY DEF IInv
<1>2. /\ wpc = "idle" /\ wpc' = "run" /\ queue # <<>> /\ queue \in Seq(Callers)
      /\ running' = Head(queue) /\ queue' = Tail(queue)
      /\ UNCHANGED <<status, asked, holder, out, taken>>
  BY <1>1 DEF TakeTask, callVars, peerVars, TypeOK
<1>3. ~InTask /\ InTask' /\ Tasks = queue /\ Tasks' = <<running'>> \o queue'
  BY <1>2 DEF InTask, Tasks
<1>4. running' \in Callers  BY <1>2, HeadTailProperties, EmptySeq
<1>5. Tasks' = Tasks
  <2>1. /\ queue' \in Seq(Callers) /\ Len(queue) \in Nat /\ Len(queue) > 0
        /\ Len(queue') = Len(queue) - 1
        /\ \A i \in 1 .. Len(queue) - 1 : queue'[i] = queue[i + 1]
        /\ running' = queue[1]
    BY <1>2, HeadTailProperties, LenProperties, EmptySeq
  <2>2. /\ <<running'>> \in Seq(Callers) /\ Len(<<running'>>) = 1
        /\ <<running'>>[1] = running'
    BY <1>4
  <2>3. /\ Tasks' \in Seq(Callers) /\ Len(Tasks') = 1 + (Len(queue) - 1)
        /\ \A i \in 1 .. 1 + (Len(queue) - 1) :
             Tasks'[i] = IF i <= 1 THEN <<running'>>[i] ELSE queue'[i - 1]
    BY <1>3, <2>1, <2>2, ConcatProperties
  <2>4. Len(Tasks') = Len(queue)  BY <2>1, <2>3
  <2>5. ASSUME NEW i \in 1 .. Len(queue)  PROVE Tasks'[i] = queue[i]
    <3>1. CASE i = 1  BY <3>1, <2>1, <2>2, <2>3
    <3>2. CASE i # 1
      <4>1. Tasks'[i] = queue'[i - 1]  BY <3>2, <2>1, <2>3
      <4>2. i - 1 \in 1 .. Len(queue) - 1  BY <3>2, <2>1
      <4>3. queue'[i - 1] = queue[(i - 1) + 1]  BY <4>2, <2>1
      <4>4. QED  BY <4>1, <4>3
    <3>3. QED  BY <3>1, <3>2
  <2>6. QED  BY <1>2, <1>3, <2>3, <2>4, <2>5, SeqEqual
<1>6. WaitingHaveATask'  BY <1>1, <1>2, <1>5 DEF WaitingHaveATask
<1>7. out' = <<>> /\ Len(out') = 0  BY <1>1, <1>2, <1>3 DEF WorkerInv
<1>8. PICK st \in Streams : st = Stream'  BY <1>4, <1>2, <1>1 DEF Stream, TypeOK
<1>9. WorkerInv'
  <2>1. ReadSoFar(asked[running].op)'  BY <1>2, <1>7, AsyncAssumptions DEF ReadSoFar
  <2>2. taken'[st] \in Nat  BY DEF TypeOK
  <2>3. QED  BY <1>2, <1>3, <1>4, <1>7, <1>8, <2>1, <2>2 DEF WorkerInv
<1>10. \A c \in Callers : status'[c] = "resumed" => holder'[c].kind # "none"
  BY <1>2 DEF IInv
<1>11. Answers' = Answers  BY <1>2 DEF Answers
<1>12. Delivered' = Delivered
  <2>1. ASSUME NEW s \in Streams
        PROVE  Delivered'[s] = Delivered[s]
    <3>1. taken'[s] - Len(out') = taken[s]  BY <1>1, <1>2, <1>7 DEF TypeOK
    <3>2. QED  BY <3>1, <1>2, <1>3 DEF Delivered
  <2>2. QED  BY <2>1 DEF Delivered
<1>13. QED  BY <1>2, <1>5, <1>6, <1>9, <1>10, <1>11, <1>12, SameMapping DEF IInv

(* cont.resume(): the oldest call takes effect and its caller is answered. *)
LEMMA ResumeStep ==
  ASSUME IInv, TypeOK', Resume
  PROVE  IInv' /\ \E n \in 0 .. MaxPieces : Abs!Answer(n)
<1>1. TypeOK /\ WaitingHaveATask /\ WorkerInv  BY DEF IInv
<1>2. /\ wpc = "resume" /\ wpc' = "return" /\ out' = <<>>
      /\ status' = [status EXCEPT ![running] = "resumed"]
      /\ UNCHANGED <<asked, holder, queue, running, taken>>
  BY DEF Resume, peerVars
<1>3. InTask /\ ~InTask' /\ running \in Callers  BY <1>1, <1>2 DEF InTask, WorkerInv
<1>4. PICK c \in Callers : c = running  BY <1>3
<1>5. PICK op \in Ops : op = asked[c].op  BY <1>1 DEF TypeOK
<1>6. PICK st \in Streams : st = Stream  BY <1>1, <1>3 DEF TypeOK, Stream
<1>7. PICK n \in Nat : n = Len(out)  BY <1>1, LenProperties DEF TypeOK
<1>8. /\ op = "read" => n <= 1
      /\ op = "readToEnd" => n <= MaxPieces
      /\ op \notin {"read", "readToEnd"} => n = 0
      /\ n <= taken[st] /\ \A i \in 1 .. n : out[i] = taken[st] - n + i
      /\ holder[c] \in Results(op)
  BY <1>1, <1>2, <1>3, <1>4, <1>5, <1>6, <1>7 DEF WorkerInv, ReadSoFar
<1>9. /\ Tasks \in Seq(Callers) /\ Tasks # <<>>
      /\ Head(Tasks) = c /\ Tail(Tasks) = queue /\ Tasks' = queue
  BY <1>1, <1>2, <1>3, <1>4, TasksFacts DEF Tasks, WorkerInv
<1>10. /\ DOMAIN Tasks = 1 .. Len(Tasks) /\ DOMAIN queue = 1 .. Len(queue)
       /\ Len(Tasks) = Len(queue) + 1 /\ Len(queue) \in Nat /\ Tasks[1] = c
       /\ \A i \in 1 .. Len(queue) : queue[i] = Tasks[i + 1]
  <2>1. queue \in Seq(Callers) /\ Len(queue) \in Nat /\ Len(Tasks) \in Nat
    BY <1>1, <1>9, LenProperties DEF TypeOK
  <2>2. Len(Tail(Tasks)) = Len(Tasks) - 1 /\ Head(Tasks) = Tasks[1]
        /\ \A i \in 1 .. Len(Tasks) - 1 : Tail(Tasks)[i] = Tasks[i + 1]
    BY <1>9, HeadTailProperties
  <2>3. Len(Tasks) = Len(queue) + 1  BY <2>1, <2>2, <1>9
  <2>4. QED  BY <2>1, <2>2, <2>3, <1>9, LenProperties
<1>11. \A i \in DOMAIN queue : i + 1 \in DOMAIN Tasks /\ queue[i] = Tasks[i + 1]
  BY <1>10
<1>12. \A i \in DOMAIN queue : queue[i] # c
  BY <1>10, <1>11, <1>1 DEF WaitingHaveATask
<1>13. WaitingHaveATask'
  <2>1. ASSUME NEW d \in Callers
        PROVE  status'[d] = "suspended" <=> \E i \in DOMAIN queue : queue[i] = d
    <3>1. CASE d = c
      BY <3>1, <1>1, <1>2, <1>4, <1>12 DEF TypeOK
    <3>2. CASE d # c
      <4>1. status'[d] = status[d]  BY <3>2, <1>1, <1>2, <1>4 DEF TypeOK
      <4>2. (\E i \in DOMAIN Tasks : Tasks[i] = d) => \E i \in DOMAIN queue : queue[i] = d
        <5>1. SUFFICES ASSUME NEW i \in DOMAIN Tasks, Tasks[i] = d
                       PROVE  \E j \in DOMAIN queue : queue[j] = d
          OBVIOUS
        <5>2. i # 1 /\ i - 1 \in DOMAIN queue  BY <3>2, <5>1, <1>10
        <5>3. queue[i - 1] = Tasks[i]  BY <5>2, <1>10
        <5>4. QED  BY <5>1, <5>2, <5>3
      <4>3. (\E i \in DOMAIN queue : queue[i] = d) => \E i \in DOMAIN Tasks : Tasks[i] = d
        BY <1>11
      <4>4. QED  BY <4>1, <4>2, <4>3, <1>1 DEF WaitingHaveATask
    <3>3. QED  BY <3>1, <3>2
  <2>2. ASSUME NEW i \in DOMAIN queue, NEW j \in DOMAIN queue, queue[i] = queue[j]
        PROVE  i = j
    <3>1. i + 1 = j + 1  BY <2>2, <1>1, <1>11 DEF WaitingHaveATask
    <3>2. QED  BY <3>1, <1>10
  <2>3. QED  BY <2>1, <2>2, <1>9 DEF WaitingHaveATask
<1>14. WorkerInv'  BY <1>2, <1>3 DEF WorkerInv
<1>15. holder[c].kind # "none"
  <2>1. CASE op = "read" /\ out = <<>>  BY <2>1, <1>8 DEF Results
  <2>2. CASE (op = "read" /\ out # <<>>) \/ op = "readToEnd"
    <3>1. holder[c].kind \in {"data", "throw"}  BY <2>2, <1>8 DEF Results, Outcome
    <3>2. QED  BY <3>1
  <2>3. CASE op \notin {"read", "readToEnd"}
    <3>1. holder[c] \in [kind : {"void", "throw"}, data : {<<>>}]
      BY <2>3, <1>8 DEF Results
    <3>2. QED  BY <3>1
  <2>4. QED  BY <2>1, <2>2, <2>3
<1>16. \A d \in Callers : status'[d] = "resumed" => holder'[d].kind # "none"
  BY <1>1, <1>2, <1>4, <1>15 DEF IInv, TypeOK
<1>17. IInv'  BY <1>13, <1>14, <1>16 DEF IInv
<1>18. Answers' = [Answers EXCEPT ![c] = holder[c]]
  BY <1>1, <1>2, <1>4 DEF Answers, TypeOK
<1>19. Delivered[st] = taken[st] - n  BY <1>3, <1>6, <1>7 DEF Delivered
<1>20. Delivered' = [Delivered EXCEPT ![st] = @ + n]
  <2>1. ASSUME NEW s \in Streams
        PROVE  Delivered'[s] = [Delivered EXCEPT ![st] = @ + n][s]
    <3>1. taken[s] \in Nat  BY <1>1 DEF TypeOK
    <3>2. Delivered'[s] = taken[s]  BY <1>2, <1>3 DEF Delivered
    <3>3. CASE s = st
      BY <3>1, <3>2, <3>3, <1>19 DEF Delivered
    <3>4. CASE s # st
      BY <3>2, <3>4, <1>3, <1>6 DEF Delivered
    <3>5. QED  BY <3>3, <3>4
  <2>2. QED  BY <2>1 DEF Delivered
<1>21. out = Abs!Pieces(st, n)
  <2>1. out \in Seq(Nat) /\ DOMAIN out = 1 .. n  BY <1>1, <1>7, LenProperties DEF TypeOK
  <2>2. Abs!Pieces(st, n) = [i \in 1 .. n |-> taken[st] - n + i]
    BY <1>19 DEF Abs!Pieces, Delivered
  <2>3. QED  BY <2>1, <2>2, <1>8
<1>22. holder[c] \in Abs!Outcomes(op, st, n)
  <2>1. CASE op = "read" /\ out = <<>>
    <3>1. n = 0  BY <2>1, <1>7
    <3>2. QED  BY <2>1, <3>1, <1>8 DEF Abs!Outcomes, Results
  <2>2. CASE op = "read" /\ out # <<>>
    <3>1. n = 1
      <4>1. out \in Seq(Nat)  BY <1>1 DEF TypeOK
      <4>2. n # 0  BY <4>1, <2>2, <1>7, EmptySeq
      <4>3. QED  BY <4>2, <2>2, <1>8
    <3>2. holder[c] = [kind |-> "data", data |-> out]  BY <2>2, <1>8 DEF Results
    <3>3. QED  BY <2>2, <3>1, <3>2, <1>21 DEF Abs!Outcomes
  <2>3. CASE op = "readToEnd"
    <3>1. \/ holder[c] = [kind |-> "data", data |-> out]
          \/ holder[c] = [kind |-> "throw", data |-> <<>>]
      BY <2>3, <1>8 DEF Results, Outcome
    <3>2. QED  BY <2>3, <3>1, <1>21 DEF Abs!Outcomes
  <2>4. CASE op \notin {"read", "readToEnd"}
    BY <2>4, <1>8 DEF Abs!Outcomes, Results
  <2>5. QED  BY <2>1, <2>2, <2>3, <2>4
<1>23. n \in 0 .. MaxPieces  BY <1>8, AsyncAssumptions
<1>24. n > 0 => op = "readToEnd" \/ (op = "read" /\ n = 1)  BY <1>8
<1>25. Abs!Answer(n)
  <2>1. st = asked[c].st  BY <1>4, <1>6 DEF Stream
  <2>2. QED
    BY <1>2, <1>5, <1>9, <1>18, <1>20, <1>22, <1>24, <2>1
       DEF Abs!Answer, Answers, Delivered, HolderOf
<1>26. QED  BY <1>17, <1>23, <1>25

-----------------------------------------------------------------------------
(* Every step keeps the invariant, and is a step of AsyncCalls or none.    *)
LEMMA Step ==
  ASSUME IInv, [Next]_vars
  PROVE  IInv' /\ [Abs!Next]_(Abs!vars)
<1>1. TypeOK /\ WorkerInv  BY DEF IInv
<1>2. TypeOK'  BY <1>1, TypeStep DEF WorkerInv
<1>3. ASSUME UNCHANGED <<status, asked, holder, out, taken, queue, running, wpc>>
      PROVE  IInv' /\ UNCHANGED Abs!vars
  BY <1>1, <1>2, <1>3, QuietStep DEF Tasks, InTask, WorkerInv
<1>4. CASE UNCHANGED vars
  BY <1>3, <1>4 DEF vars, callVars, workVars, peerVars
<1>5. ASSUME NEW c \in Callers, NEW op \in Ops, NEW st \in Streams, Ask(c, op, st)
      PROVE  IInv' /\ Abs!Next
  BY <1>2, <1>5, AskStep DEF Abs!Next, Ops, Abs!Ops
<1>6. ASSUME NEW c \in Callers, Return(c)  PROVE IInv' /\ Abs!Next
  BY <1>2, <1>6, ReturnStep DEF Abs!Next
<1>7. CASE TakeTask  BY <1>2, <1>7, TakeTaskStep
<1>8. CASE RunRead  BY <1>2, <1>8, RunReadStep
<1>9. CASE RunReadToEnd  BY <1>2, <1>9, RunReadToEndStep
<1>10. CASE RunCreate \/ RunWrite \/ RunClose  BY <1>2, <1>10, OtherRunStep
<1>11. CASE Resume
  <2>1. PICK n \in 0 .. MaxPieces : Abs!Answer(n)  BY <1>2, <1>11, ResumeStep
  <2>2. Abs!Next  BY <2>1 DEF Abs!Next
  <2>3. QED  BY <1>2, <1>11, <2>2, ResumeStep
<1>12. CASE TaskReturns
  <2>1. /\ UNCHANGED <<status, asked, holder, out, taken, queue>>
        /\ wpc = "return" /\ wpc' = "idle"
    BY <1>12 DEF TaskReturns, callVars, peerVars
  <2>2. ~InTask /\ ~InTask' /\ Tasks' = Tasks  BY <2>1 DEF InTask, Tasks
  <2>3. QED  BY <1>2, <2>1, <2>2, QuietStep
<1>13. ASSUME NEW st \in Streams,
              DropStream(st) \/ Server(st) \/ PeerFallsSilent(st) \/ ConnectionBreaks(st)
       PROVE  IInv' /\ UNCHANGED Abs!vars
  BY <1>3, <1>13
     DEF DropStream, Server, ServerAnswers, ServerCloses, PeerFallsSilent, ConnectionBreaks,
         callVars, workVars, peerVars
<1>14. QED
  BY <1>4, <1>5, <1>6, <1>7, <1>8, <1>9, <1>10, <1>11, <1>12, <1>13 DEF Next, Worker

LEMMA Start ==
  ASSUME Init
  PROVE  IInv /\ Abs!Init
<1>1. ~InTask /\ Tasks = <<>>  BY DEF Init, InTask, Tasks
<1>2. TypeOK  BY EmptySeq DEF Init, TypeOK, None, Abs!Kinds, Ops
<1>3. WaitingHaveATask /\ WorkerInv  BY <1>1, EmptySeq DEF Init, WaitingHaveATask, WorkerInv
<1>4. IInv  BY <1>2, <1>3 DEF Init, IInv
<1>5. Answers = [c \in Callers |-> None] /\ Delivered = [st \in Streams |-> 0]
  BY <1>1 DEF Init, Answers, Delivered
<1>6. Abs!Init
  BY <1>1, <1>2, <1>5
     DEF Abs!Init, Answers, Delivered, HolderOf, None, Abs!None, TypeOK, Ops, Abs!Ops
<1>7. QED  BY <1>4, <1>6

-----------------------------------------------------------------------------
(* The invariant holds of every reachable state.                           *)
THEOREM Invariance == Spec => []IInv
<1>1. Init => IInv  BY Start
<1>2. IInv /\ [Next]_vars => IInv'  BY Step
<1>3. QED  BY <1>1, <1>2, PTL DEF Spec

(* The variables of callers, tasks, holders and streams keep their types.  *)
THEOREM TypeCorrect == Spec => []TypeOK
<1>1. IInv => TypeOK  BY DEF IInv
<1>2. QED  BY <1>1, Invariance, PTL

(* Nobody waits without a task, and no task runs for a caller that does    *)
(* not wait, in any interleaving of callers and worker.                    *)
THEOREM WaitersHaveTasks == Spec => []WaitingHaveATask
<1>1. IInv => WaitingHaveATask  BY DEF IInv
<1>2. QED  BY <1>1, Invariance, PTL

(* The stream's calls, tasks, holders and resumptions implement one effect *)
(* per call, in order, each answered to its own caller; no data is read    *)
(* twice or out of order, and what is lost is what a readToEndAsync that   *)
(* threw had read.                                                         *)
THEOREM Promise == Spec => KeepsThePromise
<1>1. Init => Abs!Init  BY Start
<1>2. IInv /\ [Next]_vars => [Abs!Next]_(Abs!vars)  BY Step
<1>3. QED  BY <1>1, <1>2, Invariance, PTL DEF Spec, KeepsThePromise, Abs!Spec

=============================================================================
