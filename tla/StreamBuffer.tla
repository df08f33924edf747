---------------------------- MODULE StreamBuffer ----------------------------
(***************************************************************************)
(* The byte array read and write are given: the bounds check in front of   *)
(* SSL_read and SSL_write, with the widths of its integers, the `int` that *)
(* OpenSSL is handed, and the reference that keeps the array alive while   *)
(* OpenSSL works on it.  The three OpenSSL back ends share this code.      *)
(*                                                                         *)
(* Arrays belong to the program: its threads share and drop them at any    *)
(* time, and the address of a freed one is given to a new one of another   *)
(* size.  The count is the AmLang runtime's, taken to be atomic.           *)
(***************************************************************************)
EXTENDS Integers, FiniteSets

CONSTANTS
  Threads,      \* threads of the program
  Buffers,      \* addresses of arrays
  Word,         \* how many values an unsigned int has, 2^32 in the code
  Wide,         \* how many an unsigned long long has, 2^64
  Sizes,        \* sizes of arrays
  Offsets,      \* the Long offsets and
  Lengths,      \* the UInt lengths calls are made with
  MaxVars       \* bound: references the program holds to one array

ASSUME BufferAssumptions ==
  /\ IsFiniteSet(Threads)
  /\ Word \in Nat \ {0} /\ Wide \in Nat /\ 2 * Word <= Wide
  /\ Sizes \subseteq 0 .. Word - 1 /\ Lengths \subseteq 0 .. Word - 1
  /\ Offsets \subseteq Int /\ \A o \in Offsets : -Wide <= 2 * o /\ 2 * o < Wide
  /\ MaxVars \in Nat \ {0}

VARIABLES
  pc,           \* each thread's next step: "idle", an OpenSSL call or "leave"
  args,         \* the arguments of its call
  refused,      \* its call threw "... length is bigger than array"
  size,         \* array_holder.size
  refs,         \* the reference count; 0 when the address is free
  vars          \* how many of them are the program's variables

bufVars == <<size, refs, vars>>
allVars == <<pc, args, refused, bufVars>>

InSSL == {"SSL_read", "SSL_write"}
Args == [buffer : Buffers, offset : Offsets, length : Lengths]

Init ==
  /\ pc = [t \in Threads |-> "idle"]
  /\ args \in [Threads -> Args]
  /\ refused = [t \in Threads |-> FALSE]
  /\ size = [b \in Buffers |-> 0]
  /\ refs = [b \in Buffers |-> 0]
  /\ vars = [b \in Buffers |-> 0]

-----------------------------------------------------------------------------
(* The program's arrays.                                                   *)

New(b, n) ==
  /\ refs[b] = 0
  /\ size' = [size EXCEPT ![b] = n]
  /\ refs' = [refs EXCEPT ![b] = 1]
  /\ vars' = [vars EXCEPT ![b] = 1]
  /\ UNCHANGED <<pc, args, refused>>

Share(b) ==
  /\ vars[b] \in 1 .. MaxVars - 1
  /\ refs' = [refs EXCEPT ![b] = @ + 1]
  /\ vars' = [vars EXCEPT ![b] = @ + 1]
  /\ UNCHANGED <<pc, args, refused, size>>

(* The last reference frees the array.                                     *)
Drop(b) ==
  /\ vars[b] > 0
  /\ refs' = [refs EXCEPT ![b] = @ - 1]
  /\ vars' = [vars EXCEPT ![b] = @ - 1]
  /\ UNCHANGED <<pc, args, refused, size>>

-----------------------------------------------------------------------------
(* read_0 and write_0.  (Definitions whose names continue another's are    *)
(* wrong variants no action uses.)                                         *)

(* Conversion to an unsigned long long, and from unsigned int to int.      *)
Wrap(x) == IF x < 0 THEN x + Wide ELSE IF x >= Wide THEN x - Wide ELSE x
AsInt(l) == IF 2 * l >= Word THEN l - Word ELSE l

(* (unsigned long long) offset + length > size                             *)
TooLongInAWord(a) == (Wrap(a.offset) + a.length) % Word > size[a.buffer]
TooLongAtTheEnd(a) == Wrap(Wrap(a.offset) + a.length) >= size[a.buffer]
TooLong(a) == Wrap(Wrap(a.offset) + a.length) > size[a.buffer]

RefsInCallUncounted(b) == refs
RefsInCall(b) == [refs EXCEPT ![b] = @ + 1]

BeginCall(t, a, l) ==
  /\ pc[t] = "idle" /\ vars[a.buffer] > 0
  /\ refs' = RefsInCall(a.buffer)
  /\ args' = [args EXCEPT ![t] = a]
  /\ refused' = [refused EXCEPT ![t] = TooLong(a)]
  /\ pc' = [pc EXCEPT ![t] = IF TooLong(a) THEN "leave" ELSE l]
  /\ UNCHANGED <<size, vars>>

(* Data, end of stream or an error.                                        *)
SslCallReturns(t) ==
  /\ pc[t] \in InSSL
  /\ pc' = [pc EXCEPT ![t] = "leave"]
  /\ UNCHANGED <<args, refused, bufVars>>

(* __exit, on the way of the exception too.                                *)
RefsAfterCallUnlessThrown(t) ==
  IF refused[t] THEN refs ELSE [refs EXCEPT ![args[t].buffer] = @ - 1]
RefsAfterCall(t) == [refs EXCEPT ![args[t].buffer] = @ - 1]

LeaveCall(t) ==
  /\ pc[t] = "leave"
  /\ refs' = RefsAfterCall(t)
  /\ pc' = [pc EXCEPT ![t] = "idle"]
  /\ UNCHANGED <<args, refused, size, vars>>

-----------------------------------------------------------------------------
Next ==
  \/ \E b \in Buffers : Share(b) \/ Drop(b) \/ \E n \in Sizes : New(b, n)
  \/ \E t \in Threads :
       \/ \E a \in Args, l \in InSSL : BeginCall(t, a, l)
       \/ SslCallReturns(t) \/ LeaveCall(t)

Spec == Init /\ [][Next]_allVars

-----------------------------------------------------------------------------
TypeOK ==
  /\ pc \in [Threads -> {"idle", "leave"} \cup InSSL]
  /\ args \in [Threads -> Args]
  /\ refused \in [Threads -> BOOLEAN]
  /\ size \in [Buffers -> 0 .. Word - 1]
  /\ refs \in [Buffers -> Nat]
  /\ vars \in [Buffers -> 0 .. MaxVars]

(* With an offset that is not negative, all OpenSSL may read or write lies *)
(* in an array that has not been freed, nor its address given to another,  *)
(* however long the call waits and whoever drops the array meanwhile       *)
(* (SslSocketStream.c:168-181 of the libc back end).                       *)
TransfersStayInside ==
  \A t \in Threads :
    LET a == args[t] IN
    pc[t] \in InSSL /\ a.offset >= 0 =>
      /\ refs[a.buffer] > 0
      /\ a.offset + a.length <= size[a.buffer]

(* The check refuses no transfer that fits, up to the last byte.           *)
RefusedDoesNotFit ==
  \A t \in Threads :
    LET a == args[t] IN
    pc[t] = "leave" /\ refused[t] /\ a.offset >= 0 =>
      a.offset + a.length > size[a.buffer]

(* The length arrives in OpenSSL's int as it is unless the array has 2^31  *)
(* bytes: what readAsync makes of a negative Int does not pass the check   *)
(* (AsyncSecureSocketStream.aml:103).                                      *)
LengthArrivesUnchanged ==
  \A t \in Threads :
    LET a == args[t] IN
    pc[t] \in InSSL /\ a.offset >= 0 /\ 2 * size[a.buffer] < Word =>
      AsInt(a.length) = a.length

(* An array is kept only by the program's variables and running calls: no  *)
(* call leaves its reference behind, one that threw included.              *)
NoReferenceIsLost ==
  \A b \in Buffers :
    refs[b] > 0 => vars[b] > 0 \/ \E t \in Threads : pc[t] # "idle" /\ args[t].buffer = b

-----------------------------------------------------------------------------
(* The inductive invariant: the count is the variables and the calls, and  *)
(* a call past the check still has the array it was checked against.       *)
Calls(b) == {t \in Threads : pc[t] # "idle" /\ args[t].buffer = b}

CountInv == \A b \in Buffers : refs[b] = vars[b] + Cardinality(Calls(b))

CheckedInv ==
  \A t \in Threads :
    /\ pc[t] \in InSSL => ~TooLong(args[t]) /\ ~refused[t]
    /\ pc[t] = "leave" /\ refused[t] => TooLong(args[t])

IInv == TypeOK /\ CountInv /\ CheckedInv

=============================================================================
