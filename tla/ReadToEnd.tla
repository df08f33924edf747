----------------------------- MODULE ReadToEnd -----------------------------
(***************************************************************************)
(* The drain loop of AsyncSecureSocketStream.readToEndAsync, byte by byte: *)
(* it reads into one chunk buffer again and again, converts what SSL_read  *)
(* put there, and stops at n <= 0, at maxBytes or at an exception.         *)
(*                                                                         *)
(* The loop runs whole inside one IO task, so only the peer runs beside    *)
(* it.  The chunk (4096 bytes in the code) and the data are small here;    *)
(* SSL_read may return any part of what has arrived.                       *)
(*                                                                         *)
(* SslSocketStream.read is declared UInt and returns the int -1 of a       *)
(* failed SSL_read (SslSocketStream.aml:13, libc SslSocketStream.c:181).   *)
(* Whether n <= 0 then sees -1 or the largest UInt is up to the AmLang     *)
(* compiler; both are modelled.                                            *)
(***************************************************************************)
EXTENDS Integers, Sequences

CONSTANTS
  ChunkSize,    \* chunk.length()
  MaxBytes,     \* the argument maxBytes
  UIntRange,    \* how many numbers a UInt has (2^32)
  Data          \* what the peer would send, a sequence of bytes

UByte == 0 .. 255
Byte  == -128 .. 127

ASSUME DrainAssumptions ==
  /\ ChunkSize \in Nat \ {0}
  /\ MaxBytes \in Nat
  /\ UIntRange \in Nat /\ UIntRange - 1 > ChunkSize
  /\ Data \in Seq(UByte)

VARIABLES
  chunk,        \* Byte[]: signed, indexed from 1 here
  out,          \* the List<UByte> the result is made from
  totalRead,
  n,            \* what the last read returned
  pc,           \* "read", "copy", "done" with a result, or "thrown"
  i,            \* index of the copy loop
  arrived,      \* bytes the peer has sent
  peer,         \* "up", "closed" or "broken"
  asInt         \* whether a read's int comes through UInt as it was

vars == <<chunk, out, totalRead, n, pc, i, arrived, peer, asInt>>

Smaller(x, y) == IF x < y THEN x ELSE y

(* A byte read as a signed Byte, and the code's way back to a UByte.       *)
SignedNot(b) == b
Signed(b) == IF b > 127 THEN b - 256 ELSE b
ToUByteUnmasked(b) == b
ToUByte(b) == b % 256

Init ==
  /\ chunk = [k \in 1 .. ChunkSize |-> 0]
  /\ out = <<>> /\ totalRead = 0 /\ n = 0 /\ i = 0
  /\ pc = "read"
  /\ arrived = 0 /\ peer = "up"
  /\ asInt \in BOOLEAN

-----------------------------------------------------------------------------
(* SSL_read copies 1 .. ChunkSize of the bytes that are there.             *)
ReadData ==
  /\ pc = "read"
  /\ \E k \in 1 .. Smaller(ChunkSize, arrived - totalRead) :
       /\ chunk' = [j \in 1 .. ChunkSize |->
                      IF j <= k THEN Signed(Data[totalRead + j]) ELSE chunk[j]]
       /\ n' = k
  /\ i' = 0
  /\ pc' = "copy"
  /\ UNCHANGED <<out, totalRead, arrived, peer, asInt>>

(* 0 once everything has been read after a clean close.                   *)
ReadEnds ==
  /\ pc = "read"
  /\ peer = "closed" /\ totalRead = arrived
  /\ n' = 0
  /\ pc' = "done"
  /\ UNCHANGED <<chunk, out, totalRead, i, arrived, peer, asInt>>

(* -1 on an error, with the chunk as it was: n <= 0 ends the loop, the     *)
(* largest UInt starts a copy.                                             *)
ErrorCode == IF asInt THEN -1 ELSE UIntRange - 1
ReadFails ==
  /\ pc = "read"
  /\ peer = "broken"
  /\ n' = ErrorCode /\ i' = 0
  /\ pc' = IF n' <= 0 THEN "done" ELSE "copy"
  /\ UNCHANGED <<chunk, out, totalRead, arrived, peer, asInt>>

CopyByte ==
  /\ pc = "copy" /\ i < n /\ i < ChunkSize
  /\ out' = Append(out, ToUByte(chunk[i + 1]))
  /\ i' = i + 1
  /\ UNCHANGED <<chunk, totalRead, n, pc, arrived, peer, asInt>>

(* AmLang checks array indices: the read of chunk[ChunkSize] throws.       *)
IndexThrow ==
  /\ pc = "copy" /\ i < n /\ i = ChunkSize
  /\ pc' = "thrown"
  /\ UNCHANGED <<chunk, out, totalRead, n, i, arrived, peer, asInt>>

(* read, out.add or toArray throws, for want of memory: the catch block    *)
(* leaves the holder without a result.                                     *)
Throw ==
  /\ pc \in {"read", "copy"}
  /\ pc' = "thrown"
  /\ UNCHANGED <<chunk, out, totalRead, n, i, arrived, peer, asInt>>

(* The end of a turn: stop at maxBytes, otherwise read again.  (Definitions*)
(* whose names continue another's are wrong variants no action uses.)      *)
EnoughChunks(total) == total >= MaxBytes * ChunkSize
EnoughExactly(total) == total = MaxBytes
Enough(total) == total >= MaxBytes

EndTurn ==
  /\ pc = "copy" /\ i >= n
  /\ totalRead' = totalRead + n
  /\ pc' = IF Enough(totalRead + n) THEN "done" ELSE "read"
  /\ UNCHANGED <<chunk, out, n, i, arrived, peer, asInt>>

-----------------------------------------------------------------------------
(* The peer.                                                               *)
PeerSends ==
  /\ peer = "up" /\ arrived < Len(Data)
  /\ arrived' = arrived + 1
  /\ UNCHANGED <<chunk, out, totalRead, n, pc, i, peer, asInt>>

PeerStops ==
  /\ peer = "up"
  /\ peer' \in {"closed", "broken"}
  /\ UNCHANGED <<chunk, out, totalRead, n, pc, i, arrived, asInt>>

Drain == ReadData \/ ReadEnds \/ ReadFails \/ CopyByte \/ IndexThrow \/ EndTurn

Next == Drain \/ Throw \/ PeerSends \/ PeerStops

Spec == Init /\ [][Next]_vars

(* The IO worker runs; the peer may fall silent at any time, and no        *)
(* exception has to come.                                                  *)
FairSpec == Spec /\ WF_vars(Drain)

-----------------------------------------------------------------------------
TypeOK ==
  /\ chunk \in [1 .. ChunkSize -> Byte]
  /\ out \in Seq(Int)
  /\ totalRead \in Nat /\ n \in Int /\ i \in Nat
  /\ pc \in {"read", "copy", "done", "thrown"}
  /\ arrived \in 0 .. Len(Data)
  /\ peer \in {"up", "closed", "broken"}
  /\ asInt \in BOOLEAN

(* The bytes handed out are the peer's, from the first on, with no stale   *)
(* byte of an earlier turn and no sign lost in Byte[]                      *)
(* (AsyncSecureSocketStream.aml:173-176); whatever the -1 of a broken      *)
(* connection is taken for, what it makes the loop copy is not handed out. *)
OutIsWhatThePeerSent ==
  pc = "done" => /\ Len(out) <= arrived
                 /\ \A k \in DOMAIN out : out[k] = Data[k]

(* Memory stays bounded: the cap is passed by less than one chunk, also on *)
(* the way to an exception.                                                *)
OvershootsByLessThanAChunk ==
  MaxBytes > 0 => Len(out) < MaxBytes + ChunkSize

(* A peer that has sent enough ends the drain, also if it never closes     *)
(* (AsyncSecureSocketStream.aml:147-149).                                  *)
CapEndsTheDrain == (arrived >= MaxBytes) ~> (pc \in {"done", "thrown"})

(* What the turns that have ended add up to.                               *)
Result == [k \in 1 .. totalRead |-> out[k]]

Abs == INSTANCE BoundedDrain WITH
  Piece <- ChunkSize, Cap <- MaxBytes,
  sent <- arrived, line <- peer,
  result <- IF pc = "thrown" THEN <<>> ELSE Result,
  state <- IF pc = "copy" THEN "read" ELSE pc

(* Seen turn by turn, the loop with its one chunk buffer, its copying and  *)
(* its ways to stop drains the connection in order, hands out all or       *)
(* nothing of what it read, and returns at the cap or the end and for no   *)
(* other reason (AsyncSecureSocketStream.aml:167-186).                     *)
ImplementsBoundedDrain == Abs!Spec

-----------------------------------------------------------------------------
(* The inductive invariant: what each label says of counters and chunk.    *)
Misread == n > ChunkSize

Counters ==
  /\ totalRead <= arrived /\ totalRead <= Len(out)
  /\ OvershootsByLessThanAChunk
  /\ pc \in {"read", "copy"} => totalRead = 0 \/ totalRead < MaxBytes
  /\ pc \in {"read", "done"} => Len(out) = totalRead
  /\ pc = "copy" => /\ i \in 0 .. ChunkSize /\ Len(out) = totalRead + i
                    /\ ~Misread => n \in i .. ChunkSize /\ n > 0 /\ totalRead + n <= arrived

Contents ==
  /\ \A k \in 1 .. totalRead : out[k] = Data[k]
  /\ pc = "copy" /\ ~Misread =>
       /\ \A j \in 1 .. n : chunk[j] = Signed(Data[totalRead + j])
       /\ \A k \in 1 .. Len(out) : out[k] = Data[k]

Inv == TypeOK /\ Counters /\ Contents

=============================================================================
