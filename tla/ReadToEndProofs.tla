-------------------------- MODULE ReadToEndProofs --------------------------
(* The drain loop is right for every chunk size, cap and data.             *)
EXTENDS ReadToEnd, SequenceTheorems, TLAPS

(* A byte survives being read as a signed Byte and masked.                 *)
LEMMA ByteRoundTrip == ASSUME NEW b \in UByte PROVE ToUByte(Signed(b)) = b
BY DEF ToUByte, Signed, UByte

LEMMA UByteIsInt == ASSUME NEW b \in UByte PROVE b \in Int
BY DEF UByte

LEMMA SignedType == ASSUME NEW b \in UByte PROVE Signed(b) \in Byte
BY DEF Signed, UByte, Byte

LEMMA DataType == Len(Data) \in Nat /\ \A k \in 1 .. Len(Data) : Data[k] \in UByte
BY DrainAssumptions, ElementOfSeq

(* The numbers the labels speak of.                                        *)
LEMMA Numbers ==
  TypeOK => /\ totalRead \in Nat /\ n \in Int /\ i \in Nat /\ Len(out) \in Nat
            /\ arrived \in Nat /\ arrived <= Len(Data)
            /\ ChunkSize \in Nat \ {0} /\ MaxBytes \in Nat /\ Len(Data) \in Nat
            /\ UIntRange \in Nat /\ UIntRange - 1 > ChunkSize
BY DrainAssumptions, DataType DEF TypeOK

(* One SSL_read fills the front of the chunk with the next bytes.          *)
LEMMA ReadDataStep == Inv /\ ReadData => Inv'
<1> SUFFICES ASSUME Inv, ReadData PROVE Inv'
  OBVIOUS
<1> USE DEF Inv, TypeOK, Counters, OvershootsByLessThanAChunk, Misread
<1>1. PICK m \in 1 .. Smaller(ChunkSize, arrived - totalRead) :
        /\ chunk' = [j \in 1 .. ChunkSize |->
                       IF j <= m THEN Signed(Data[totalRead + j]) ELSE chunk[j]]
        /\ n' = m
  BY DEF ReadData
<1>2. m \in 1 .. ChunkSize /\ totalRead + m <= arrived
  BY <1>1, DrainAssumptions DEF Smaller
<1>3. ASSUME NEW j \in 1 .. m PROVE Signed(Data[totalRead + j]) \in Byte
  <2>1. totalRead + j \in 1 .. Len(Data)
    BY <1>2, DrainAssumptions, DataType
  <2>2. QED
    BY <2>1, DataType, SignedType
<1>4. chunk' \in [1 .. ChunkSize -> Byte]
  <2>1. ASSUME NEW j \in 1 .. ChunkSize
        PROVE  (IF j <= m THEN Signed(Data[totalRead + j]) ELSE chunk[j]) \in Byte
    <3>1. CASE j <= m
      <4>1. j \in 1 .. m
        BY <1>2, <3>1
      <4>2. QED
        BY <1>3, <3>1, <4>1
    <3>2. CASE ~(j <= m)
      BY <3>2
    <3>3. QED
      BY <3>1, <3>2
  <2>2. QED
    BY <1>1, <2>1
<1>5. \A j \in 1 .. m : chunk'[j] = Signed(Data[totalRead + j])
  BY <1>1, <1>2, DrainAssumptions
<1>6. TypeOK'
  BY <1>1, <1>2, <1>4, DrainAssumptions DEF ReadData
<1>7. Counters'
  BY <1>1, <1>2, DrainAssumptions DEF ReadData
<1>8. Contents'
  BY <1>1, <1>5 DEF ReadData, Contents
<1>9. QED
  BY <1>6, <1>7, <1>8

(* An error code has nothing to copy: -1 ends the loop, the largest UInt   *)
(* is past every chunk.                                                    *)
LEMMA ReadFailsStep == Inv /\ ReadFails => Inv'
<1> SUFFICES ASSUME Inv, ReadFails PROVE Inv'
  OBVIOUS
<1>1. /\ pc = "read" /\ n' \in Int /\ i' = 0
      /\ UNCHANGED <<chunk, out, totalRead, arrived, peer, asInt>>
      /\ \/ pc' = "done"
         \/ pc' = "copy" /\ n' > ChunkSize
  BY Numbers DEF ReadFails, ErrorCode, Inv
<1>2. TypeOK'  BY <1>1 DEF Inv, TypeOK
<1>3. Counters'
  BY <1>1, Numbers DEF Inv, Counters, OvershootsByLessThanAChunk, Misread
<1>4. Contents'
  BY <1>1 DEF Inv, Contents, Misread
<1>5. QED  BY <1>2, <1>3, <1>4 DEF Inv

(* One turn of the copy loop appends the next byte of the chunk: the next  *)
(* of the peer, unless an error code is taken for a length.                *)
LEMMA CopyByteStep == Inv /\ CopyByte => Inv'
<1> SUFFICES ASSUME Inv, CopyByte PROVE Inv'
  OBVIOUS
<1>0. /\ totalRead \in Nat /\ n \in Int /\ i \in Nat /\ Len(out) \in Nat
      /\ arrived \in Nat /\ arrived <= Len(Data)
      /\ ChunkSize \in Nat /\ MaxBytes \in Nat /\ Len(Data) \in Nat
  BY Numbers DEF Inv
<1>1. /\ pc = "copy" /\ pc' = "copy" /\ i < n /\ i + 1 \in 1 .. ChunkSize /\ i' = i + 1
      /\ out' = Append(out, ToUByte(chunk[i + 1]))
      /\ UNCHANGED <<chunk, totalRead, n, arrived, peer, asInt>>
      /\ Len(out) = totalRead + i /\ totalRead <= Len(out)
      /\ totalRead = 0 \/ totalRead < MaxBytes
      /\ Misread' <=> Misread
  BY <1>0 DEF CopyByte, Inv, Counters, Misread
<1>2. ToUByte(chunk[i + 1]) \in Int
  <2>1. chunk[i + 1] \in Byte  BY <1>1 DEF Inv, TypeOK
  <2>2. chunk[i + 1] \in Int  BY <2>1 DEF Byte
  <2>3. QED  BY <2>2 DEF ToUByte
<1>3. /\ out' \in Seq(Int) /\ Len(out') = Len(out) + 1
      /\ \A k \in 1 .. Len(out) : out'[k] = out[k]
      /\ out'[Len(out) + 1] = ToUByte(chunk[i + 1])
  BY <1>1, <1>2 DEF Inv, TypeOK
<1>4. TypeOK'
  BY <1>1, <1>3 DEF Inv, TypeOK
<1>5. Counters'
  <2>1. ~Misread => n \in i + 1 .. ChunkSize /\ n > 0 /\ totalRead + n <= arrived
    BY <1>1, <1>0 DEF Inv, Counters, Misread
  <2>2. OvershootsByLessThanAChunk'
    BY <1>1, <1>3, <1>0 DEF OvershootsByLessThanAChunk
  <2>3. QED
    BY <1>1, <1>3, <2>1, <2>2, <1>0 DEF Inv, Counters
<1>6. Contents'
  <2>1. \A k \in 1 .. totalRead : out'[k] = Data[k]
    BY <1>1, <1>3, <1>0 DEF Inv, Contents
  <2>2. ASSUME ~Misread  PROVE \A k \in 1 .. Len(out') : out'[k] = Data[k]
    <3>1. /\ i + 1 \in 1 .. n /\ Len(out) + 1 \in 1 .. Len(Data)
          /\ totalRead + (i + 1) = Len(out) + 1
      BY <1>1, <2>2, <1>0 DEF Inv, Counters, Misread
    <3>2. chunk[i + 1] = Signed(Data[Len(out) + 1])
      BY <3>1, <1>1, <2>2 DEF Inv, Contents
    <3>3. out'[Len(out) + 1] = Data[Len(out) + 1]
      BY <3>1, <3>2, <1>3, DataType, ByteRoundTrip
    <3>4. \A k \in 1 .. Len(out) : out'[k] = Data[k]
      BY <1>1, <1>3, <2>2 DEF Inv, Contents
    <3>5. ASSUME NEW k \in 1 .. Len(out')  PROVE out'[k] = Data[k]
      <4>1. k \in 1 .. Len(out) \/ k = Len(out) + 1  BY <1>0, <1>3
      <4>2. QED  BY <4>1, <3>3, <3>4
    <3>6. QED  BY <3>5
  <2>3. QED
    BY <2>1, <2>2, <1>1 DEF Inv, Contents
<1>7. QED  BY <1>4, <1>5, <1>6 DEF Inv

(* A turn ends with everything copied; one begun with an error code never  *)
(* ends.                                                                   *)
LEMMA EndTurnState ==
  ASSUME Inv, EndTurn
  PROVE  /\ ~Misread /\ pc = "copy" /\ n \in 1 .. ChunkSize /\ totalRead + n <= arrived
         /\ i = n /\ Len(out) = totalRead + n
         /\ totalRead' = totalRead + n
         /\ UNCHANGED <<chunk, out, n, i, arrived, peer, asInt>>
         /\ pc' = IF totalRead + n >= MaxBytes THEN "done" ELSE "read"
<1>1. pc = "copy" /\ i >= n /\ i \in 0 .. ChunkSize
  BY DEF EndTurn, Inv, Counters
<1>2. ~Misread  BY <1>1, Numbers DEF Inv, Misread
<1>3. QED
  BY <1>1, <1>2, Numbers DEF EndTurn, Enough, Inv, Counters

LEMMA EndTurnStep == Inv /\ EndTurn => Inv'
<1> SUFFICES ASSUME Inv, EndTurn PROVE Inv'
  OBVIOUS
<1>1. TypeOK'
  BY EndTurnState, Numbers DEF Inv, TypeOK
<1>2. Counters'
  BY EndTurnState, Numbers DEF Inv, Counters, OvershootsByLessThanAChunk
<1>3. Contents'
  BY EndTurnState, Numbers DEF Inv, Contents
<1>4. QED  BY <1>1, <1>2, <1>3 DEF Inv

LEMMA InvInit == Init => Inv
<1> SUFFICES ASSUME Init PROVE Inv
  OBVIOUS
<1>1. chunk \in [1 .. ChunkSize -> Byte]
  BY DEF Init, Byte
<1>2. out \in Seq(Int) /\ Len(out) = 0
  BY DEF Init
<1>3. TypeOK
  BY <1>1, <1>2, DataType DEF Init, TypeOK
<1>4. Counters
  BY <1>2, DrainAssumptions DEF Init, Counters, OvershootsByLessThanAChunk
<1>5. QED
  BY <1>2, <1>3, <1>4 DEF Init, Inv, Contents

LEMMA InvStep == Inv /\ [Next]_vars => Inv'
<1> SUFFICES ASSUME Inv, [Next]_vars PROVE Inv'
  OBVIOUS
<1> USE DEF Inv, TypeOK, Counters, Contents, OvershootsByLessThanAChunk, Misread
<1>1. CASE ReadEnds
  BY <1>1 DEF ReadEnds
<1>2. CASE IndexThrow \/ Throw
  BY <1>2 DEF IndexThrow, Throw
<1>3. CASE PeerSends
  BY <1>3, Numbers DEF PeerSends
<1>4. CASE PeerStops
  BY <1>4 DEF PeerStops
<1>5. CASE UNCHANGED vars
  BY <1>5 DEF vars
<1>6. QED
  BY <1>1, <1>2, <1>3, <1>4, <1>5, ReadDataStep, ReadFailsStep, CopyByteStep, EndTurnStep
     DEF Next, Drain

(* The invariant holds of every reachable state.                           *)
THEOREM Invariance == Spec => []Inv
BY InvInit, InvStep, PTL DEF Spec

(* The counters, the chunk and the list keep their types and bounds.       *)
THEOREM TypeCorrect == Spec => []TypeOK
<1>1. Inv => TypeOK
  BY DEF Inv
<1>2. QED
  BY <1>1, Invariance, PTL

(* A result is a prefix of what the peer sent, for every data and whatever *)
(* an error code is taken for.                                             *)
THEOREM OutRight == Spec => []OutIsWhatThePeerSent
<1>1. Inv => OutIsWhatThePeerSent
  BY Numbers DEF Inv, TypeOK, Counters, Contents, OutIsWhatThePeerSent
<1>2. QED
  BY <1>1, Invariance, PTL

(* The drain passes its cap by less than one chunk, for every cap.         *)
THEOREM OvershootBounded == Spec => []OvershootsByLessThanAChunk
<1>1. Inv => OvershootsByLessThanAChunk
  BY DEF Inv, Counters
<1>2. QED
  BY <1>1, Invariance, PTL

-----------------------------------------------------------------------------
(* The implementation of BoundedDrain: a turn takes effect where it ends.  *)

(* Between turns the result is the whole list; it is always the first      *)
(* totalRead bytes of the peer's data.                                     *)
LEMMA ResultState ==
  ASSUME Inv
  PROVE  /\ totalRead \in Nat /\ Len(Result) = totalRead
         /\ totalRead <= Len(out)
         /\ Result = Abs!First(totalRead)
<1>1. totalRead \in Nat /\ totalRead <= Len(out)
  BY Numbers DEF Inv, Counters
<1>2. Len(Result) = totalRead  BY <1>1 DEF Result
<1>3. \A k \in 1 .. totalRead : out[k] = Data[k]
  BY <1>1, Numbers DEF Inv, Contents
<1>4. QED  BY <1>1, <1>2, <1>3 DEF Result, Abs!First

(* Steps inside a turn are not seen.                                       *)
LEMMA InsideATurn ==
  ASSUME UNCHANGED <<arrived, peer>>, Result' = Result,
         {pc, pc'} \subseteq {"read", "copy"}
  PROVE  UNCHANGED Abs!vars
<1>1. pc # "thrown" /\ pc' # "thrown"  OBVIOUS
<1>2. pc \in {"read", "copy"} /\ pc' \in {"read", "copy"}  OBVIOUS
<1>3. QED  BY <1>1, <1>2 DEF Abs!vars

LEMMA DrainStep ==
  ASSUME Inv, [Next]_vars
  PROVE  [Abs!Next]_(Abs!vars)
<1>1. CASE ReadData
  BY <1>1, InsideATurn DEF ReadData, Result
<1>2. CASE CopyByte
  <2>1. totalRead' = totalRead /\ out' = Append(out, ToUByte(chunk[i + 1]))
    BY <1>2 DEF CopyByte
  <2>2. ToUByte(chunk[i + 1]) \in Int
    <3>1. i + 1 \in 1 .. ChunkSize
      BY <1>2, Numbers DEF CopyByte, Inv, Counters
    <3>2. chunk[i + 1] \in Byte  BY <3>1 DEF Inv, TypeOK
    <3>3. chunk[i + 1] \in Int  BY <3>2 DEF Byte
    <3>4. QED  BY <3>3 DEF ToUByte
  <2>3. \A k \in 1 .. Len(out) : out'[k] = out[k]
    BY <2>1, <2>2 DEF Inv, TypeOK
  <2>4. \A k \in 1 .. totalRead : out'[k] = out[k]
    BY <2>3, ResultState, Numbers DEF Inv
  <2>5. Result' = Result  BY <2>1, <2>4 DEF Result
  <2>6. QED  BY <2>5, <1>2, InsideATurn DEF CopyByte
<1>3. CASE ReadEnds
  BY <1>3, ResultState DEF ReadEnds, Abs!Finish, Abs!Next, Result
<1>4. CASE ReadFails
  <2>1. /\ pc = "read" /\ pc' \in {"done", "copy"} /\ Result' = Result
        /\ UNCHANGED <<arrived, peer>> /\ peer = "broken"
    BY <1>4 DEF ReadFails, Result
  <2>2. CASE pc' = "copy"  BY <2>1, <2>2, InsideATurn
  <2>3. CASE pc' = "done"  BY <2>1, <2>3 DEF Abs!Finish, Abs!Next
  <2>4. QED  BY <2>1, <2>2, <2>3
<1>5. CASE IndexThrow \/ Throw
  BY <1>5 DEF IndexThrow, Throw, Abs!Fail, Abs!Next
<1>6. CASE EndTurn
  <2>1. /\ n \in 1 .. ChunkSize /\ totalRead + n <= arrived /\ pc = "copy"
        /\ totalRead' = totalRead + n /\ UNCHANGED <<out, arrived, peer>>
        /\ pc' = IF totalRead + n >= MaxBytes THEN "done" ELSE "read"
    BY <1>6, EndTurnState
  <2>2. Result' = Abs!First(totalRead + n)
    <3>1. \A k \in 1 .. totalRead + n : out'[k] = Data[k]
      BY <1>6, EndTurnState DEF Inv, Contents
    <3>2. QED  BY <2>1, <3>1 DEF Result, Abs!First
  <2>3. Abs!Take(n)
    BY <2>1, <2>2, ResultState DEF Abs!Take
  <2>4. QED  BY <2>1, <2>3 DEF Abs!Next
<1>7. CASE PeerSends
  BY <1>7 DEF PeerSends, Abs!Send, Abs!Next, Result
<1>8. CASE PeerStops
  BY <1>8 DEF PeerStops, Abs!Stop, Abs!Next, Result
<1>9. CASE UNCHANGED vars
  BY <1>9 DEF vars, Result, Abs!vars
<1>10. QED
  BY <1>1, <1>2, <1>3, <1>4, <1>5, <1>6, <1>7, <1>8, <1>9 DEF Next, Drain

(* For every chunk size, cap and data, and however the reads are cut, the  *)
(* loop is a bounded drain of the connection (readToEndAsync).             *)
THEOREM DrainIsBounded == Spec => ImplementsBoundedDrain
<1>1. Init => Abs!Init
  BY DEF Init, Result, Abs!Init
<1>2. QED  BY <1>1, DrainStep, Invariance, PTL DEF Spec, ImplementsBoundedDrain, Abs!Spec

=============================================================================
