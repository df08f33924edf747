------------------------- MODULE StreamBufferProofs -------------------------
(***************************************************************************)
(* IInv of StreamBuffer is invariant for every width, size, offset and     *)
(* length, any threads and arrays; its safety properties follow.           *)
(***************************************************************************)
EXTENDS StreamBuffer, FiniteSetTheorems, TLAPS

(* The calls with an array are finitely many.                              *)
LEMMA CallsFinite ==
  ASSUME NEW b
  PROVE  IsFiniteSet(Calls(b)) /\ Cardinality(Calls(b)) \in Nat
<1>1. Calls(b) \in SUBSET Threads  BY DEF Calls
<1>2. QED  BY <1>1, FS_Subset, FS_CardinalityType, BufferAssumptions

(* An array with a variable or a call has a count above zero.              *)
LEMMA Counted ==
  ASSUME TypeOK, CountInv, NEW b \in Buffers
  PROVE  /\ refs[b] >= vars[b]
         /\ \A t \in Threads : pc[t] # "idle" /\ args[t].buffer = b => refs[b] > 0
<1>1. vars[b] \in Nat /\ refs[b] \in Nat /\ refs[b] = vars[b] + Cardinality(Calls(b))
  BY BufferAssumptions DEF TypeOK, CountInv
<1>2. refs[b] >= vars[b]  BY <1>1, CallsFinite
<1>3. ASSUME NEW t \in Threads, pc[t] # "idle", args[t].buffer = b  PROVE refs[b] > 0
  <2>1. Calls(b) # {}  BY <1>3 DEF Calls
  <2>2. Cardinality(Calls(b)) # 0  BY <2>1, CallsFinite, FS_EmptySet
  <2>3. QED  BY <2>2, <1>1, CallsFinite
<1>4. QED  BY <1>2, <1>3

(* The ranges of a call's arguments.                                       *)
LEMMA ArgsTyped ==
  ASSUME NEW a \in Args
  PROVE  /\ a.buffer \in Buffers /\ a.length \in 0 .. Word - 1
         /\ a.offset \in Int /\ 2 * a.offset < Wide
<1>1. a.buffer \in Buffers /\ a.offset \in Offsets /\ a.length \in Lengths
  BY DEF Args
<1>2. QED  BY <1>1, BufferAssumptions

(* The sum of a checked call does not wrap: with an offset that is not     *)
(* negative the code compares the numbers it means to compare.             *)
LEMMA CheckIsExact ==
  ASSUME NEW a \in Args, a.offset >= 0, size[a.buffer] \in 0 .. Word - 1
  PROVE  TooLong(a) <=> a.offset + a.length > size[a.buffer]
<1>1. a.offset \in Int /\ 2 * a.offset < Wide /\ a.length \in 0 .. Word - 1
  BY ArgsTyped
<1>2. Wrap(a.offset) = a.offset  BY <1>1, BufferAssumptions DEF Wrap
<1>3. Wrap(a.offset + a.length) = a.offset + a.length
  BY <1>1, BufferAssumptions DEF Wrap
<1>4. QED  BY <1>2, <1>3 DEF TooLong

-----------------------------------------------------------------------------
(* The program's steps leave the calls alone, and the sizes of the arrays  *)
(* calls are made with.                                                    *)
LEMMA ProgramStep ==
  ASSUME IInv, NEW b \in Buffers, Share(b) \/ Drop(b) \/ \E n \in Sizes : New(b, n)
  PROVE  IInv'
<1>1. TypeOK /\ CountInv /\ CheckedInv  BY DEF IInv
<1>2. pc' = pc /\ args' = args /\ refused' = refused
  BY DEF Share, Drop, New
<1>3. \A c \in Buffers : Calls(c)' = Calls(c)  BY <1>2 DEF Calls
<1>4. vars[b] \in Nat /\ refs[b] \in Nat /\ vars[b] <= refs[b] /\ MaxVars \in Nat \ {0}
  BY <1>1, Counted, BufferAssumptions DEF TypeOK
<1>5. CASE \E n \in Sizes : New(b, n)
  <2>1. PICK n \in Sizes : New(b, n)  BY <1>5
  <2>2. /\ refs[b] = 0 /\ vars[b] = 0 /\ n \in 0 .. Word - 1
        /\ size' = [size EXCEPT ![b] = n]
        /\ refs' = [refs EXCEPT ![b] = 1] /\ vars' = [vars EXCEPT ![b] = 1]
    BY <2>1, <1>4, BufferAssumptions DEF New
  <2>3. TypeOK'  BY <1>1, <1>2, <1>4, <2>2 DEF TypeOK
  <2>4. CountInv'
    <3>1. SUFFICES ASSUME NEW c \in Buffers
                   PROVE  refs'[c] = vars'[c] + Cardinality(Calls(c))
      BY <1>3 DEF CountInv
    <3>2. refs[c] = vars[c] + Cardinality(Calls(c))  BY <1>1 DEF CountInv
    <3>3. QED  BY <1>1, <2>2, <3>2, CallsFinite DEF TypeOK
  <2>5. CheckedInv'
    <3>1. \A t \in Threads : pc[t] # "idle" => args[t].buffer # b
      BY <1>1, <2>2, Counted
    <3>2. \A t \in Threads : pc[t] # "idle" => size'[args[t].buffer] = size[args[t].buffer]
      BY <1>1, <2>2, <3>1 DEF TypeOK, Args
    <3>3. QED  BY <1>1, <1>2, <3>2 DEF CheckedInv, TooLong, InSSL
  <2>6. QED  BY <2>3, <2>4, <2>5 DEF IInv
<1>6. CASE Share(b) \/ Drop(b)
  <2>1. PICK k \in {1, -1} :
          /\ refs' = [refs EXCEPT ![b] = @ + k] /\ vars' = [vars EXCEPT ![b] = @ + k]
          /\ vars[b] + k \in 0 .. MaxVars /\ refs[b] + k \in Nat
          /\ size' = size
    <3>1. CASE Share(b)
      <4>1. refs' = [refs EXCEPT ![b] = @ + 1] /\ vars' = [vars EXCEPT ![b] = @ + 1]
            /\ size' = size /\ vars[b] \in 1 .. MaxVars - 1
        BY <3>1 DEF Share
      <4>2. QED  BY <4>1, <1>4
    <3>2. CASE Drop(b)
      <4>1. refs' = [refs EXCEPT ![b] = @ - 1] /\ vars' = [vars EXCEPT ![b] = @ - 1]
            /\ size' = size /\ vars[b] > 0
        BY <3>2 DEF Drop
      <4>2. /\ refs[b] - 1 = refs[b] + (-1) /\ vars[b] - 1 = vars[b] + (-1)
            /\ vars[b] - 1 \in 0 .. MaxVars /\ refs[b] - 1 \in Nat
        BY <4>1, <1>1, <1>4 DEF TypeOK
      <4>3. QED  BY <4>1, <4>2
    <3>3. QED  BY <1>6, <3>1, <3>2
  <2>2. TypeOK'  BY <1>1, <1>2, <2>1 DEF TypeOK
  <2>3. CountInv'
    <3>1. SUFFICES ASSUME NEW c \in Buffers
                   PROVE  refs'[c] = vars'[c] + Cardinality(Calls(c))
      BY <1>3 DEF CountInv
    <3>2. refs[c] = vars[c] + Cardinality(Calls(c)) /\ vars[c] \in Nat
      BY <1>1, BufferAssumptions DEF CountInv, TypeOK
    <3>3. QED  BY <1>1, <2>1, <3>2, CallsFinite DEF TypeOK
  <2>4. CheckedInv'  BY <1>1, <1>2, <2>1 DEF CheckedInv, TooLong
  <2>5. QED  BY <2>2, <2>3, <2>4 DEF IInv
<1>7. QED  BY <1>5, <1>6

(* Entering a call adds a thread to the calls of its array.                *)
LEMMA BeginCallStep ==
  ASSUME IInv, NEW t \in Threads, NEW a \in Args, NEW l \in InSSL, BeginCall(t, a, l)
  PROVE  IInv'
<1>1. TypeOK /\ CountInv /\ CheckedInv  BY DEF IInv
<1>. DEFINE b == a.buffer
<1>2. b \in Buffers /\ refs[b] \in Nat  BY <1>1 DEF Args, TypeOK
<1>3. /\ pc[t] = "idle" /\ refs' = [refs EXCEPT ![b] = @ + 1] /\ size' = size /\ vars' = vars
      /\ args' = [args EXCEPT ![t] = a]
      /\ refused' = [refused EXCEPT ![t] = TooLong(a)]
      /\ pc' = [pc EXCEPT ![t] = IF TooLong(a) THEN "leave" ELSE l]
  BY DEF BeginCall, RefsInCall
<1>4. pc'[t] # "idle" /\ pc'[t] \in {"leave"} \cup InSSL  BY <1>1, <1>3 DEF TypeOK, InSSL
<1>5. TypeOK'
  <2>1. TooLong(a) \in BOOLEAN  BY DEF TooLong
  <2>2. pc' \in [Threads -> {"idle", "leave"} \cup InSSL]  BY <1>1, <1>3 DEF TypeOK
  <2>3. refused' \in [Threads -> BOOLEAN]  BY <1>1, <1>3, <2>1 DEF TypeOK
  <2>4. QED  BY <1>1, <1>2, <1>3, <2>2, <2>3 DEF TypeOK
<1>6. CountInv'
  <2>1. Calls(b)' = Calls(b) \cup {t} /\ t \notin Calls(b)
    BY <1>1, <1>3, <1>4 DEF Calls, TypeOK
  <2>2. Cardinality(Calls(b)') = Cardinality(Calls(b)) + 1
    BY <2>1, CallsFinite, FS_AddElement
  <2>3. \A c \in Buffers \ {b} : Calls(c)' = Calls(c)
    BY <1>1, <1>3 DEF Calls, TypeOK
  <2>4. refs'[b] = vars'[b] + Cardinality(Calls(b)')
    BY <1>1, <1>2, <1>3, <2>2, CallsFinite, BufferAssumptions DEF CountInv, TypeOK
  <2>5. \A c \in Buffers \ {b} : refs'[c] = vars'[c] + Cardinality(Calls(c)')
    BY <1>1, <1>3, <2>3 DEF CountInv, TypeOK
  <2>6. QED  BY <2>4, <2>5 DEF CountInv
<1>7. CheckedInv'
  <2>1. SUFFICES ASSUME NEW u \in Threads
                 PROVE  /\ pc'[u] \in InSSL => ~TooLong(args[u])' /\ ~refused'[u]
                        /\ pc'[u] = "leave" /\ refused'[u] => TooLong(args[u])'
    BY DEF CheckedInv
  <2>2. CASE u = t
    <3>1. args'[u] = a /\ (TooLong(args[u])' <=> TooLong(a))
      BY <2>2, <1>1, <1>3 DEF TypeOK, TooLong
    <3>2. pc'[u] \in InSSL => ~TooLong(a)  BY <2>2, <1>1, <1>3 DEF TypeOK, InSSL
    <3>3. refused'[u] <=> TooLong(a)  BY <2>2, <1>1, <1>3 DEF TypeOK
    <3>4. QED  BY <3>1, <3>2, <3>3
  <2>3. CASE u # t
    BY <2>3, <1>1, <1>3 DEF CheckedInv, TooLong, TypeOK
  <2>4. QED  BY <2>2, <2>3
<1>8. QED  BY <1>5, <1>6, <1>7 DEF IInv

(* OpenSSL's return changes nothing that is counted or was checked.        *)
LEMMA SslCallReturnsStep ==
  ASSUME IInv, NEW t \in Threads, SslCallReturns(t)
  PROVE  IInv'
<1>1. TypeOK /\ CountInv /\ CheckedInv  BY DEF IInv
<1>2. /\ pc[t] \in InSSL /\ pc' = [pc EXCEPT ![t] = "leave"]
      /\ args' = args /\ refused' = refused /\ size' = size /\ refs' = refs /\ vars' = vars
  BY DEF SslCallReturns, bufVars
<1>3. TypeOK'  BY <1>1, <1>2 DEF TypeOK
<1>4. \A b \in Buffers : Calls(b)' = Calls(b)
  BY <1>1, <1>2 DEF Calls, TypeOK, InSSL
<1>5. CountInv'  BY <1>1, <1>2, <1>4 DEF CountInv
<1>6. CheckedInv'  BY <1>1, <1>2 DEF CheckedInv, TooLong, TypeOK, InSSL
<1>7. QED  BY <1>3, <1>5, <1>6 DEF IInv

(* Leaving a call takes its thread from the calls of its array.            *)
LEMMA LeaveCallStep ==
  ASSUME IInv, NEW t \in Threads, LeaveCall(t)
  PROVE  IInv'
<1>1. TypeOK /\ CountInv /\ CheckedInv  BY DEF IInv
<1>0. PICK b \in Buffers : b = args[t].buffer  BY <1>1 DEF TypeOK, Args
<1>2. /\ pc[t] = "leave" /\ pc' = [pc EXCEPT ![t] = "idle"]
      /\ refs' = [refs EXCEPT ![b] = @ - 1]
      /\ args' = args /\ refused' = refused /\ size' = size /\ vars' = vars
  BY <1>0 DEF LeaveCall, RefsAfterCall
<1>3. refs[b] \in Nat /\ refs[b] > 0  BY <1>0, <1>1, <1>2, Counted DEF TypeOK
<1>4. TypeOK'  BY <1>1, <1>2, <1>3 DEF TypeOK
<1>5. CountInv'
  <2>1. Calls(b)' = Calls(b) \ {t} /\ t \in Calls(b)
    BY <1>0, <1>1, <1>2 DEF Calls, TypeOK
  <2>2. Cardinality(Calls(b)') = Cardinality(Calls(b)) - 1
    BY <2>1, CallsFinite, FS_RemoveElement
  <2>3. \A c \in Buffers \ {b} : Calls(c)' = Calls(c)
    BY <1>0, <1>1, <1>2 DEF Calls, TypeOK
  <2>4. refs'[b] = vars'[b] + Cardinality(Calls(b)')
    BY <1>1, <1>2, <1>3, <2>2, CallsFinite, BufferAssumptions DEF CountInv, TypeOK
  <2>5. \A c \in Buffers \ {b} : refs'[c] = vars'[c] + Cardinality(Calls(c)')
    BY <1>1, <1>2, <2>3 DEF CountInv, TypeOK
  <2>6. QED  BY <2>4, <2>5 DEF CountInv
<1>6. CheckedInv'  BY <1>1, <1>2 DEF CheckedInv, TooLong, TypeOK, InSSL
<1>7. QED  BY <1>4, <1>5, <1>6 DEF IInv

-----------------------------------------------------------------------------
(* Counts, sizes and checked calls agree in every reachable state.         *)
THEOREM Invariance == Spec => []IInv
<1>1. Init => IInv
  <2>1. SUFFICES ASSUME Init PROVE IInv  OBVIOUS
  <2>2. TypeOK  BY <2>1, BufferAssumptions DEF Init, TypeOK
  <2>3. \A b \in Buffers : Calls(b) = {}  BY <2>1 DEF Init, Calls
  <2>4. CountInv  BY <2>1, <2>3, FS_EmptySet DEF Init, CountInv
  <2>5. CheckedInv  BY <2>1 DEF Init, CheckedInv, InSSL
  <2>6. QED  BY <2>2, <2>4, <2>5 DEF IInv
<1>2. IInv /\ [Next]_allVars => IInv'
  <2>1. SUFFICES ASSUME IInv, [Next]_allVars PROVE IInv'  OBVIOUS
  <2>2. CASE UNCHANGED allVars
    BY <2>1, <2>2 DEF allVars, bufVars, IInv, TypeOK, CountInv, Calls, CheckedInv, TooLong
  <2>3. CASE Next
    BY <2>1, <2>3, ProgramStep, BeginCallStep, SslCallReturnsStep, LeaveCallStep DEF Next
  <2>4. QED  BY <2>1, <2>2, <2>3
<1>3. QED  BY <1>1, <1>2, PTL DEF Spec

(* Every variable keeps its type; no count goes below zero.                *)
THEOREM TypeCorrect == Spec => []TypeOK
<1>1. IInv => TypeOK  BY DEF IInv
<1>2. QED  BY <1>1, Invariance, PTL

(* A call past the check has its array, and stays inside it.               *)
LEMMA InsideItsArray ==
  ASSUME IInv, NEW t \in Threads, pc[t] \in InSSL, args[t].offset >= 0
  PROVE  /\ args[t] \in Args /\ size[args[t].buffer] \in 0 .. Word - 1
         /\ refs[args[t].buffer] > 0
         /\ args[t].offset + args[t].length <= size[args[t].buffer]
<1>1. TypeOK /\ CountInv /\ CheckedInv  BY DEF IInv
<1>2. args[t] \in Args /\ args[t].buffer \in Buffers /\ args[t].offset \in Int
      /\ args[t].length \in 0 .. Word - 1
  BY <1>1, ArgsTyped DEF TypeOK
<1>3. size[args[t].buffer] \in 0 .. Word - 1  BY <1>1, <1>2 DEF TypeOK
<1>4. pc[t] # "idle"  BY DEF InSSL
<1>5. refs[args[t].buffer] > 0  BY <1>1, <1>2, <1>4, Counted
<1>6. ~TooLong(args[t])  BY <1>1 DEF CheckedInv
<1>7. ~(args[t].offset + args[t].length > size[args[t].buffer])
  BY <1>2, <1>3, <1>6, CheckIsExact
<1>8. QED  BY <1>2, <1>3, <1>5, <1>7, BufferAssumptions

(* OpenSSL never works outside a live array, for all widths and sizes.     *)
THEOREM StaysInside == Spec => []TransfersStayInside
<1>1. IInv => TransfersStayInside  BY InsideItsArray DEF TransfersStayInside
<1>2. QED  BY <1>1, Invariance, PTL

(* No transfer that fits is refused.                                       *)
THEOREM RefusalsAreRight == Spec => []RefusedDoesNotFit
<1>1. ASSUME IInv PROVE RefusedDoesNotFit
  <2>1. SUFFICES ASSUME NEW t \in Threads, pc[t] = "leave", refused[t],
                        args[t].offset >= 0
                 PROVE  args[t].offset + args[t].length > size[args[t].buffer]
    BY DEF RefusedDoesNotFit
  <2>2. args[t] \in Args /\ args[t].buffer \in Buffers
    BY <1>1 DEF IInv, TypeOK, Args
  <2>3. size[args[t].buffer] \in 0 .. Word - 1  BY <1>1, <2>2 DEF IInv, TypeOK
  <2>4. TooLong(args[t])  BY <1>1, <2>1 DEF IInv, CheckedInv
  <2>5. QED  BY <2>1, <2>2, <2>3, <2>4, CheckIsExact
<1>2. QED  BY <1>1, Invariance, PTL

(* No length turns negative on its way into OpenSSL.                       *)
THEOREM LengthSurvives == Spec => []LengthArrivesUnchanged
<1>1. ASSUME IInv PROVE LengthArrivesUnchanged
  <2>1. SUFFICES ASSUME NEW t \in Threads, pc[t] \in InSSL, args[t].offset >= 0,
                        2 * size[args[t].buffer] < Word
                 PROVE  AsInt(args[t].length) = args[t].length
    BY DEF LengthArrivesUnchanged
  <2>2. args[t].offset \in Int /\ args[t].length \in Int
        /\ size[args[t].buffer] \in Int
        /\ args[t].offset + args[t].length <= size[args[t].buffer]
    <3>1. /\ args[t] \in Args /\ size[args[t].buffer] \in 0 .. Word - 1
          /\ args[t].offset + args[t].length <= size[args[t].buffer]
      BY <1>1, <2>1, InsideItsArray
    <3>2. QED  BY <3>1, ArgsTyped, BufferAssumptions
  <2>3. QED  BY <2>1, <2>2, BufferAssumptions DEF AsInt
<1>2. QED  BY <1>1, Invariance, PTL

(* An array without variables and calls is free.                           *)
THEOREM NothingIsLost == Spec => []NoReferenceIsLost
<1>1. ASSUME IInv PROVE NoReferenceIsLost
  <2>1. SUFFICES ASSUME NEW b \in Buffers, refs[b] > 0, ~(vars[b] > 0),
                        \A t \in Threads : ~(pc[t] # "idle" /\ args[t].buffer = b)
                 PROVE  FALSE
    BY DEF NoReferenceIsLost
  <2>2. Calls(b) = {}  BY <2>1 DEF Calls
  <2>3. vars[b] = 0  BY <1>1, <2>1, BufferAssumptions DEF IInv, TypeOK
  <2>4. refs[b] = 0  BY <1>1, <2>2, <2>3, FS_EmptySet DEF IInv, CountInv
  <2>5. QED  BY <2>1, <2>4
<1>2. QED  BY <1>1, Invariance, PTL

=============================================================================
