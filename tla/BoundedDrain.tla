---------------------------- MODULE BoundedDrain ----------------------------
(***************************************************************************)
(* What a caller of readToEndAsync may count on, with no chunk buffer,     *)
(* signed bytes or loop in sight: the result is the peer's data from the   *)
(* first byte on, it grows by whole reads, and it is handed out as soon as *)
(* it reaches the cap, or when the connection has ended; or the call       *)
(* throws and hands out nothing.                                           *)
(***************************************************************************)
EXTENDS Naturals, Sequences

CONSTANTS
  Data,         \* what the peer would send
  Piece,        \* the most one read returns
  Cap           \* the length that is enough

VARIABLES
  sent,         \* how much of it the peer has sent
  line,         \* the connection: "up", "closed" or "broken"
  result,
  state         \* "read", "done" or "thrown"

vars == <<sent, line, result, state>>

First(m) == [k \in 1 .. m |-> Data[k]]

Init == sent = 0 /\ line = "up" /\ result = <<>> /\ state = "read"

Send ==
  /\ line = "up" /\ sent < Len(Data)
  /\ sent' = sent + 1
  /\ UNCHANGED <<line, result, state>>

Stop ==
  /\ line = "up" /\ line' \in {"closed", "broken"}
  /\ UNCHANGED <<sent, result, state>>

Take(k) ==
  LET m == Len(result) + k IN
  /\ state = "read" /\ m <= sent
  /\ result' = First(m)
  /\ state' = IF m >= Cap THEN "done" ELSE "read"
  /\ UNCHANGED <<sent, line>>

(* A broken connection may lose what was sent last; a closed one does not. *)
Finish ==
  /\ state = "read" /\ line # "up"
  /\ line = "closed" => Len(result) = sent
  /\ state' = "done"
  /\ UNCHANGED <<sent, line, result>>

(* An exception, at any time: what was read is lost.                       *)
Fail ==
  /\ state = "read"
  /\ state' = "thrown" /\ result' = <<>>
  /\ UNCHANGED <<sent, line>>

Next == Send \/ Stop \/ (\E k \in 1 .. Piece : Take(k)) \/ Finish \/ Fail

Spec == Init /\ [][Next]_vars

=============================================================================
