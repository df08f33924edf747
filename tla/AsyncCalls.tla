----------------------------- MODULE AsyncCalls -----------------------------
(***************************************************************************)
(* What AsyncSecureSocketStream promises its callers: a call suspends its  *)
(* caller, calls take effect one at a time in the order they were made,    *)
(* each exactly once, the data of a stream goes to its reads in order, and *)
(* a caller resumes with the outcome of its own call.  No data is read     *)
(* twice; the data a readToEndAsync had read when it threw is lost, no     *)
(* other.                                                                  *)
(***************************************************************************)
EXTENDS Naturals, Sequences

CONSTANTS
  Callers, Streams,
  MaxPieces     \* the most pieces one readToEndAsync returns

VARIABLES
  pending,      \* callers whose call has yet to take effect, oldest first
  asked,        \* each caller's latest call
  answer,       \* the outcome a resumed caller is about to see
  delivered     \* how many pieces of each stream's data reads have taken

vars == <<pending, asked, answer, delivered>>

Ops == {"create", "read", "write", "readToEnd", "close"}
None == [kind |-> "none", data |-> <<>>]
Kinds == {"none", "void", "data", "eof", "error", "throw"}
Waiting(c) == \E i \in DOMAIN pending : pending[i] = c

Init ==
  /\ pending = <<>>
  /\ asked \in [Callers -> [op : Ops, st : Streams]]
  /\ answer = [c \in Callers |-> None]
  /\ delivered = [st \in Streams |-> 0]

Ask(c, op, st) ==
  /\ ~Waiting(c) /\ answer[c] = None
  /\ asked' = [asked EXCEPT ![c] = [op |-> op, st |-> st]]
  /\ pending' = Append(pending, c)
  /\ UNCHANGED <<answer, delivered>>

(* The next n pieces of a stream's data.                                   *)
Pieces(st, n) == [i \in 1 .. n |-> delivered[st] + i]

Outcomes(op, st, n) ==
  CASE op = "read" -> IF n = 1 THEN {[kind |-> "data", data |-> Pieces(st, 1)]}
                      ELSE [kind : {"eof", "error", "throw"}, data : {<<>>}]
    [] op = "readToEnd" -> {[kind |-> "data", data |-> Pieces(st, n)],
                            [kind |-> "throw", data |-> <<>>]}
    [] OTHER -> [kind : {"void", "throw"}, data : {<<>>}]

Answer(n) ==
  /\ pending # <<>>
  /\ LET c == Head(pending)  op == asked[c].op  st == asked[c].st IN
     /\ n > 0 => op = "readToEnd" \/ (op = "read" /\ n = 1)
     /\ \E a \in Outcomes(op, st, n) : answer' = [answer EXCEPT ![c] = a]
     /\ delivered' = [delivered EXCEPT ![st] = @ + n]
  /\ pending' = Tail(pending)
  /\ UNCHANGED asked

Return(c) ==
  /\ answer[c] # None
  /\ answer' = [answer EXCEPT ![c] = None]
  /\ UNCHANGED <<pending, asked, delivered>>

Next ==
  \/ \E c \in Callers, op \in Ops, st \in Streams : Ask(c, op, st)
  \/ \E n \in 0 .. MaxPieces : Answer(n)
  \/ \E c \in Callers : Return(c)

Spec == Init /\ [][Next]_vars

=============================================================================
