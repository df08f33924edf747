----------------------------- MODULE StreamLife -----------------------------
(***************************************************************************)
(* What a program may count on of its SslSocketStreams, with no reference  *)
(* counts, labels or threads of the library in sight: a stream is usable   *)
(* once all its OpenSSL objects are made and its peer is verified, it can  *)
(* be called as long as somebody holds it, and its objects are freed, once *)
(* each, when the last holder and the last call have let go of it.         *)
(***************************************************************************)
EXTENDS Naturals

CONSTANTS Streams, Threads

VARIABLES
  phase,        \* "unborn", "making", "live", "closing" or "dead"
  objects,      \* each stream's OpenSSL objects: "none", "live" or "freed"
  holders,      \* how many variables of the program refer to a stream
  users,        \* the threads in read or write of a stream
  peer          \* what is true of the server a stream is connected to

vars == <<phase, objects, holders, users, peer>>

Kinds == {"ctx", "ssl", "cert"}
Facts == {"presents", "chain", "name"}

Init ==
  /\ phase = [s \in Streams |-> "unborn"]
  /\ objects = [s \in Streams |-> [x \in Kinds |-> "none"]]
  /\ holders = [s \in Streams |-> 0]
  /\ users = [s \in Streams |-> {}]
  /\ peer = [s \in Streams |-> {}]

New(s, f) ==
  /\ phase[s] = "unborn"
  /\ phase' = [phase EXCEPT ![s] = "making"]
  /\ peer' = [peer EXCEPT ![s] = f]
  /\ UNCHANGED <<objects, holders, users>>

Make(s, x) ==
  /\ phase[s] = "making" /\ objects[s][x] = "none"
  /\ objects' = [objects EXCEPT ![s][x] = "live"]
  /\ UNCHANGED <<phase, holders, users, peer>>

Complete(s) ==
  /\ phase[s] = "making" /\ peer[s] = Facts
  /\ \A x \in Kinds : objects[s][x] = "live"
  /\ phase' = [phase EXCEPT ![s] = "live"]
  /\ holders' = [holders EXCEPT ![s] = 1]
  /\ UNCHANGED <<objects, users, peer>>

(* The constructor throws.                                                 *)
Abandon(s) ==
  /\ phase[s] = "making"
  /\ phase' = [phase EXCEPT ![s] = "closing"]
  /\ UNCHANGED <<objects, holders, users, peer>>

Share(s) ==
  /\ holders[s] > 0
  /\ holders' = [holders EXCEPT ![s] = @ + 1]
  /\ UNCHANGED <<phase, objects, users, peer>>

Enter(t, s) ==
  /\ holders[s] > 0 /\ \A r \in Streams : t \notin users[r]
  /\ users' = [users EXCEPT ![s] = @ \cup {t}]
  /\ UNCHANGED <<phase, objects, holders, peer>>

(* Whoever is the last to let go closes the stream.                        *)
LetGo(s) ==
  phase' = IF holders'[s] = 0 /\ users'[s] = {}
           THEN [phase EXCEPT ![s] = "closing"] ELSE phase

Drop(s) ==
  /\ holders[s] > 0
  /\ holders' = [holders EXCEPT ![s] = @ - 1]
  /\ LetGo(s)
  /\ UNCHANGED <<objects, users, peer>>

Leave(t, s) ==
  /\ t \in users[s]
  /\ users' = [users EXCEPT ![s] = @ \ {t}]
  /\ LetGo(s)
  /\ UNCHANGED <<objects, holders, peer>>

FreeObject(s, x) ==
  /\ phase[s] = "closing" /\ objects[s][x] = "live"
  /\ objects' = [objects EXCEPT ![s][x] = "freed"]
  /\ UNCHANGED <<phase, holders, users, peer>>

End(s) ==
  /\ phase[s] = "closing" /\ \A x \in Kinds : objects[s][x] # "live"
  /\ phase' = [phase EXCEPT ![s] = "dead"]
  /\ UNCHANGED <<objects, holders, users, peer>>

Next ==
  \E s \in Streams :
    \/ \E f \in SUBSET Facts : New(s, f)
    \/ Complete(s) \/ Abandon(s) \/ Share(s) \/ Drop(s) \/ End(s)
    \/ \E x \in Kinds : Make(s, x) \/ FreeObject(s, x)
    \/ \E t \in Threads : Enter(t, s) \/ Leave(t, s)

Spec == Init /\ [][Next]_vars

=============================================================================
