--------------------------- MODULE AmiSslContract ---------------------------
(***************************************************************************)
(* What AmiSSL and OpenSSL ask of the tasks of one process, as the amigaos *)
(* back end relies on it: a task brings itself up once, with an errno      *)
(* location of its own that stays allocated until the task cleans up; it   *)
(* calls OpenSSL only in between and after the one-time initialisation;    *)
(* and it does not end before it has cleaned up.                           *)
(***************************************************************************)
CONSTANTS
  Tasks, Main,      \* task addresses; main is brought up by amisslauto
  Cells,            \* memory for errno locations
  NULL              \* main's errno location is not of these cells

VARIABLES
  running,          \* the tasks there are
  known,            \* the tasks AmiSSL has a slot for
  errno,            \* where AmiSSL writes a task's errors
  memory,           \* the allocated cells
  ready,            \* the one-time initialisation is done
  inside            \* tasks in a handshake, read, write or shutdown

vars == <<running, known, errno, memory, ready, inside>>

Init ==
  /\ running = {Main} /\ known = {Main} /\ inside = {}
  /\ errno = [t \in Tasks |-> NULL]
  /\ memory = {} /\ ready = FALSE

Start(t) ==
  /\ t \notin running \cup known
  /\ running' = running \cup {t}
  /\ UNCHANGED <<known, errno, memory, ready, inside>>

End(t) ==
  /\ t \in running \ (known \cup inside)
  /\ running' = running \ {t}
  /\ UNCHANGED <<known, errno, memory, ready, inside>>

Allocate(c) ==
  /\ c \notin memory
  /\ memory' = memory \cup {c}
  /\ UNCHANGED <<running, known, errno, ready, inside>>

(* No cell AmiSSL may still write to is freed.                             *)
Free(c) ==
  /\ c \in memory /\ \A t \in known : errno[t] # c
  /\ memory' = memory \ {c}
  /\ UNCHANGED <<running, known, errno, ready, inside>>

InitAmiSSL(t, c) ==
  /\ t \in running \ known
  /\ c \in memory /\ \A u \in known : errno[u] # c
  /\ known' = known \cup {t}
  /\ errno' = [errno EXCEPT ![t] = c]
  /\ UNCHANGED <<running, memory, ready, inside>>

CleanupAmiSSL(t) ==
  /\ t \in (running \cap known) \ (inside \cup {Main})
  /\ known' = known \ {t}
  /\ errno' = [errno EXCEPT ![t] = NULL]
  /\ UNCHANGED <<running, memory, ready, inside>>

InitOpenSSL(t) ==
  /\ t \in known
  /\ ready' = TRUE
  /\ UNCHANGED <<running, known, errno, memory, inside>>

Enter(t) ==
  /\ t \in known \ inside /\ ready
  /\ inside' = inside \cup {t}
  /\ UNCHANGED <<running, known, errno, memory, ready>>

Leave(t) ==
  /\ t \in inside
  /\ inside' = inside \ {t}
  /\ UNCHANGED <<running, known, errno, memory, ready>>

Next ==
  \/ \E t \in Tasks :
       \/ Start(t) \/ End(t) \/ CleanupAmiSSL(t) \/ InitOpenSSL(t) \/ Enter(t) \/ Leave(t)
       \/ \E c \in Cells : InitAmiSSL(t, c)
  \/ \E c \in Cells : Allocate(c) \/ Free(c)

Spec == Init /\ [][Next]_vars

=============================================================================
