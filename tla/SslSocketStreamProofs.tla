----------------------- MODULE SslSocketStreamProofs -----------------------
(***************************************************************************)
(* IInv of SslSocketStream is invariant, for any streams, threads, host    *)
(* names and bound on references; its safety properties follow.            *)
(***************************************************************************)
EXTENDS SslSocketStream, FiniteSetTheorems, TLAPS

-----------------------------------------------------------------------------
(* The labels of _native_init, spelt out.                                  *)
LEMMA InitLabels ==
  InInit = {"SSL_CTX_new", "SSL_CTX_set_verify", "SSL_CTX_set_default_verify_paths",
            "SSL_new", "SSL_set_fd", "SSL_set_tlsext_host_name", "SSL_set1_host",
            "SSL_connect", "SSL_get_peer_certificate", "SSL_get_verify_result", "calloc"}
BY DEF InInit, After

(* _native_init's order of calls.                                          *)
LEMMA InitOrder ==
  /\ After["SSL_CTX_new"] = "SSL_CTX_set_verify"
  /\ After["SSL_CTX_set_verify"] = "SSL_CTX_set_default_verify_paths"
  /\ After["SSL_CTX_set_default_verify_paths"] = "SSL_new"
  /\ After["SSL_new"] = "SSL_set_fd"
  /\ After["SSL_set_fd"] = "SSL_set_tlsext_host_name"
  /\ After["SSL_set_tlsext_host_name"] = "SSL_set1_host"
  /\ After["SSL_set1_host"] = "SSL_connect"
  /\ After["SSL_connect"] = "SSL_get_peer_certificate"
  /\ After["SSL_get_peer_certificate"] = "SSL_get_verify_result"
  /\ After["SSL_get_verify_result"] = "calloc"
  /\ After["calloc"] = "exit"
BY DEF After

(* A thread owns its stream, uses one, or is idle.                         *)
LEMMA LabelKinds ==
  ASSUME TypeOK, NEW t \in Threads
  PROVE  /\ pc[t] = "idle" \/ Owns(t) \/ Uses(t)
         /\ ~(Owns(t) /\ Uses(t)) /\ (pc[t] = "idle" => ~Owns(t) /\ ~Uses(t))
BY InitLabels DEF TypeOK, Owns, Uses, Labels, InFree, InCall

(* The calls inside a stream are finitely many.                            *)
LEMMA CallsFinite ==
  ASSUME NEW s
  PROVE  IsFiniteSet(Calls(s)) /\ Cardinality(Calls(s)) \in Nat
<1>1. Calls(s) \in SUBSET Threads  BY DEF Calls
<1>2. QED  BY <1>1, FS_Subset, FS_CardinalityType, StreamAssumptions

-----------------------------------------------------------------------------
(* What a step leaves alone.                                               *)

SameThread(u) == pc'[u] = pc[u] /\ this'[u] = this[u]

SameStream(r) ==
  /\ life'[r] = life[r] /\ refs'[r] = refs[r] /\ vars'[r] = vars[r]
  /\ heap'[r] = heap[r] /\ holder'[r] = holder[r] /\ checks'[r] = checks[r]
  /\ server'[r] = server[r] /\ thrown'[r] = thrown[r]

LEMMA OwnerUndisturbed ==
  ASSUME NEW u, NEW r, SameStream(r), SameThread(u), OwnerIsAt(u, r)
  PROVE  OwnerIsAt(u, r)'
BY DEF SameStream, SameThread, OwnerIsAt, MadeBefore, ToldBefore, Verifies,
       LeftBefore, Failed, Succeeded, Empty, Full

(* What must be true of a stream no thread is in a call of.                *)
StreamAlone(s) ==
  /\ life[s] # "unborn"
  /\ vars[s] = IF life[s] = "live" THEN refs[s] ELSE 0
  /\ life[s] = "live" /\ refs[s] > 0 => Full(s) /\ Succeeded(s)
  /\ life[s] = "dead" => Empty(s)
  /\ \A x \in DOMAIN heap[s] : heap[s][x] # "corrupt"
  /\ holder[s] = "live" => server[s] = Facts

(* A step of a thread that has a stream to itself, or takes one nobody has,*)
(* disturbs no other thread and no other stream.                           *)
LEMMA AloneStep ==
  ASSUME IInv, TypeOK',
         NEW t \in Threads, NEW s \in Streams,
         this[t] \in {NULL, s}, \A u \in Threads \ {t} : this[u] # s,
         \A u \in Threads \ {t} : SameThread(u),
         \A r \in Streams \ {s} : SameStream(r),
         this'[t] \in {NULL, s}, pc'[t] = "idle" <=> this'[t] = NULL,
         ~Uses(t), ~Uses(t)', Owns(t)' => OwnerIsAt(t, s)', StreamAlone(s)'
  PROVE  IInv'
<1>1. TypeOK /\ ThreadsInv /\ CountInv /\ HeapInv /\ NoBadFree
      /\ DeadHoldsNothing /\ UsableMeansVerified
  BY DEF IInv
<1>2. \A u \in Threads \ {t} : (Owns(u)' <=> Owns(u)) /\ (Uses(u)' <=> Uses(u))
  BY DEF SameThread, Owns, Uses
<1>3. \A u \in Threads \ {t} : Owns(u) \/ Uses(u) => this[u] \in Streams \ {s}
  BY <1>1, LabelKinds DEF ThreadsInv, TypeOK
<1>4. ThreadsInv'
  <2>1. \A u \in Threads : pc'[u] = "idle" <=> this'[u] = NULL
    BY <1>1 DEF ThreadsInv, SameThread
  <2>2. ASSUME NEW u \in Threads, NEW v \in Threads, Owns(u)', this'[u] = this'[v]
        PROVE  u = v
    <3>1. CASE u = t
      <4>1. pc'[t] # "idle"
        BY <3>1, <2>2, InitLabels DEF Owns, InFree
      <4>2. QED  BY <3>1, <4>1, <2>2 DEF SameThread
    <3>2. CASE u # t
      <4>1. this'[u] = this[u] /\ this[u] \in Streams \ {s} /\ Owns(u)
        BY <3>2, <1>2, <1>3, <2>2 DEF SameThread
      <4>2. v # t  BY <4>1, <2>2, StreamAssumptions
      <4>3. QED  BY <4>1, <4>2, <2>2, <1>1 DEF ThreadsInv, SameThread
    <3>3. QED  BY <3>1, <3>2
  <2>3. ASSUME NEW u \in Threads, Owns(u)'  PROVE OwnerIsAt(u, this[u])'
    <3>1. CASE u = t
      <4>1. pc'[t] # "idle"
        BY <3>1, <2>3, InitLabels DEF Owns, InFree
      <4>2. this'[u] = s /\ OwnerIsAt(u, s)'  BY <3>1, <4>1, <2>3
      <4>3. QED
        BY <4>2 DEF OwnerIsAt, MadeBefore, ToldBefore, Verifies,
           LeftBefore, Failed, Succeeded, Empty, Full
    <3>2. CASE u # t
      <4>1. Owns(u) /\ this'[u] = this[u] /\ OwnerIsAt(u, this[u])
        BY <3>2, <1>1, <1>2, <2>3 DEF ThreadsInv, SameThread
      <4>2. PICK r \in Streams \ {s} : r = this[u]  BY <4>1, <1>3, <3>2
      <4>3. OwnerIsAt(u, r)'  BY <4>1, <4>2, <3>2, OwnerUndisturbed
      <4>4. QED
        BY <4>1, <4>2, <4>3 DEF OwnerIsAt, MadeBefore, ToldBefore, Verifies,
           LeftBefore, Failed, Succeeded, Empty, Full
    <3>3. QED  BY <3>1, <3>2
  <2>4. ASSUME NEW u \in Threads, Uses(u)'  PROVE life'[this'[u]] = "live"
    <3>1. u # t /\ Uses(u)  BY <1>2, <2>4
    <3>2. life[this[u]] = "live" /\ this[u] \in Streams \ {s}
      BY <3>1, <1>1, <1>3 DEF ThreadsInv
    <3>3. QED  BY <3>1, <3>2 DEF SameThread, SameStream
  <2>5. QED  BY <2>1, <2>2, <2>3, <2>4 DEF ThreadsInv
<1>5. CountInv'
  <2>1. \A r \in Streams : Calls(r)' = Calls(r)
    BY <1>2 DEF Calls, SameThread
  <2>2. Calls(s) = {}  BY DEF Calls
  <2>3. Cardinality(Calls(s)) = 0  BY <2>2, FS_EmptySet
  <2>4. ASSUME NEW r \in Streams
        PROVE  /\ life'[r] = "live" => refs'[r] = vars'[r] + Cardinality(Calls(r)')
               /\ life'[r] # "live" => vars'[r] = 0
    <3>1. CASE r = s
      BY <3>1, <2>1, <2>3 DEF StreamAlone, TypeOK
    <3>2. CASE r # s
      <4>1. SameStream(r)  BY <3>2
      <4>2. QED  BY <4>1, <2>1, <1>1 DEF CountInv, SameStream
    <3>3. QED  BY <3>1, <3>2
  <2>5. QED  BY <2>4 DEF CountInv
<1>6. HeapInv' /\ NoBadFree' /\ DeadHoldsNothing' /\ UsableMeansVerified'
  <2>1. ASSUME NEW r \in Streams
        PROVE  /\ life'[r] = "unborn" =>
                    /\ refs'[r] = 0 /\ thrown'[r] = NULL /\ holder'[r] = "none"
                    /\ \A x \in DOMAIN heap'[r] : heap'[r][x] = "none"
               /\ life'[r] = "live" /\ refs'[r] > 0 => Full(r)' /\ Succeeded(r)'
               /\ \A x \in DOMAIN heap'[r] : heap'[r][x] # "corrupt"
               /\ life'[r] = "dead" => \A x \in DOMAIN heap'[r] : heap'[r][x] # "live"
               /\ holder'[r] = "live" => server'[r] = Facts
    <3>1. CASE r = s
      BY <3>1 DEF StreamAlone, Empty
    <3>2. CASE r # s
      <4>1. SameStream(r)  BY <3>2
      <4>2. QED  BY <4>1, <1>1 DEF HeapInv, NoBadFree, DeadHoldsNothing,
                   UsableMeansVerified, SameStream, Full, Succeeded
    <3>3. QED  BY <3>1, <3>2
  <2>2. QED  BY <2>1 DEF HeapInv, NoBadFree, DeadHoldsNothing, UsableMeansVerified
<1>7. QED  BY <1>4, <1>5, <1>6 DEF IInv

(* The case of an owner that stays one.                                    *)
StreamIsFine(s) ==
  /\ life[s] = "making" \/ (life[s] = "live" /\ refs[s] = 0)
  /\ vars[s] = 0
  /\ \A x \in DOMAIN heap[s] : heap[s][x] # "corrupt"
  /\ holder[s] = "live" => server[s] = Facts

LEMMA OwnerStep ==
  ASSUME IInv, TypeOK',
         NEW t \in Threads, Owns(t), Owns(t)', this'[t] = this[t],
         \A u \in Threads \ {t} : SameThread(u),
         \A r \in Streams \ {this[t]} : SameStream(r),
         OwnerIsAt(t, this[t])', StreamIsFine(this[t])'
  PROVE  IInv'
<1>1. TypeOK /\ ThreadsInv  BY DEF IInv
<1>2. pc[t] # "idle" /\ ~Uses(t)  BY <1>1, LabelKinds
<1>3. pc'[t] # "idle" /\ ~Uses(t)'
  BY InitLabels DEF Owns, Uses, InFree, InCall
<1>4. PICK s \in Streams : s = this[t]
  BY <1>1, <1>2 DEF ThreadsInv, TypeOK
<1>5. s # NULL  BY StreamAssumptions
<1>6. \A u \in Threads \ {t} : this[u] # s
  BY <1>1, <1>4 DEF ThreadsInv
<1>7. OwnerIsAt(t, s)'
  BY <1>4 DEF OwnerIsAt, MadeBefore, ToldBefore, Verifies,
     LeftBefore, Failed, Succeeded, Empty, Full
<1>8. StreamAlone(s)'
  BY <1>4 DEF StreamIsFine, StreamAlone
<1>9. QED
  BY <1>2, <1>3, <1>4, <1>5, <1>6, <1>7, <1>8, AloneStep

-----------------------------------------------------------------------------
(* The steps of owners: the constructor and the cleanup calls.             *)

LEMMA OwnersState ==
  ASSUME IInv, NEW t \in Threads, Owns(t)
  PROVE  /\ TypeOK /\ this[t] \in Streams /\ OwnerIsAt(t, this[t]) /\ StreamIsFine(this[t])
<1>1. TypeOK /\ ThreadsInv /\ CountInv /\ NoBadFree /\ UsableMeansVerified
  BY DEF IInv
<1>2. pc[t] # "idle"  BY <1>1, LabelKinds
<1>3. this[t] \in Streams /\ OwnerIsAt(t, this[t])
  BY <1>1, <1>2 DEF ThreadsInv, TypeOK
<1>4. life[this[t]] = "making" \/ (life[this[t]] = "live" /\ refs[this[t]] = 0)
  <2>1. pc[t] \in InInit \/ pc[t] \in InFree \ {"exit"} \/ pc[t] \in {"exit", "drop", "release"}
    BY DEF Owns
  <2>2. CASE pc[t] \in InInit
    BY <2>2, <1>3 DEF OwnerIsAt
  <2>3. CASE pc[t] \in InFree \ {"exit"}
    BY <2>3, <1>3 DEF OwnerIsAt, Failed
  <2>4. CASE pc[t] \in {"exit", "drop", "release"}
    BY <2>4, <1>3 DEF OwnerIsAt, Failed
  <2>5. QED  BY <2>1, <2>2, <2>3, <2>4
<1>5. vars[this[t]] = 0
  <2>1. CASE life[this[t]] = "making"
    BY <2>1, <1>1, <1>3 DEF CountInv
  <2>2. CASE life[this[t]] = "live" /\ refs[this[t]] = 0
    BY <2>2, <1>1, <1>3, CallsFinite DEF CountInv, TypeOK
  <2>3. QED  BY <1>4, <2>1, <2>2
<1>6. \A x \in DOMAIN heap[this[t]] : heap[this[t]][x] # "corrupt"
  BY <1>1, <1>3 DEF NoBadFree
<1>7. holder[this[t]] = "live" => server[this[t]] = Facts
  BY <1>1, <1>3 DEF UsableMeansVerified
<1>8. QED  BY <1>1, <1>3, <1>4, <1>5, <1>6, <1>7 DEF StreamIsFine

LEMMA InitSucceedsStep ==
  ASSUME IInv, NEW t \in Threads, InitSucceeds(t)
  PROVE  IInv'
<1> DEFINE s == this[t]
<1>1. Owns(t)  BY DEF InitSucceeds, Owns
<1>2. TypeOK /\ s \in Streams /\ OwnerIsAt(t, s) /\ StreamIsFine(s)
  BY <1>1, OwnersState
<1>3. /\ this' = this /\ life' = life /\ refs' = refs /\ vars' = vars
      /\ hostName' = hostName /\ server' = server /\ thrown' = thrown
  BY DEF InitSucceeds, objVars
<1>4. /\ life[s] = "making" /\ refs[s] = 2 /\ thrown[s] = NULL /\ holder[s] = "none"
      /\ MadeBefore(pc[t], s) /\ ToldBefore(pc[t], s)
  BY <1>2 DEF InitSucceeds, OwnerIsAt
<1>5. pc' = [pc EXCEPT ![t] = After[pc[t]]]
  BY DEF InitSucceeds, Goto
<1>6. Owns(t)' /\ After[pc[t]] \in Labels
  BY <1>2, <1>5, InitLabels, InitOrder DEF InitSucceeds, Owns, Labels, InFree, TypeOK
<1>7. /\ heap' \in [Streams -> [{"ctx", "ssl", "cert"} -> {"none", "live", "freed", "corrupt"}]]
      /\ \A r \in Streams \ {s} : heap'[r] = heap[r]
  BY <1>2 DEF InitSucceeds, HeapAfter, TypeOK
<1>8. /\ checks' \in [Streams -> SUBSET {"VERIFY_PEER", "identity"}]
      /\ \A r \in Streams \ {s} : checks'[r] = checks[r]
  BY <1>2 DEF InitSucceeds, ChecksAfter, TypeOK
<1>9. /\ holder' \in [Streams -> {"none", "live"}]
      /\ \A r \in Streams \ {s} : holder'[r] = holder[r]
      /\ holder'[s] = IF pc[t] = "calloc" THEN "live" ELSE "none"
  BY <1>2, <1>4 DEF InitSucceeds, TypeOK
<1>10. TypeOK'
  BY <1>2, <1>3, <1>5, <1>6, <1>7, <1>8, <1>9 DEF TypeOK
<1>11. (pc[t] \in InInit)' => MadeBefore(pc[t], s)'
  <2>1. /\ heap'[s].ctx = IF pc[t] = "SSL_CTX_new" THEN "live" ELSE heap[s].ctx
        /\ heap'[s].ssl = IF pc[t] = "SSL_new" THEN "live" ELSE heap[s].ssl
        /\ heap'[s].cert = IF pc[t] = "SSL_get_peer_certificate" THEN "live" ELSE heap[s].cert
    BY <1>2 DEF InitSucceeds, HeapAfter, TypeOK
  <2>2. pc[t] \in InInit /\ pc'[t] = After[pc[t]] /\ this'[t] = this[t]
    BY <1>2, <1>3, <1>5 DEF InitSucceeds, TypeOK
  <2>3. QED
    BY <2>1, <2>2, <1>4, InitLabels, InitOrder DEF MadeBefore
<1>12. (pc[t] \in InInit)' => ToldBefore(pc[t], s)'
  <2>1. /\ pc[t] = "SSL_CTX_set_verify" => checks'[s] = checks[s] \cup {"VERIFY_PEER"}
        /\ pc[t] = "SSL_set1_host" => checks'[s] = checks[s] \cup {"identity"}
        /\ pc[t] \notin {"SSL_CTX_set_verify", "SSL_set1_host"} => checks'[s] = checks[s]
    BY <1>2 DEF InitSucceeds, ChecksAfter, TypeOK
  <2>2. /\ pc[t] = "SSL_connect" /\ "VERIFY_PEER" \in checks[s] => Verifies(s)
        /\ pc[t] = "SSL_get_peer_certificate" => "presents" \in server[s]
    BY DEF InitSucceeds, MaySucceed
  <2>3. checks'[s] = checks[s] => Verifies(s)' = Verifies(s)
    BY <1>3 DEF Verifies
  <2>4. pc[t] \in InInit /\ pc'[t] = After[pc[t]] /\ this'[t] = this[t]
    BY <1>2, <1>3, <1>5 DEF InitSucceeds, TypeOK
  <2>5. QED
    BY <2>1, <2>2, <2>3, <2>4, <1>3, <1>4, InitLabels, InitOrder DEF ToldBefore
<1>13. pc[t] = "calloc" => pc'[t] = "exit" /\ Full(s)' /\ server[s] = Facts
  BY <1>2, <1>4, <1>5, InitOrder
     DEF InitSucceeds, MadeBefore, ToldBefore, HeapAfter, Verifies, Full, Facts, TypeOK
<1>14. pc[t] # "calloc" => pc'[t] \in InInit
  BY <1>2, <1>5, InitLabels, InitOrder DEF InitSucceeds, TypeOK
<1>15. pc'[t] \notin InInit => pc'[t] = "exit"
  BY <1>13, <1>14
<1>16. OwnerIsAt(t, s)'
  <2>1. CASE pc[t] = "calloc"
    BY <2>1, <1>3, <1>4, <1>9, <1>13, InitLabels DEF OwnerIsAt, InFree, Succeeded
  <2>2. CASE pc[t] # "calloc"
    <3>1. (pc[t] \in InInit)' /\ MadeBefore(pc[t], s)' /\ ToldBefore(pc[t], s)'
      BY <2>2, <1>11, <1>12, <1>14
    <3>2. (pc[t] \notin InFree \cup {"drop", "release"})'
      BY <3>1, InitLabels DEF InFree
    <3>3. (life[s] = "making" /\ refs[s] = 2 /\ thrown[s] = NULL /\ holder[s] = "none")'
      BY <2>2, <1>3, <1>4, <1>9
    <3>4. QED  BY <3>1, <3>2, <3>3 DEF OwnerIsAt, InFree
  <2>3. QED  BY <2>1, <2>2
<1>17. StreamIsFine(s)'
  <2>1. \A x \in DOMAIN heap'[s] : heap'[s][x] # "corrupt"
    BY <1>2 DEF InitSucceeds, HeapAfter, StreamIsFine, TypeOK
  <2>2. QED
    BY <2>1, <1>2, <1>3, <1>4, <1>9, <1>13 DEF StreamIsFine
<1>18. \A u \in Threads \ {t} : SameThread(u)
  BY <1>2, <1>3, <1>5 DEF SameThread, TypeOK
<1>19. \A r \in Streams \ {s} : SameStream(r)
  BY <1>3, <1>7, <1>8, <1>9 DEF SameStream
<1>20. QED
  BY <1>1, <1>3, <1>6, <1>10, <1>16, <1>17, <1>18, <1>19, OwnerStep

LEMMA InitFailsStep ==
  ASSUME IInv, NEW t \in Threads, InitFails(t)
  PROVE  IInv'
<1> DEFINE s == this[t]
<1>1. Owns(t)  BY DEF InitFails, Owns
<1>2. TypeOK /\ s \in Streams /\ OwnerIsAt(t, s) /\ StreamIsFine(s)
  BY <1>1, OwnersState
<1>3. /\ this' = this /\ life' = life /\ refs' = refs /\ vars' = vars
      /\ hostName' = hostName /\ server' = server
      /\ heap' = heap /\ holder' = holder /\ checks' = checks
  BY DEF InitFails, sslVars
<1>4. /\ life[s] = "making" /\ refs[s] = 2 /\ holder[s] = "none"
      /\ MadeBefore(pc[t], s)
  BY <1>2 DEF InitFails, OwnerIsAt
<1>5. /\ pc' = [pc EXCEPT ![t] = FailLabel(pc[t])]
      /\ thrown' = [thrown EXCEPT ![s] = pc[t]]
      /\ pc[t] \in InInit /\ pc[t] \notin {"SSL_CTX_set_verify", "calloc"}
      /\ pc[t] # NULL
  <2>1. pc[t] # NULL  BY StreamAssumptions DEF InitFails
  <2>2. QED  BY <2>1 DEF InitFails, Goto, MayFail
<1>6. pc'[t] = FailLabel(pc[t]) /\ thrown'[s] = pc[t]
  BY <1>2, <1>5 DEF TypeOK
<1>7. FailLabel(pc[t]) \in InFree /\ FailLabel(pc[t]) \in Labels
  BY DEF FailLabel, InFree, Labels
<1>8. Owns(t)'  BY <1>6, <1>7 DEF Owns
<1>9. TypeOK'
  BY <1>2, <1>3, <1>5, <1>7 DEF TypeOK
<1>10. /\ FailLabel(pc[t]) # "exit" => LeftBefore(FailLabel(pc[t]), s)
       /\ FailLabel(pc[t]) = "exit" => Empty(s)
  BY <1>2, <1>4, <1>5, InitLabels DEF FailLabel, LeftBefore, MadeBefore, Empty, TypeOK
<1>11. OwnerIsAt(t, s)'
  <2>1. pc'[t] \notin InInit \cup {"drop", "release"}
    BY <1>6, <1>7, InitLabels DEF InFree
  <2>2. Failed(s)' /\ (refs[s] = 2)'
    BY <1>3, <1>4, <1>5, <1>6 DEF Failed
  <2>3. (pc[t] # "exit" => LeftBefore(pc[t], s))' /\ (pc[t] = "exit" => Empty(s))'
    BY <1>3, <1>6, <1>10 DEF LeftBefore, Empty
  <2>4. QED  BY <2>1, <2>2, <2>3 DEF OwnerIsAt
<1>12. StreamIsFine(s)'  BY <1>2, <1>3 DEF StreamIsFine
<1>13. \A u \in Threads \ {t} : SameThread(u)
  BY <1>2, <1>3, <1>5 DEF SameThread, TypeOK
<1>14. \A r \in Streams \ {s} : SameStream(r)
  BY <1>2, <1>3, <1>5 DEF SameStream, TypeOK
<1>15. QED
  BY <1>1, <1>3, <1>8, <1>9, <1>11, <1>12, <1>13, <1>14, OwnerStep

(* A cleanup call goes on to the next label and frees what it names.       *)
LEMMA CleanupStep ==
  ASSUME IInv, NEW t \in Threads,
         X509Free(t) \/ SSLShutdown(t) \/ SSLFree(t) \/ SSLCTXFree(t) \/ Release(t)
  PROVE  IInv'
<1> DEFINE s == this[t]
<1>1. Owns(t)
  BY DEF X509Free, SSLShutdown, SSLFree, SSLCTXFree, Release, Owns, InFree
<1>2. TypeOK /\ s \in Streams /\ OwnerIsAt(t, s) /\ StreamIsFine(s)
  BY <1>1, OwnersState
<1>3. /\ this' = this /\ life' = life /\ refs' = refs /\ vars' = vars
      /\ hostName' = hostName /\ server' = server /\ thrown' = thrown
      /\ holder' = holder /\ checks' = checks
  BY DEF X509Free, SSLShutdown, SSLFree, SSLCTXFree, Release, objVars, sslVars
<1>4. /\ pc' = [pc EXCEPT ![t] = pc'[t]]
      /\ pc'[t] \in InFree
  BY <1>2 DEF X509Free, SSLShutdown, SSLFree, SSLCTXFree, Release, Goto, TypeOK, InFree
<1>5. /\ heap' \in [Streams -> [{"ctx", "ssl", "cert"} -> {"none", "live", "freed", "corrupt"}]]
      /\ \A r \in Streams \ {s} : heap'[r] = heap[r]
  BY <1>2 DEF X509Free, SSLShutdown, SSLFree, SSLCTXFree, Release, sslVars, Free, TypeOK
<1>6. Owns(t)'  BY <1>4 DEF Owns
<1>7. TypeOK'
  BY <1>2, <1>3, <1>4, <1>5 DEF TypeOK, Labels
<1>8. /\ \A x \in DOMAIN heap'[s] : heap'[s][x] # "corrupt"
      /\ pc'[t] # "exit" => LeftBefore(pc[t], s)'
      /\ pc'[t] = "exit" => Empty(s)'
  <2>1. CASE X509Free(t)
    BY <2>1, <1>2, <1>3 DEF X509Free, Goto, Free, OwnerIsAt, InFree, LeftBefore,
       StreamIsFine, TypeOK
  <2>2. CASE SSLShutdown(t)
    BY <2>2, <1>2, <1>3 DEF SSLShutdown, Goto, sslVars, OwnerIsAt, InFree, LeftBefore,
       StreamIsFine, TypeOK
  <2>3. CASE SSLFree(t)
    BY <2>3, <1>2, <1>3 DEF SSLFree, Goto, Free, OwnerIsAt, InFree, LeftBefore,
       StreamIsFine, TypeOK
  <2>4. CASE SSLCTXFree(t)
    <3>1. LeftBefore("SSL_CTX_free", s)
      BY <2>4, <1>2 DEF SSLCTXFree, OwnerIsAt, InFree
    <3>2. heap' = [heap EXCEPT ![s].ctx = "freed"] /\ pc'[t] = "exit"
      BY <2>4, <3>1, <1>2 DEF SSLCTXFree, Goto, Free, LeftBefore, TypeOK
    <3>3. /\ heap'[s].ctx = "freed"
          /\ heap'[s].ssl = heap[s].ssl /\ heap'[s].cert = heap[s].cert
          /\ heap[s].ssl # "live" /\ heap[s].cert # "live"
      BY <3>1, <3>2, <1>2 DEF LeftBefore, TypeOK
    <3>4. DOMAIN heap'[s] = {"ctx", "ssl", "cert"} /\ DOMAIN heap[s] = {"ctx", "ssl", "cert"}
      BY <1>2, <1>5 DEF TypeOK
    <3>5. QED
      BY <3>2, <3>3, <3>4, <1>2, <1>3 DEF Empty, StreamIsFine
  <2>5. CASE Release(t)
    BY <2>5, <1>2, <1>3 DEF Release, Goto, sslVars, OwnerIsAt, InFree, LeftBefore,
       Failed, Succeeded, Full, Empty, StreamIsFine, TypeOK
  <2>6. QED  BY <2>1, <2>2, <2>3, <2>4, <2>5
<1>9. OwnerIsAt(t, s)'
  <2>1. \/ Failed(s) /\ refs[s] = 2
        \/ Failed(s) /\ refs[s] = 0 /\ pc'[t] = "exit"
        \/ Succeeded(s) /\ life[s] = "live" /\ refs[s] = 0
    BY <1>2 DEF X509Free, SSLShutdown, SSLFree, SSLCTXFree, Release, Goto, OwnerIsAt,
       InFree, Failed, Succeeded, TypeOK
  <2>2. (Failed(s)' <=> Failed(s)) /\ (Succeeded(s)' <=> Succeeded(s))
    BY <1>3 DEF Failed, Succeeded
  <2>3. pc'[t] \notin InInit \cup {"drop", "release"}
    BY <1>4, InitLabels DEF InFree
  <2>4. QED  BY <2>1, <2>2, <2>3, <1>3, <1>8 DEF OwnerIsAt
<1>10. StreamIsFine(s)'  BY <1>2, <1>3, <1>8 DEF StreamIsFine
<1>11. \A u \in Threads \ {t} : SameThread(u)
  BY <1>2, <1>3, <1>4 DEF SameThread, TypeOK
<1>12. \A r \in Streams \ {s} : SameStream(r)
  BY <1>3, <1>5 DEF SameStream
<1>13. QED
  BY <1>1, <1>3, <1>6, <1>7, <1>9, <1>10, <1>11, <1>12, OwnerStep

(* An owner has its stream to itself.                                      *)
LEMMA OwnersAreAlone ==
  ASSUME IInv, NEW t \in Threads, Owns(t)
  PROVE  /\ \A u \in Threads \ {t} : this[u] # this[t]
         /\ ~Uses(t) /\ this[t] # NULL
<1>1. TypeOK /\ ThreadsInv  BY DEF IInv
<1>2. ~Uses(t) /\ pc[t] # "idle"  BY <1>1, LabelKinds
<1>3. QED  BY <1>1, <1>2 DEF ThreadsInv

(* __exit of _native_init, with a stream or with an exception.             *)
LEMMA ExitInitStep ==
  ASSUME IInv, NEW t \in Threads, ExitInit(t)
  PROVE  IInv'
<1> DEFINE s == this[t]
<1>1. Owns(t)  BY DEF ExitInit, Owns, InFree
<1>2. TypeOK /\ s \in Streams /\ OwnerIsAt(t, s) /\ StreamIsFine(s)
  BY <1>1, OwnersState
<1>3. /\ hostName' = hostName /\ server' = server /\ thrown' = thrown
      /\ heap' = heap /\ holder' = holder /\ checks' = checks
      /\ refs' = [refs EXCEPT ![s] = @ - 1]
      /\ pc[t] = "exit" /\ life[s] = "making" /\ refs[s] > 0
  BY DEF ExitInit, sslVars, RefsAfterInit
<1>4. \/ Failed(s) /\ refs[s] = 2 /\ Empty(s)
      \/ Succeeded(s) /\ refs[s] = 2 /\ Full(s)
  BY <1>2, <1>3 DEF OwnerIsAt, Succeeded
<1>5. refs'[s] = 1 /\ refs' \in [Streams -> Nat]
  BY <1>2, <1>3, <1>4 DEF TypeOK
<1>6. CASE thrown[s] = NULL
  <2>1. /\ life' = [life EXCEPT ![s] = "live"] /\ vars' = [vars EXCEPT ![s] = 1]
        /\ pc' = [pc EXCEPT ![t] = "idle"] /\ this' = [this EXCEPT ![t] = NULL]
    BY <1>6 DEF ExitInit, Goto
  <2>2. TypeOK'
    BY <1>2, <1>3, <1>5, <2>1, StreamAssumptions DEF TypeOK, Labels
  <2>3. ~Owns(t)' /\ ~Uses(t)' /\ pc'[t] = "idle" /\ this'[t] = NULL
    BY <1>2, <2>1, InitLabels DEF TypeOK, Owns, Uses, InFree, InCall
  <2>4. \A u \in Threads \ {t} : SameThread(u)
    BY <1>2, <2>1 DEF SameThread, TypeOK
  <2>5. \A r \in Streams \ {s} : SameStream(r)
    BY <1>2, <1>3, <2>1 DEF SameStream, TypeOK
  <2>6. Full(s) /\ Succeeded(s)
    BY <1>4, <1>6 DEF Failed
  <2>7. PICK r \in Streams : r = s  BY <1>2
  <2>8. StreamAlone(r)'
    <3>1. life'[r] = "live" /\ vars'[r] = 1 /\ refs'[r] = 1
      BY <1>2, <1>5, <2>1, <2>7 DEF TypeOK
    <3>2. Full(r)' /\ Succeeded(r)'
      BY <1>3, <2>6, <2>7 DEF Full, Succeeded
    <3>3. QED
      BY <3>1, <3>2, <1>2, <1>3, <2>7 DEF StreamAlone, StreamIsFine
  <2>9. \A u \in Threads \ {t} : this[u] # r
    BY <1>1, <2>7, OwnersAreAlone
  <2>10. QED
    BY <1>1, <2>2, <2>3, <2>4, <2>5, <2>7, <2>8, <2>9, OwnersAreAlone, AloneStep
<1>7. CASE thrown[s] # NULL
  <2>1. life' = life /\ vars' = vars /\ this' = this /\ pc' = [pc EXCEPT ![t] = "drop"]
    BY <1>7 DEF ExitInit, Goto
  <2>2. TypeOK'
    BY <1>2, <1>3, <1>5, <2>1 DEF TypeOK, Labels
  <2>3. pc'[t] = "drop" /\ Owns(t)'
    BY <1>2, <2>1 DEF Owns, TypeOK
  <2>4. OwnerIsAt(t, s)'
    BY <1>3, <1>4, <1>5, <1>7, <2>1, <2>3, InitLabels
       DEF OwnerIsAt, InFree, Failed, Succeeded, Empty
  <2>5. StreamIsFine(s)'  BY <1>2, <1>3, <2>1 DEF StreamIsFine
  <2>6. \A u \in Threads \ {t} : SameThread(u)
    BY <1>2, <2>1 DEF SameThread, TypeOK
  <2>7. \A r \in Streams \ {s} : SameStream(r)
    BY <1>2, <1>3, <2>1 DEF SameStream, TypeOK
  <2>8. QED
    BY <1>1, <2>1, <2>2, <2>3, <2>4, <2>5, <2>6, <2>7, OwnerStep
<1>8. QED  BY <1>6, <1>7

LEMMA DropFailedStep ==
  ASSUME IInv, NEW t \in Threads, DropFailed(t)
  PROVE  IInv'
<1> DEFINE s == this[t]
<1>1. Owns(t)  BY DEF DropFailed, Owns
<1>2. TypeOK /\ s \in Streams /\ OwnerIsAt(t, s) /\ StreamIsFine(s)
  BY <1>1, OwnersState
<1>3. Failed(s) /\ refs[s] = 1 /\ Empty(s)
  BY <1>2 DEF DropFailed, OwnerIsAt
<1>4. /\ life' = life /\ vars' = vars /\ hostName' = hostName /\ server' = server
      /\ thrown' = thrown /\ heap' = heap /\ holder' = holder /\ checks' = checks
      /\ refs' = [refs EXCEPT ![s] = @ - 1]
      /\ pc' = [pc EXCEPT ![t] = "release"] /\ this' = [this EXCEPT ![t] = s]
  BY <1>3 DEF DropFailed, Decrease, Goto, sslVars
<1>5. refs'[s] = 0 /\ refs' \in [Streams -> Nat] /\ pc'[t] = "release" /\ this' = this
  BY <1>2, <1>3, <1>4 DEF TypeOK
<1>6. TypeOK'  BY <1>2, <1>4, <1>5 DEF TypeOK, Labels
<1>7. Owns(t)'  BY <1>5 DEF Owns
<1>8. OwnerIsAt(t, s)'
  BY <1>3, <1>4, <1>5, InitLabels DEF OwnerIsAt, InFree, Failed, Empty
<1>9. StreamIsFine(s)'  BY <1>2, <1>3, <1>4, <1>5 DEF StreamIsFine, Failed
<1>10. \A u \in Threads \ {t} : SameThread(u)
  BY <1>2, <1>4 DEF SameThread, TypeOK
<1>11. \A r \in Streams \ {s} : SameStream(r)
  BY <1>2, <1>4 DEF SameStream, TypeOK
<1>12. QED
  BY <1>1, <1>5, <1>6, <1>7, <1>8, <1>9, <1>10, <1>11, OwnerStep

LEMMA ExitReleaseStep ==
  ASSUME IInv, NEW t \in Threads, ExitRelease(t)
  PROVE  IInv'
<1> DEFINE s == this[t]
<1>1. Owns(t)  BY DEF ExitRelease, Owns, InFree
<1>2. TypeOK /\ s \in Streams /\ OwnerIsAt(t, s) /\ StreamIsFine(s)
  BY <1>1, OwnersState
<1>3. /\ life' = [life EXCEPT ![s] = "dead"]
      /\ pc' = [pc EXCEPT ![t] = "idle"] /\ this' = [this EXCEPT ![t] = NULL]
      /\ refs' = refs /\ vars' = vars /\ hostName' = hostName /\ server' = server
      /\ thrown' = thrown /\ heap' = heap /\ holder' = holder /\ checks' = checks
  BY DEF ExitRelease, Goto, sslVars
<1>4. Empty(s)
  BY <1>2 DEF ExitRelease, OwnerIsAt
<1>5. TypeOK'  BY <1>2, <1>3 DEF TypeOK, Labels
<1>6. ~Owns(t)' /\ ~Uses(t)' /\ pc'[t] = "idle" /\ this'[t] = NULL
  BY <1>2, <1>3, InitLabels DEF TypeOK, Owns, Uses, InFree, InCall
<1>7. \A u \in Threads \ {t} : SameThread(u)
  BY <1>2, <1>3 DEF SameThread, TypeOK
<1>8. \A r \in Streams \ {s} : SameStream(r)
  BY <1>2, <1>3 DEF SameStream, TypeOK
<1>9. PICK r \in Streams : r = s  BY <1>2
<1>10. StreamAlone(r)'
  <2>1. life'[r] = "dead" /\ vars'[r] = 0
    BY <1>2, <1>3, <1>9 DEF TypeOK, StreamIsFine
  <2>2. QED
    BY <2>1, <1>2, <1>3, <1>4, <1>9 DEF StreamAlone, StreamIsFine, Empty
<1>11. QED
  BY <1>1, <1>5, <1>6, <1>7, <1>8, <1>9, <1>10, OwnersAreAlone, AloneStep

(* A new object: nobody knew it before.                                    *)
LEMMA NewStep ==
  ASSUME IInv, NEW t \in Threads, NEW s \in Streams,
         NEW h \in HostNames, NEW f \in SUBSET Facts, New(t, s, h, f)
  PROVE  IInv'
<1>1. TypeOK /\ ThreadsInv /\ CountInv /\ HeapInv /\ NoBadFree /\ UsableMeansVerified
  BY DEF IInv
<1>2. /\ pc[t] = "idle" /\ life[s] = "unborn" /\ life' = [life EXCEPT ![s] = "making"]
      /\ refs' = [refs EXCEPT ![s] = 2] /\ hostName' = [hostName EXCEPT ![s] = h]
      /\ server' = [server EXCEPT ![s] = f] /\ this' = [this EXCEPT ![t] = s]
      /\ pc' = [pc EXCEPT ![t] = "SSL_CTX_new"]
      /\ vars' = vars /\ thrown' = thrown
      /\ heap' = heap /\ holder' = holder /\ checks' = checks
  BY DEF New, Goto, sslVars
<1>3. TypeOK'
  BY <1>1, <1>2, InitLabels DEF TypeOK, Labels
<1>4. pc'[t] = "SSL_CTX_new" /\ this'[t] = s /\ s # NULL /\ this[t] = NULL
  BY <1>1, <1>2, StreamAssumptions DEF TypeOK, ThreadsInv
<1>5. ~Uses(t) /\ ~Uses(t)'
  BY <1>2, <1>4 DEF Uses, InCall
<1>6. \A u \in Threads : this[u] # s
  <2>1. SUFFICES ASSUME NEW u \in Threads, this[u] = s  PROVE FALSE
    OBVIOUS
  <2>2. pc[u] # "idle"  BY <2>1, <1>1, <1>4 DEF ThreadsInv
  <2>3. Owns(u) \/ Uses(u)  BY <2>2, <1>1, LabelKinds
  <2>4. life[s] # "unborn"
    BY <2>1, <2>3, <1>1, OwnersState DEF ThreadsInv, StreamIsFine
  <2>5. QED  BY <2>4, <1>2
<1>7. /\ refs[s] = 0 /\ thrown[s] = NULL /\ holder[s] = "none" /\ vars[s] = 0
      /\ \A x \in DOMAIN heap[s] : heap[s][x] = "none"
  BY <1>1, <1>2 DEF HeapInv, CountInv
<1>8. heap[s].ctx = "none" /\ heap[s].ssl = "none" /\ heap[s].cert = "none"
  BY <1>7, <1>1 DEF TypeOK
<1>9. OwnerIsAt(t, s)'
  <2>1. life'[s] = "making" /\ refs'[s] = 2
    BY <1>1, <1>2 DEF TypeOK
  <2>2. MadeBefore(pc[t], s)' /\ ToldBefore(pc[t], s)'
    BY <1>2, <1>4, <1>8 DEF MadeBefore, ToldBefore
  <2>3. QED
    BY <2>1, <2>2, <1>2, <1>4, <1>7 DEF OwnerIsAt, InFree
<1>10. StreamAlone(s)'
  BY <1>1, <1>2, <1>7 DEF StreamAlone, TypeOK
<1>11. \A u \in Threads \ {t} : SameThread(u)
  BY <1>1, <1>2 DEF SameThread, TypeOK
<1>12. \A r \in Streams \ {s} : SameStream(r)
  BY <1>1, <1>2 DEF SameStream, TypeOK
<1>13. QED
  BY <1>3, <1>4, <1>5, <1>6, <1>9, <1>10, <1>11, <1>12, AloneStep

-----------------------------------------------------------------------------
(* The steps of a live stream's users.                                     *)

(* A live stream that is referred to is whole, and nobody owns it.         *)
LEMMA UsersState ==
  ASSUME IInv, NEW s \in Streams, life[s] = "live", refs[s] > 0
  PROVE  /\ Full(s) /\ Succeeded(s)
         /\ \A u \in Threads : Owns(u) => this[u] # s
<1>1. Full(s) /\ Succeeded(s)  BY DEF IInv, HeapInv
<1>2. ASSUME NEW u \in Threads, Owns(u)  PROVE this[u] # s
  BY <1>2, OwnersState DEF StreamIsFine, TypeOK
<1>3. QED  BY <1>1, <1>2

(* References to a stream are at least its variables, and a call is one.   *)
LEMMA Counted ==
  ASSUME IInv, NEW s \in Streams
  PROVE  /\ vars[s] > 0 => life[s] = "live" /\ refs[s] >= vars[s]
         /\ \A t \in Threads : Uses(t) /\ this[t] = s =>
              life[s] = "live" /\ refs[s] > 0
<1>1. TypeOK /\ CountInv /\ ThreadsInv  BY DEF IInv
<1>2. vars[s] \in Nat /\ refs[s] \in Nat  BY <1>1, StreamAssumptions DEF TypeOK
<1>3. vars[s] > 0 => life[s] = "live" /\ refs[s] >= vars[s]
  BY <1>1, <1>2, CallsFinite DEF CountInv
<1>4. ASSUME NEW t \in Threads, Uses(t), this[t] = s
      PROVE  life[s] = "live" /\ refs[s] > 0
  <2>1. Calls(s) # {}  BY <1>4 DEF Calls
  <2>2. Cardinality(Calls(s)) # 0  BY <2>1, CallsFinite, FS_EmptySet
  <2>3. life[s] = "live"  BY <1>1, <1>4 DEF ThreadsInv
  <2>4. QED  BY <2>2, <2>3, <1>1, <1>2, CallsFinite DEF CountInv
<1>5. QED  BY <1>3, <1>4

(* A step of at most one thread t that changes only the count of a live    *)
(* stream: it enters or leaves a call, or drops a reference, the last one  *)
(* perhaps and then it goes on to release the stream.                      *)
LEMMA UserStep ==
  ASSUME IInv, TypeOK',
         NEW t \in Threads, NEW s \in Streams,
         life[s] = "live", refs[s] > 0,
         ~Owns(t), this[t] \in {NULL, s}, this'[t] \in {NULL, s},
         pc'[t] = "idle" <=> this'[t] = NULL,
         Owns(t)' => pc'[t] = "release" /\ refs'[s] = 0,
         refs'[s] = vars'[s] + Cardinality(Calls(s)'),
         \A u \in Threads \ {t} : SameThread(u),
         \A r \in Streams \ {s} : refs'[r] = refs[r] /\ vars'[r] = vars[r],
         life' = life, thrown' = thrown, server' = server,
         heap' = heap, holder' = holder, checks' = checks
  PROVE  IInv'
<1>1. TypeOK /\ ThreadsInv /\ CountInv /\ HeapInv /\ NoBadFree
      /\ DeadHoldsNothing /\ UsableMeansVerified
  BY DEF IInv
<1>2. \A u \in Threads \ {t} : (Owns(u)' <=> Owns(u)) /\ (Uses(u)' <=> Uses(u))
  BY DEF SameThread, Owns, Uses
<1>3. /\ Full(s) /\ Succeeded(s)
      /\ \A u \in Threads : Owns(u) => this[u] # s
  BY UsersState
<1>4. \A u \in Threads : Owns(u) => u # t /\ this[u] \in Streams \ {s}
  BY <1>3, OwnersState
<1>5. Owns(t)' => this'[t] = s /\ \A u \in Threads \ {t} : this'[u] # s
  <2>1. SUFFICES ASSUME Owns(t)'
                 PROVE  this'[t] = s /\ \A u \in Threads \ {t} : this'[u] # s
    OBVIOUS
  <2>2. pc'[t] = "release" /\ this'[t] = s /\ refs'[s] = 0
    BY <2>1
  <2>3. vars'[s] \in Nat  BY StreamAssumptions DEF TypeOK
  <2>4. IsFiniteSet(Calls(s)') /\ Cardinality(Calls(s)') \in Nat
    <3>1. Calls(s)' \in SUBSET Threads  BY DEF Calls
    <3>2. QED  BY <3>1, FS_Subset, FS_CardinalityType, StreamAssumptions
  <2>5. Calls(s)' = {}  BY <2>2, <2>3, <2>4, FS_EmptySet
  <2>6. ASSUME NEW u \in Threads \ {t}, this'[u] = s  PROVE FALSE
    <3>1. this[u] = s /\ this[u] # NULL  BY <2>6, StreamAssumptions DEF SameThread
    <3>2. Uses(u)  BY <3>1, <1>1, <1>3, LabelKinds DEF ThreadsInv
    <3>3. u \in Calls(s)'  BY <3>2, <2>6, <1>2 DEF Calls
    <3>4. QED  BY <3>3, <2>5
  <2>7. QED  BY <2>2, <2>6
<1>6. ThreadsInv'
  <2>1. \A u \in Threads : pc'[u] = "idle" <=> this'[u] = NULL
    BY <1>1 DEF ThreadsInv, SameThread
  <2>2. ASSUME NEW u \in Threads, NEW v \in Threads, Owns(u)', this'[u] = this'[v]
        PROVE  u = v
    <3>1. CASE u = t  BY <3>1, <2>2, <1>5
    <3>2. CASE u # t
      <4>1. this'[u] = this[u] /\ this[u] \in Streams \ {s} /\ Owns(u)
        BY <3>2, <1>2, <1>4, <2>2 DEF SameThread
      <4>2. v # t  BY <4>1, <2>2, StreamAssumptions
      <4>3. QED  BY <4>1, <4>2, <2>2, <1>1 DEF ThreadsInv, SameThread
    <3>3. QED  BY <3>1, <3>2
  <2>3. ASSUME NEW u \in Threads, Owns(u)'  PROVE OwnerIsAt(u, this[u])'
    <3>1. CASE u = t
      <4>1. this'[t] = s /\ pc'[t] = "release" /\ refs'[s] = 0
        BY <3>1, <2>3, <1>5
      <4>2. Full(s)' /\ Succeeded(s)' /\ life'[s] = "live"
        BY <1>3 DEF Full, Succeeded
      <4>3. QED
        BY <3>1, <4>1, <4>2, InitLabels DEF OwnerIsAt, InFree, Full, Succeeded
    <3>2. CASE u # t
      <4>1. Owns(u) /\ this'[u] = this[u] /\ OwnerIsAt(u, this[u])
        BY <3>2, <1>1, <1>2, <2>3 DEF ThreadsInv, SameThread
      <4>2. PICK r \in Streams \ {s} : r = this[u]  BY <4>1, <1>4
      <4>3. SameStream(r)  BY <4>2 DEF SameStream
      <4>4. OwnerIsAt(u, r)'  BY <4>1, <4>2, <4>3, <3>2, OwnerUndisturbed
      <4>5. QED
        BY <4>1, <4>2, <4>4 DEF OwnerIsAt, MadeBefore, ToldBefore, Verifies,
           LeftBefore, Failed, Succeeded, Empty, Full
    <3>3. QED  BY <3>1, <3>2
  <2>4. ASSUME NEW u \in Threads, Uses(u)'  PROVE life'[this'[u]] = "live"
    <3>1. CASE u = t
      <4>1. pc'[t] # "idle"  BY <3>1, <2>4 DEF Uses, InCall
      <4>2. QED  BY <3>1, <4>1
    <3>2. CASE u # t
      BY <3>2, <2>4, <1>1, <1>2 DEF ThreadsInv, SameThread
    <3>3. QED  BY <3>1, <3>2
  <2>5. QED  BY <2>1, <2>2, <2>3, <2>4 DEF ThreadsInv
<1>7. CountInv'
  <2>1. ASSUME NEW r \in Streams \ {s}  PROVE Calls(r)' = Calls(r)
    <3>1. r # NULL  BY StreamAssumptions
    <3>2. this[t] # r /\ this'[t] # r  BY <3>1
    <3>3. QED  BY <3>2, <1>2 DEF Calls, SameThread
  <2>2. QED  BY <2>1, <1>1 DEF CountInv
<1>8. HeapInv' /\ NoBadFree' /\ DeadHoldsNothing' /\ UsableMeansVerified'
  <2>1. HeapInv'
    BY <1>1, <1>3 DEF HeapInv, Full, Succeeded
  <2>2. NoBadFree' /\ DeadHoldsNothing' /\ UsableMeansVerified'
    BY <1>1 DEF NoBadFree, DeadHoldsNothing, UsableMeansVerified
  <2>3. QED  BY <2>1, <2>2
<1>9. QED  BY <1>6, <1>7, <1>8 DEF IInv

(* Dropping a reference: the state of t afterwards.                        *)
LEMMA Decreased ==
  ASSUME TypeOK, NEW t \in Threads, NEW s \in Streams, refs[s] > 0, Decrease(t, s)
  PROVE  /\ refs' = [refs EXCEPT ![s] = @ - 1] /\ refs'[s] = refs[s] - 1
         /\ refs' \in [Streams -> Nat]
         /\ pc' \in [Threads -> Labels] /\ this' \in [Threads -> Streams \cup {NULL}]
         /\ \A u \in Threads \ {t} : SameThread(u)
         /\ \/ refs[s] = 1 /\ pc'[t] = "release" /\ this'[t] = s
            \/ refs[s] # 1 /\ pc'[t] = "idle" /\ this'[t] = NULL
         /\ ~Uses(t)' /\ (Owns(t)' => pc'[t] = "release")
<1>1. refs' = [refs EXCEPT ![s] = @ - 1]  BY DEF Decrease
<1>2. CASE refs[s] = 1
  <2>1. pc' = [pc EXCEPT ![t] = "release"] /\ this' = [this EXCEPT ![t] = s]
    BY <1>2 DEF Decrease, Goto
  <2>2. QED
    BY <1>1, <1>2, <2>1 DEF TypeOK, Labels, SameThread, Uses, InCall
<1>3. CASE refs[s] # 1
  <2>1. pc' = [pc EXCEPT ![t] = "idle"] /\ this' = [this EXCEPT ![t] = NULL]
    BY <1>3 DEF Decrease, Goto
  <2>2. QED
    BY <1>1, <1>3, <2>1, InitLabels
       DEF TypeOK, Labels, SameThread, Uses, InCall, Owns, InFree
<1>4. QED  BY <1>2, <1>3

LEMMA DropStep ==
  ASSUME IInv, NEW t \in Threads, NEW s \in Streams, Drop(t, s)
  PROVE  IInv'
<1>1. TypeOK /\ ThreadsInv /\ CountInv  BY DEF IInv
<1>2. /\ vars' = [vars EXCEPT ![s] = @ - 1] /\ Decrease(t, s)
      /\ pc[t] = "idle" /\ vars[s] > 0
      /\ life' = life /\ hostName' = hostName /\ server' = server /\ thrown' = thrown
      /\ heap' = heap /\ holder' = holder /\ checks' = checks
  BY DEF Drop, sslVars
<1>3. life[s] = "live" /\ refs[s] > 0
  BY <1>1, <1>2, Counted, StreamAssumptions DEF TypeOK
<1>4. ~Owns(t) /\ ~Uses(t) /\ this[t] = NULL
  BY <1>1, <1>2, LabelKinds DEF ThreadsInv
<1>5. vars'[s] = vars[s] - 1 /\ vars' \in [Streams -> 0 .. MaxVars] /\ vars[s] \in Nat
  BY <1>1, <1>2, StreamAssumptions DEF TypeOK
<1>6. TypeOK'
  BY <1>1, <1>2, <1>3, <1>5, Decreased DEF TypeOK
<1>7. Calls(s)' = Calls(s)
  BY <1>1, <1>2, <1>3, <1>4, Decreased DEF Calls, SameThread, Uses
<1>8. refs'[s] = vars'[s] + Cardinality(Calls(s)')
  BY <1>1, <1>2, <1>3, <1>5, <1>7, Decreased, CallsFinite DEF CountInv, TypeOK
<1>9. \A r \in Streams \ {s} : refs'[r] = refs[r] /\ vars'[r] = vars[r]
  BY <1>1, <1>2, <1>3, Decreased DEF TypeOK
<1>10. /\ this'[t] \in {NULL, s} /\ (pc'[t] = "idle" <=> this'[t] = NULL)
       /\ (Owns(t)' => pc'[t] = "release" /\ refs'[s] = 0)
       /\ \A u \in Threads \ {t} : SameThread(u)
  BY <1>1, <1>2, <1>3, Decreased, StreamAssumptions, InitLabels DEF Owns, InFree
<1>11. QED
  BY <1>2, <1>3, <1>4, <1>6, <1>8, <1>9, <1>10, UserStep

LEMMA LeaveCallStep ==
  ASSUME IInv, NEW t \in Threads, LeaveCall(t)
  PROVE  IInv'
<1>1. TypeOK /\ ThreadsInv /\ CountInv  BY DEF IInv
<1>2. Uses(t) /\ pc[t] = "leave"  BY DEF LeaveCall, Uses
<1>3. PICK s \in Streams : s = this[t]
  BY <1>1, <1>2 DEF TypeOK, ThreadsInv
<1>4. /\ Decrease(t, s) /\ vars' = vars
      /\ life' = life /\ hostName' = hostName /\ server' = server /\ thrown' = thrown
      /\ heap' = heap /\ holder' = holder /\ checks' = checks
  BY <1>3 DEF LeaveCall, sslVars
<1>5. life[s] = "live" /\ refs[s] > 0
  BY <1>2, <1>3, Counted
<1>6. ~Owns(t)  BY <1>1, <1>2, LabelKinds
<1>7. TypeOK'
  BY <1>1, <1>4, <1>5, Decreased DEF TypeOK
<1>8. Calls(s)' = Calls(s) \ {t} /\ t \in Calls(s)
  BY <1>1, <1>2, <1>3, <1>4, <1>5, Decreased DEF Calls, SameThread, Uses
<1>9. Cardinality(Calls(s)') = Cardinality(Calls(s)) - 1
  BY <1>8, CallsFinite, FS_RemoveElement
<1>10. vars[s] \in Nat /\ refs[s] \in Nat
  BY <1>1, StreamAssumptions DEF TypeOK
<1>11. refs'[s] = vars'[s] + Cardinality(Calls(s)')
  BY <1>1, <1>4, <1>5, <1>9, <1>10, Decreased, CallsFinite DEF CountInv
<1>12. \A r \in Streams \ {s} : refs'[r] = refs[r] /\ vars'[r] = vars[r]
  BY <1>1, <1>4, <1>5, Decreased DEF TypeOK
<1>13. /\ this'[t] \in {NULL, s} /\ (pc'[t] = "idle" <=> this'[t] = NULL)
       /\ (Owns(t)' => pc'[t] = "release" /\ refs'[s] = 0)
       /\ \A u \in Threads \ {t} : SameThread(u)
  BY <1>1, <1>4, <1>5, Decreased, StreamAssumptions, InitLabels DEF Owns, InFree
<1>14. QED
  BY <1>3, <1>4, <1>5, <1>6, <1>7, <1>11, <1>12, <1>13, UserStep

LEMMA BeginCallStep ==
  ASSUME IInv, NEW t \in Threads, NEW s \in Streams, BeginCall(t, s)
  PROVE  IInv'
<1>1. TypeOK /\ ThreadsInv /\ CountInv  BY DEF IInv
<1>2. PICK l \in InCall \cup {"leave"} : pc' = [pc EXCEPT ![t] = l]
  BY DEF BeginCall, Goto
<1>3. /\ refs' = [refs EXCEPT ![s] = @ + 1] /\ this' = [this EXCEPT ![t] = s]
      /\ pc[t] = "idle" /\ vars[s] > 0 /\ vars' = vars
      /\ life' = life /\ hostName' = hostName /\ server' = server /\ thrown' = thrown
      /\ heap' = heap /\ holder' = holder /\ checks' = checks
  BY DEF BeginCall, RefsInCall, sslVars
<1>4. life[s] = "live" /\ refs[s] > 0
  BY <1>1, <1>3, Counted, StreamAssumptions DEF TypeOK
<1>5. ~Owns(t) /\ ~Uses(t) /\ this[t] = NULL
  BY <1>1, <1>3, LabelKinds DEF ThreadsInv
<1>6. TypeOK'
  BY <1>1, <1>2, <1>3 DEF TypeOK, Labels, InCall
<1>7. /\ pc'[t] = l /\ this'[t] = s /\ refs'[s] = refs[s] + 1
      /\ \A u \in Threads \ {t} : SameThread(u)
      /\ \A r \in Streams \ {s} : refs'[r] = refs[r] /\ vars'[r] = vars[r]
  BY <1>1, <1>2, <1>3 DEF TypeOK, SameThread
<1>8. Uses(t)' /\ ~Owns(t)' /\ pc'[t] # "idle"
  BY <1>7, InitLabels DEF Uses, Owns, InCall, InFree
<1>9. Calls(s)' = Calls(s) \cup {t} /\ t \notin Calls(s)
  BY <1>5, <1>7, <1>8 DEF Calls, SameThread, Uses
<1>10. Cardinality(Calls(s)') = Cardinality(Calls(s)) + 1
  BY <1>9, CallsFinite, FS_AddElement
<1>11. vars[s] \in Nat /\ refs[s] \in Nat
  BY <1>1, StreamAssumptions DEF TypeOK
<1>12. refs'[s] = vars'[s] + Cardinality(Calls(s)')
  BY <1>1, <1>3, <1>4, <1>7, <1>10, <1>11, CallsFinite DEF CountInv
<1>13. s # NULL  BY StreamAssumptions
<1>14. QED
  BY <1>3, <1>4, <1>5, <1>6, <1>7, <1>8, <1>12, <1>13, UserStep

LEMMA SslCallReturnsStep ==
  ASSUME IInv, NEW t \in Threads, SslCallReturns(t)
  PROVE  IInv'
<1>1. TypeOK /\ ThreadsInv /\ CountInv  BY DEF IInv
<1>2. Uses(t) /\ pc[t] # "idle"  BY DEF SslCallReturns, Uses, InCall
<1>3. PICK s \in Streams : s = this[t]
  BY <1>1, <1>2 DEF TypeOK, ThreadsInv
<1>4. /\ pc' = [pc EXCEPT ![t] = "leave"] /\ this' = this
      /\ life' = life /\ refs' = refs /\ vars' = vars
      /\ hostName' = hostName /\ server' = server /\ thrown' = thrown
      /\ heap' = heap /\ holder' = holder /\ checks' = checks
  BY DEF SslCallReturns, Goto, objVars, sslVars
<1>5. life[s] = "live" /\ refs[s] > 0
  BY <1>2, <1>3, Counted
<1>6. ~Owns(t)  BY <1>1, <1>2, LabelKinds
<1>7. TypeOK'  BY <1>1, <1>4 DEF TypeOK, Labels
<1>8. /\ pc'[t] = "leave" /\ this'[t] = s
      /\ \A u \in Threads \ {t} : SameThread(u)
  BY <1>1, <1>3, <1>4 DEF TypeOK, SameThread
<1>9. Uses(t)' /\ ~Owns(t)'
  BY <1>8, InitLabels DEF Uses, Owns, InFree
<1>10. Calls(s)' = Calls(s)
  BY <1>2, <1>3, <1>8, <1>9 DEF Calls, SameThread, Uses
<1>11. refs'[s] = vars'[s] + Cardinality(Calls(s)')
  BY <1>1, <1>4, <1>5, <1>10 DEF CountInv
<1>12. s # NULL  BY StreamAssumptions
<1>13. QED
  BY <1>3, <1>4, <1>5, <1>6, <1>7, <1>8, <1>9, <1>11, <1>12, UserStep

(* Share involves no thread of the library.                                *)
LEMMA ShareStep ==
  ASSUME IInv, NEW s \in Streams, Share(s)
  PROVE  IInv'
<1>1. TypeOK /\ ThreadsInv /\ CountInv /\ HeapInv /\ NoBadFree
      /\ DeadHoldsNothing /\ UsableMeansVerified
  BY DEF IInv
<1>2. /\ vars[s] \in 1 .. MaxVars - 1
      /\ refs' = [refs EXCEPT ![s] = @ + 1] /\ vars' = [vars EXCEPT ![s] = @ + 1]
      /\ pc' = pc /\ this' = this
      /\ life' = life /\ hostName' = hostName /\ server' = server /\ thrown' = thrown
      /\ heap' = heap /\ holder' = holder /\ checks' = checks
  BY DEF Share, Increase, sslVars
<1>3. vars[s] > 0 /\ vars[s] \in Nat /\ refs[s] \in Nat
  BY <1>1, <1>2, StreamAssumptions DEF TypeOK
<1>4. life[s] = "live" /\ refs[s] > 0
  BY <1>3, Counted
<1>5. TypeOK'
  BY <1>1, <1>2, StreamAssumptions DEF TypeOK
<1>6. /\ refs'[s] = refs[s] + 1 /\ vars'[s] = vars[s] + 1
      /\ \A r \in Streams \ {s} : refs'[r] = refs[r] /\ vars'[r] = vars[r]
  BY <1>1, <1>2 DEF TypeOK
<1>7. Full(s) /\ Succeeded(s) /\ \A u \in Threads : Owns(u) => this[u] # s
  BY <1>4, UsersState
<1>8. \A u \in Threads : (Owns(u)' <=> Owns(u)) /\ (Uses(u)' <=> Uses(u)) /\ SameThread(u)
  BY <1>2 DEF Owns, Uses, SameThread
<1>9. ThreadsInv'
  <2>1. ASSUME NEW u \in Threads, Owns(u)'  PROVE OwnerIsAt(u, this[u])'
    <3>1. Owns(u) /\ OwnerIsAt(u, this[u])
      BY <2>1, <1>1, <1>8 DEF ThreadsInv
    <3>2. PICK r \in Streams \ {s} : r = this[u]
      BY <3>1, <1>7, OwnersState
    <3>3. SameStream(r)  BY <1>2, <1>6 DEF SameStream
    <3>4. OwnerIsAt(u, r)'  BY <3>1, <3>2, <3>3, <1>8, OwnerUndisturbed
    <3>5. QED
      BY <3>2, <3>4, <1>2 DEF OwnerIsAt, MadeBefore, ToldBefore, Verifies,
         LeftBefore, Failed, Succeeded, Empty, Full
  <2>2. QED  BY <2>1, <1>1, <1>2, <1>8 DEF ThreadsInv
<1>10. CountInv'
  <2>1. \A r \in Streams : Calls(r)' = Calls(r)
    BY <1>2, <1>8 DEF Calls
  <2>2. Cardinality(Calls(s)) \in Nat  BY CallsFinite
  <2>3. refs'[s] = vars'[s] + Cardinality(Calls(s)')
    BY <2>1, <2>2, <1>1, <1>3, <1>4, <1>6 DEF CountInv
  <2>4. QED  BY <2>1, <2>3, <1>1, <1>2, <1>4, <1>6 DEF CountInv
<1>11. HeapInv' /\ NoBadFree' /\ DeadHoldsNothing' /\ UsableMeansVerified'
  <2>1. HeapInv'
    BY <1>1, <1>2, <1>4, <1>6, <1>7 DEF HeapInv, Full, Succeeded
  <2>2. NoBadFree' /\ DeadHoldsNothing' /\ UsableMeansVerified'
    BY <1>1, <1>2 DEF NoBadFree, DeadHoldsNothing, UsableMeansVerified
  <2>3. QED  BY <2>1, <2>2
<1>12. QED  BY <1>5, <1>9, <1>10, <1>11 DEF IInv

-----------------------------------------------------------------------------
LEMMA InitInv == Init => IInv
<1> SUFFICES ASSUME Init  PROVE IInv
  OBVIOUS
<1>1. TypeOK  BY StreamAssumptions DEF Init, TypeOK, Labels
<1>2. \A t \in Threads : pc[t] = "idle" /\ this[t] = NULL
  BY DEF Init
<1>3. \A t \in Threads : ~Owns(t) /\ ~Uses(t)
  BY <1>1, <1>2, LabelKinds
<1>4. ThreadsInv  BY <1>2, <1>3 DEF ThreadsInv
<1>5. \A s \in Streams :
        /\ life[s] = "unborn" /\ refs[s] = 0 /\ vars[s] = 0
        /\ thrown[s] = NULL /\ holder[s] = "none"
        /\ heap[s] = [ctx |-> "none", ssl |-> "none", cert |-> "none"]
  BY DEF Init
<1>6. CountInv  BY <1>5 DEF CountInv
<1>7. HeapInv /\ NoBadFree /\ DeadHoldsNothing /\ UsableMeansVerified
  BY <1>5 DEF HeapInv, NoBadFree, DeadHoldsNothing, UsableMeansVerified
<1>8. QED  BY <1>1, <1>4, <1>6, <1>7 DEF IInv

LEMMA NextInv == IInv /\ [Next]_allVars => IInv'
<1> SUFFICES ASSUME IInv, [Next]_allVars  PROVE IInv'
  OBVIOUS
<1>1. ASSUME NEW t \in Threads, Constructor(t)  PROVE IInv'
  BY <1>1, InitSucceedsStep, InitFailsStep DEF Constructor
<1>2. ASSUME NEW t \in Threads, Cleanup(t)  PROVE IInv'
  BY <1>2, CleanupStep, ExitInitStep, DropFailedStep, ExitReleaseStep DEF Cleanup
<1>3. ASSUME NEW t \in Threads, Call(t)  PROVE IInv'
  BY <1>3, SslCallReturnsStep, LeaveCallStep DEF Call
<1>4. ASSUME NEW t \in Threads, Program(t)  PROVE IInv'
  <2>1. PICK s \in Streams :
          \/ \E h \in HostNames, f \in SUBSET Facts : New(t, s, h, f)
          \/ Share(s) \/ Drop(t, s) \/ BeginCall(t, s)
    BY <1>4 DEF Program
  <2>2. CASE \E h \in HostNames, f \in SUBSET Facts : New(t, s, h, f)
    BY <2>2, NewStep
  <2>3. CASE Share(s)  BY <2>3, ShareStep
  <2>4. CASE Drop(t, s)  BY <2>4, DropStep
  <2>5. CASE BeginCall(t, s)  BY <2>5, BeginCallStep
  <2>6. QED  BY <2>1, <2>2, <2>3, <2>4, <2>5
<1>5. CASE UNCHANGED allVars
  <2>1. /\ pc' = pc /\ this' = this /\ life' = life /\ refs' = refs /\ vars' = vars
        /\ hostName' = hostName /\ server' = server /\ thrown' = thrown
        /\ heap' = heap /\ holder' = holder /\ checks' = checks
    BY <1>5 DEF allVars, objVars, sslVars
  <2>2. TypeOK'  BY <2>1 DEF IInv, TypeOK
  <2>3. ThreadsInv'
    BY <2>1 DEF IInv, ThreadsInv, Owns, Uses, Full, Empty, OwnerIsAt, MadeBefore,
       ToldBefore, Verifies, LeftBefore, Failed, Succeeded
  <2>4. CountInv'
    <3>1. \A s \in Streams : Calls(s)' = Calls(s)  BY <2>1 DEF Calls, Uses
    <3>2. QED  BY <2>1, <3>1 DEF IInv, CountInv
  <2>5. HeapInv'  BY <2>1 DEF IInv, HeapInv, Full, Succeeded
  <2>6. NoBadFree' /\ DeadHoldsNothing' /\ UsableMeansVerified'
    BY <2>1 DEF IInv, NoBadFree, DeadHoldsNothing, UsableMeansVerified
  <2>7. QED  BY <2>2, <2>3, <2>4, <2>5, <2>6 DEF IInv
<1>6. QED
  BY <1>1, <1>2, <1>3, <1>4, <1>5 DEF Next

(* Threads, counts, labels and OpenSSL objects agree in every reachable    *)
(* state (native_init, native_release, read_0, write_0).                   *)
THEOREM Invariance == Spec => []IInv
BY InitInv, NextInv, PTL DEF Spec

(* Every variable keeps its type; the reference count is never negative.   *)
THEOREM TypeCorrect == Spec => []TypeOK
<1>1. IInv => TypeOK  BY DEF IInv
<1>2. QED  BY <1>1, Invariance, PTL

(* No thread is in SSL_read, SSL_write or anywhere else with a stream that *)
(* another thread has released: the reference a call takes is enough.      *)
THEOREM UseIsSafe == Spec => []NoUseAfterRelease
<1>1. IInv => NoUseAfterRelease
  <2>1. SUFFICES ASSUME IInv, NEW t \in Threads
        PROVE  /\ pc[t] \in InCall => heap[this[t]].ctx = "live" /\ heap[this[t]].ssl = "live"
               /\ pc[t] # "idle" => life[this[t]] # "dead"
    BY DEF NoUseAfterRelease
  <2>2. TypeOK /\ ThreadsInv  BY <2>1 DEF IInv
  <2>3. CASE pc[t] = "idle"  BY <2>3 DEF InCall
  <2>4. CASE Owns(t)
    <3>1. ~Uses(t) /\ life[this[t]] # "dead"
      BY <2>1, <2>2, <2>4, OwnersState, LabelKinds DEF StreamIsFine
    <3>2. QED  BY <3>1 DEF Uses
  <2>5. CASE Uses(t)
    <3>1. pc[t] # "idle" /\ this[t] \in Streams
      BY <2>2, <2>5, LabelKinds DEF ThreadsInv, TypeOK
    <3>2. life[this[t]] = "live" /\ Full(this[t])
      BY <2>1, <2>5, <3>1, Counted, UsersState
    <3>3. heap[this[t]].ctx = "live" /\ heap[this[t]].ssl = "live"
      BY <2>2, <3>1, <3>2 DEF Full, TypeOK
    <3>4. QED  BY <3>2, <3>3
  <2>6. QED  BY <2>2, <2>3, <2>4, <2>5, LabelKinds
<1>2. QED  BY <1>1, Invariance, PTL

(* Each SSL_CTX, SSL and X509 is freed at most once, and only if made,     *)
(* whichever calls of however many constructors fail.                      *)
THEOREM FreesAreRight == Spec => []NoBadFree
<1>1. IInv => NoBadFree  BY DEF IInv
<1>2. QED  BY <1>1, Invariance, PTL

(* A stream that is gone has left no OpenSSL object behind.                *)
THEOREM NothingLeaks == Spec => []DeadHoldsNothing
<1>1. IInv => DeadHoldsNothing  BY DEF IInv
<1>2. QED  BY <1>1, Invariance, PTL

(* A usable stream is connected to a server whose certificate has a        *)
(* trusted chain and the requested name.                                   *)
THEOREM PeersAreVerified == Spec => []UsableMeansVerified
<1>1. IInv => UsableMeansVerified  BY DEF IInv
<1>2. QED  BY <1>1, Invariance, PTL

-----------------------------------------------------------------------------
(* The implementation of StreamLife: every step is one of its steps, or    *)
(* changes nothing the program can see.                                    *)

(* The phases after a step that can change the one of s.                   *)
LEMMA PhaseAfter ==
  ASSUME NEW s \in Streams, NEW p, Phase(s)' = p,
         \A r \in Streams \ {s} : Phase(r)' = Phase(r)
  PROVE  Phases' = [Phases EXCEPT ![s] = p]
BY DEF Phases

LEMMA PhasesKept ==
  ASSUME \A r \in Streams : Phase(r)' = Phase(r)
  PROVE  Phases' = Phases
BY DEF Phases

(* Users come and go only with a thread that enters or leaves a call.      *)
LEMMA UsersKept ==
  ASSUME NEW t \in Threads, \A u \in Threads \ {t} : SameThread(u), ~Uses(t), ~Uses(t)'
  PROVE  Users' = Users
<1>1. \A u \in Threads : (Uses(u)' <=> Uses(u)) /\ (Uses(u) => this'[u] = this[u])
  BY DEF SameThread, Uses
<1>2. \A s \in Streams : Calls(s)' = Calls(s)  BY <1>1 DEF Calls
<1>3. QED  BY <1>2 DEF Users

(* A constructor's call makes one object at most.                          *)
LEMMA InitSucceedsLives ==
  ASSUME IInv, NEW t \in Threads, InitSucceeds(t)
  PROVE  [Abs!Next]_(Abs!vars)
<1> DEFINE s == this[t]
<1>1. Owns(t)  BY DEF InitSucceeds, Owns
<1>2. TypeOK /\ s \in Streams /\ OwnerIsAt(t, s) /\ ~Uses(t)
  BY <1>1, OwnersState, OwnersAreAlone
<1>3. /\ this' = this /\ life' = life /\ refs' = refs /\ vars' = vars
      /\ server' = server /\ thrown' = thrown
      /\ pc' = [pc EXCEPT ![t] = After[pc[t]]] /\ pc[t] \in InInit
      /\ heap' = HeapAfter(pc[t], s)
  BY DEF InitSucceeds, objVars, Goto
<1>4. life[s] = "making" /\ thrown[s] = NULL /\ MadeBefore(pc[t], s)
  BY <1>2, <1>3 DEF OwnerIsAt
<1>5. Phases' = Phases
  <2>1. \A r \in Streams : Phase(r)' = Phase(r)  BY <1>3 DEF Phase
  <2>2. QED  BY <2>1, PhasesKept
<1>6. Users' = Users
  <2>1. pc'[t] = After[pc[t]] /\ \A u \in Threads \ {t} : SameThread(u)
    BY <1>2, <1>3 DEF SameThread, TypeOK
  <2>2. ~Uses(t)'  BY <2>1, <1>3, InitLabels, InitOrder DEF Uses, InCall
  <2>3. QED  BY <1>2, <2>1, <2>2, UsersKept
<1>7. Phases[s] = "making"  BY <1>2, <1>4 DEF Phases, Phase
<1>8. CASE pc[t] \notin {"SSL_CTX_new", "SSL_new", "SSL_get_peer_certificate"}
  BY <1>3, <1>5, <1>6, <1>8 DEF HeapAfter, Abs!vars
<1>9. CASE pc[t] = "SSL_CTX_new"
  <2>1. heap[s]["ctx"] = "none" /\ heap' = [heap EXCEPT ![s]["ctx"] = "live"]
    BY <1>3, <1>4, <1>9 DEF HeapAfter, MadeBefore
  <2>2. Abs!Make(s, "ctx")  BY <2>1, <1>3, <1>5, <1>6, <1>7 DEF Abs!Make
  <2>3. QED  BY <2>2, <1>2 DEF Abs!Next, Abs!Kinds
<1>10. CASE pc[t] = "SSL_new"
  <2>1. heap[s]["ssl"] = "none" /\ heap' = [heap EXCEPT ![s]["ssl"] = "live"]
    BY <1>3, <1>4, <1>10 DEF HeapAfter, MadeBefore
  <2>2. Abs!Make(s, "ssl")  BY <2>1, <1>3, <1>5, <1>6, <1>7 DEF Abs!Make
  <2>3. QED  BY <2>2, <1>2 DEF Abs!Next, Abs!Kinds
<1>11. CASE pc[t] = "SSL_get_peer_certificate"
  <2>1. heap[s]["cert"] = "none" /\ heap' = [heap EXCEPT ![s]["cert"] = "live"]
    BY <1>3, <1>4, <1>11 DEF HeapAfter, MadeBefore
  <2>2. Abs!Make(s, "cert")  BY <2>1, <1>3, <1>5, <1>6, <1>7 DEF Abs!Make
  <2>3. QED  BY <2>2, <1>2 DEF Abs!Next, Abs!Kinds
<1>12. QED  BY <1>8, <1>9, <1>10, <1>11

(* A constructor that throws abandons its stream; none of its objects is   *)
(* touched.                                                                *)
LEMMA InitFailsLives ==
  ASSUME IInv, NEW t \in Threads, InitFails(t)
  PROVE  Abs!Next
<1> DEFINE s == this[t]
<1>1. Owns(t)  BY DEF InitFails, Owns
<1>2. TypeOK /\ s \in Streams /\ OwnerIsAt(t, s) /\ ~Uses(t)
  BY <1>1, OwnersState, OwnersAreAlone
<1>3. /\ this' = this /\ life' = life /\ refs' = refs /\ vars' = vars
      /\ server' = server /\ heap' = heap
      /\ thrown' = [thrown EXCEPT ![s] = pc[t]]
      /\ pc' = [pc EXCEPT ![t] = FailLabel(pc[t])] /\ pc[t] \in InInit
  BY DEF InitFails, sslVars, Goto
<1>4. life[s] = "making" /\ thrown[s] = NULL
  BY <1>2, <1>3 DEF OwnerIsAt
<1>5. Phases[s] = "making"  BY <1>2, <1>4 DEF Phases, Phase
<1>6. Phases' = [Phases EXCEPT ![s] = "closing"]
  <2>1. PICK r \in Streams : r = s  BY <1>2
  <2>2. thrown'[r] # NULL  BY <1>2, <1>3, <2>1, StreamAssumptions DEF TypeOK
  <2>3. Phase(r)' = "closing"  BY <2>1, <2>2, <1>3, <1>4 DEF Phase
  <2>4. \A q \in Streams \ {r} : Phase(q)' = Phase(q)
    <3>1. \A q \in Streams \ {r} : thrown'[q] = thrown[q]
      BY <1>2, <1>3, <2>1 DEF TypeOK
    <3>2. QED  BY <3>1, <1>3 DEF Phase
  <2>5. QED  BY <2>1, <2>3, <2>4, PhaseAfter
<1>7. Users' = Users
  <2>1. pc'[t] = FailLabel(pc[t]) /\ \A u \in Threads \ {t} : SameThread(u)
    BY <1>2, <1>3 DEF SameThread, TypeOK
  <2>2. ~Uses(t)'  BY <2>1 DEF FailLabel, Uses, InCall
  <2>3. QED  BY <1>2, <2>1, <2>2, UsersKept
<1>8. Abs!Abandon(s)  BY <1>3, <1>5, <1>6, <1>7 DEF Abs!Abandon
<1>9. QED  BY <1>8, <1>2 DEF Abs!Next

(* A cleanup call frees an object of a stream that is closing, or nothing. *)
LEMMA CleanupLives ==
  ASSUME IInv, NEW t \in Threads,
         X509Free(t) \/ SSLShutdown(t) \/ SSLFree(t) \/ SSLCTXFree(t) \/ Release(t)
  PROVE  [Abs!Next]_(Abs!vars)
<1> DEFINE s == this[t]
<1>1. Owns(t)
  BY DEF X509Free, SSLShutdown, SSLFree, SSLCTXFree, Release, Owns, InFree
<1>2. TypeOK /\ s \in Streams /\ OwnerIsAt(t, s) /\ ~Uses(t)
  BY <1>1, OwnersState, OwnersAreAlone
<1>3. /\ this' = this /\ life' = life /\ refs' = refs /\ vars' = vars
      /\ server' = server /\ thrown' = thrown
  BY DEF X509Free, SSLShutdown, SSLFree, SSLCTXFree, Release, objVars
<1>4. Phases' = Phases
  <2>1. \A r \in Streams : Phase(r)' = Phase(r)  BY <1>3 DEF Phase
  <2>2. QED  BY <2>1, PhasesKept
<1>5. Users' = Users
  <2>1. PICK l \in InFree : pc' = [pc EXCEPT ![t] = l]
    BY DEF X509Free, SSLShutdown, SSLFree, SSLCTXFree, Release, Goto, InFree
  <2>2. pc'[t] = l /\ \A u \in Threads \ {t} : SameThread(u)
    BY <2>1, <1>2, <1>3 DEF SameThread, TypeOK
  <2>3. ~Uses(t)'  BY <2>2 DEF Uses, InCall, InFree
  <2>4. QED  BY <1>2, <2>2, <2>3, UsersKept
<1>6. ~Release(t) => LeftBefore(pc[t], s) /\ Phases[s] = "closing"
  <2>1. SUFFICES ASSUME ~Release(t)
                 PROVE  LeftBefore(pc[t], s) /\ Phases[s] = "closing"
    OBVIOUS
  <2>2. pc[t] \in InFree \ {"exit"}
    BY <2>1 DEF X509Free, SSLShutdown, SSLFree, SSLCTXFree, InFree
  <2>3. LeftBefore(pc[t], s)  BY <2>2, <1>2 DEF OwnerIsAt
  <2>4. \/ life[s] = "making" /\ thrown[s] # NULL
        \/ life[s] = "live" /\ refs[s] = 0
    BY <2>2, <1>2 DEF OwnerIsAt, Failed
  <2>5. QED  BY <2>3, <2>4, <1>2 DEF Phases, Phase
<1>7. CASE SSLShutdown(t) \/ Release(t)
  BY <1>3, <1>4, <1>5, <1>7 DEF SSLShutdown, Release, sslVars, Abs!vars
<1>8. CASE X509Free(t)
  <2>1. heap[s]["cert"] = "live" /\ heap' = [heap EXCEPT ![s]["cert"] = "freed"]
    BY <1>6, <1>8 DEF X509Free, Release, Free, LeftBefore
  <2>2. Abs!FreeObject(s, "cert")
    BY <2>1, <1>3, <1>4, <1>5, <1>6, <1>8 DEF X509Free, Release, Abs!FreeObject
  <2>3. QED  BY <2>2, <1>2 DEF Abs!Next, Abs!Kinds
<1>9. CASE SSLFree(t)
  <2>1. heap[s]["ssl"] = "live" /\ heap' = [heap EXCEPT ![s]["ssl"] = "freed"]
    BY <1>6, <1>9 DEF SSLFree, Release, Free, LeftBefore
  <2>2. Abs!FreeObject(s, "ssl")
    BY <2>1, <1>3, <1>4, <1>5, <1>6, <1>9 DEF SSLFree, Release, Abs!FreeObject
  <2>3. QED  BY <2>2, <1>2 DEF Abs!Next, Abs!Kinds
<1>10. CASE SSLCTXFree(t)
  <2>1. heap[s]["ctx"] = "live" /\ heap' = [heap EXCEPT ![s]["ctx"] = "freed"]
    BY <1>6, <1>10 DEF SSLCTXFree, Release, Free, LeftBefore
  <2>2. Abs!FreeObject(s, "ctx")
    BY <2>1, <1>3, <1>4, <1>5, <1>6, <1>10 DEF SSLCTXFree, Release, Abs!FreeObject
  <2>3. QED  BY <2>2, <1>2 DEF Abs!Next, Abs!Kinds
<1>11. QED  BY <1>7, <1>8, <1>9, <1>10

(* _native_init returns: the stream is usable, with the one reference of   *)
(* the variable it is assigned to, or the exception goes on.               *)
LEMMA ExitInitLives ==
  ASSUME IInv, NEW t \in Threads, ExitInit(t)
  PROVE  [Abs!Next]_(Abs!vars)
<1>1. Owns(t)  BY DEF ExitInit, Owns, InFree
<1>2. PICK s \in Streams : s = this[t]  BY <1>1, OwnersState
<1>3. TypeOK /\ OwnerIsAt(t, s) /\ StreamIsFine(s) /\ ~Uses(t)
  BY <1>1, <1>2, OwnersState, OwnersAreAlone
<1>4. /\ server' = server /\ thrown' = thrown /\ heap' = heap
      /\ refs' = [refs EXCEPT ![s] = @ - 1]
      /\ pc[t] = "exit" /\ life[s] = "making" /\ refs[s] > 0
  BY <1>2 DEF ExitInit, sslVars, RefsAfterInit
<1>5. /\ Failed(s) \/ (Succeeded(s) /\ Full(s))
      /\ refs[s] = 2 /\ refs'[s] = 1
  BY <1>3, <1>4 DEF OwnerIsAt, Succeeded, TypeOK
<1>6. \A r \in Streams \ {s} : refs'[r] = refs[r]
  BY <1>3, <1>4 DEF TypeOK
<1>7. CASE thrown[s] = NULL
  <2>1. /\ life' = [life EXCEPT ![s] = "live"] /\ vars' = [vars EXCEPT ![s] = 1]
        /\ pc' = [pc EXCEPT ![t] = "idle"] /\ this' = [this EXCEPT ![t] = NULL]
    BY <1>2, <1>7 DEF ExitInit, Goto
  <2>2. Full(s) /\ server[s] = Facts
    BY <1>3, <1>5, <1>7 DEF Failed, Succeeded, StreamIsFine
  <2>3. \A x \in Abs!Kinds : heap[s][x] = "live"
    BY <2>2, <1>3 DEF Full, TypeOK, Abs!Kinds
  <2>4. Phases[s] = "making"  BY <1>4, <1>7 DEF Phases, Phase
  <2>5. Phases' = [Phases EXCEPT ![s] = "live"]
    <3>1. life'[s] = "live"  BY <2>1, <1>3 DEF TypeOK
    <3>2. Phase(s)' = "live"  BY <3>1, <1>5 DEF Phase
    <3>3. \A r \in Streams \ {s} : life'[r] = life[r]  BY <2>1, <1>3 DEF TypeOK
    <3>4. \A r \in Streams \ {s} : Phase(r)' = Phase(r)
      BY <3>3, <1>4, <1>6 DEF Phase
    <3>5. QED  BY <3>2, <3>4, PhaseAfter
  <2>6. Users' = Users
    <3>1. pc'[t] = "idle" /\ \A u \in Threads \ {t} : SameThread(u)
      BY <2>1, <1>3 DEF SameThread, TypeOK
    <3>2. ~Uses(t)'  BY <3>1 DEF Uses, InCall
    <3>3. QED  BY <1>3, <3>1, <3>2, UsersKept
  <2>7. Abs!Complete(s)
    BY <2>1, <2>2, <2>3, <2>4, <2>5, <2>6, <1>4 DEF Abs!Complete, Abs!Facts, Facts
  <2>8. QED  BY <2>7 DEF Abs!Next
<1>8. CASE thrown[s] # NULL
  <2>1. life' = life /\ vars' = vars /\ this' = this /\ pc' = [pc EXCEPT ![t] = "drop"]
    BY <1>2, <1>8 DEF ExitInit, Goto
  <2>2. \A r \in Streams : Phase(r)' = Phase(r)
    BY <2>1, <1>4, <1>6 DEF Phase
  <2>3. pc'[t] = "drop" /\ \A u \in Threads \ {t} : SameThread(u)
    BY <2>1, <1>3 DEF SameThread, TypeOK
  <2>4. ~Uses(t)'  BY <2>3 DEF Uses, InCall
  <2>5. Phases' = Phases /\ Users' = Users
    BY <2>2, <2>3, <2>4, <1>3, PhasesKept, UsersKept
  <2>6. QED  BY <2>1, <2>5, <1>4 DEF Abs!vars
<1>9. QED  BY <1>7, <1>8

(* Dropping the creating expression's reference shows the program nothing. *)
LEMMA DropFailedLives ==
  ASSUME IInv, NEW t \in Threads, DropFailed(t)
  PROVE  UNCHANGED Abs!vars
<1>1. Owns(t)  BY DEF DropFailed, Owns
<1>2. PICK s \in Streams : s = this[t]  BY <1>1, OwnersState
<1>3. TypeOK /\ OwnerIsAt(t, s) /\ ~Uses(t)
  BY <1>1, <1>2, OwnersState, OwnersAreAlone
<1>4. Failed(s) /\ refs[s] = 1
  BY <1>3 DEF DropFailed, OwnerIsAt
<1>5. /\ life' = life /\ vars' = vars /\ server' = server /\ thrown' = thrown /\ heap' = heap
      /\ Decrease(t, s)
  BY <1>2 DEF DropFailed, sslVars
<1>6. /\ refs' = [refs EXCEPT ![s] = @ - 1] /\ ~Uses(t)'
      /\ \A u \in Threads \ {t} : SameThread(u)
  BY <1>3, <1>4, <1>5, Decreased
<1>7. \A r \in Streams \ {s} : refs'[r] = refs[r]  BY <1>3, <1>6 DEF TypeOK
<1>8. \A r \in Streams : Phase(r)' = Phase(r)
  BY <1>4, <1>5, <1>7 DEF Phase, Failed
<1>9. Phases' = Phases /\ Users' = Users
  BY <1>3, <1>6, <1>8, PhasesKept, UsersKept
<1>10. QED  BY <1>5, <1>9 DEF Abs!vars

(* The object is freed when nothing of its stream is left.                 *)
LEMMA ExitReleaseLives ==
  ASSUME IInv, NEW t \in Threads, ExitRelease(t)
  PROVE  Abs!Next
<1>1. Owns(t)  BY DEF ExitRelease, Owns, InFree
<1>2. PICK s \in Streams : s = this[t]  BY <1>1, OwnersState
<1>3. TypeOK /\ OwnerIsAt(t, s) /\ ~Uses(t)
  BY <1>1, <1>2, OwnersState, OwnersAreAlone
<1>4. /\ life' = [life EXCEPT ![s] = "dead"] /\ refs' = refs /\ vars' = vars
      /\ server' = server /\ thrown' = thrown /\ heap' = heap
      /\ pc' = [pc EXCEPT ![t] = "idle"] /\ this' = [this EXCEPT ![t] = NULL]
      /\ pc[t] = "exit" /\ refs[s] = 0
  BY <1>2 DEF ExitRelease, sslVars, Goto
<1>5. Empty(s) /\ (Failed(s) \/ life[s] = "live")
  BY <1>3, <1>4 DEF OwnerIsAt
<1>6. Phases[s] = "closing"  BY <1>4, <1>5 DEF Phases, Phase, Failed
<1>7. \A x \in Abs!Kinds : heap[s][x] # "live"
  BY <1>3, <1>5 DEF Empty, TypeOK, Abs!Kinds
<1>8. Phases' = [Phases EXCEPT ![s] = "dead"]
  <2>1. life'[s] = "dead" /\ \A r \in Streams \ {s} : life'[r] = life[r]
    BY <1>3, <1>4 DEF TypeOK
  <2>2. Phase(s)' = "dead"  BY <2>1 DEF Phase
  <2>3. \A r \in Streams \ {s} : Phase(r)' = Phase(r)  BY <2>1, <1>4 DEF Phase
  <2>4. QED  BY <2>2, <2>3, PhaseAfter
<1>9. Users' = Users
  <2>1. pc'[t] = "idle" /\ \A u \in Threads \ {t} : SameThread(u)
    BY <1>3, <1>4 DEF SameThread, TypeOK
  <2>2. ~Uses(t)'  BY <2>1 DEF Uses, InCall
  <2>3. QED  BY <1>3, <2>1, <2>2, UsersKept
<1>10. Abs!End(s)  BY <1>4, <1>6, <1>7, <1>8, <1>9 DEF Abs!End
<1>11. QED  BY <1>10 DEF Abs!Next

LEMMA NewLives ==
  ASSUME IInv, NEW t \in Threads, NEW s \in Streams,
         NEW h \in HostNames, NEW f \in SUBSET Facts, New(t, s, h, f)
  PROVE  Abs!Next
<1>1. TypeOK  BY DEF IInv
<1>2. /\ pc[t] = "idle" /\ life[s] = "unborn" /\ life' = [life EXCEPT ![s] = "making"]
      /\ refs' = [refs EXCEPT ![s] = 2] /\ server' = [server EXCEPT ![s] = f]
      /\ this' = [this EXCEPT ![t] = s] /\ pc' = [pc EXCEPT ![t] = "SSL_CTX_new"]
      /\ vars' = vars /\ thrown' = thrown /\ heap' = heap
  BY DEF New, Goto, sslVars
<1>3. thrown[s] = NULL  BY <1>2 DEF IInv, HeapInv
<1>4. Phases[s] = "unborn"  BY <1>2 DEF Phases, Phase
<1>5. Phases' = [Phases EXCEPT ![s] = "making"]
  <2>1. /\ life'[s] = "making"
        /\ \A r \in Streams \ {s} : life'[r] = life[r] /\ refs'[r] = refs[r]
    BY <1>1, <1>2 DEF TypeOK
  <2>2. Phase(s)' = "making"  BY <2>1, <1>2, <1>3 DEF Phase
  <2>3. \A r \in Streams \ {s} : Phase(r)' = Phase(r)  BY <2>1, <1>2 DEF Phase
  <2>4. QED  BY <2>2, <2>3, PhaseAfter
<1>6. Users' = Users
  <2>1. pc'[t] = "SSL_CTX_new" /\ \A u \in Threads \ {t} : SameThread(u)
    BY <1>1, <1>2 DEF SameThread, TypeOK
  <2>2. ~Uses(t) /\ ~Uses(t)'  BY <2>1, <1>2 DEF Uses, InCall
  <2>3. QED  BY <2>1, <2>2, UsersKept
<1>7. Abs!New(s, f)  BY <1>2, <1>4, <1>5, <1>6 DEF Abs!New
<1>8. f \in SUBSET Abs!Facts  BY DEF Facts, Abs!Facts
<1>9. QED  BY <1>7, <1>8 DEF Abs!Next

(* Another variable: the count was not zero, so the phase stays.           *)
LEMMA ShareLives ==
  ASSUME IInv, NEW s \in Streams, Share(s)
  PROVE  Abs!Next
<1>1. TypeOK  BY DEF IInv
<1>2. /\ vars[s] > 0 /\ vars' = [vars EXCEPT ![s] = @ + 1]
      /\ refs' = [refs EXCEPT ![s] = @ + 1] /\ pc' = pc /\ this' = this
      /\ life' = life /\ server' = server /\ thrown' = thrown /\ heap' = heap
  BY StreamAssumptions DEF Share, Increase, sslVars
<1>3. life[s] = "live" /\ refs[s] > 0 /\ refs'[s] = refs[s] + 1
      /\ \A r \in Streams \ {s} : refs'[r] = refs[r]
  BY <1>1, <1>2, Counted, StreamAssumptions DEF TypeOK
<1>4. refs[s] # 0 /\ refs'[s] # 0  BY <1>1, <1>3 DEF TypeOK
<1>5. \A r \in Streams : Phase(r)' = Phase(r)  BY <1>2, <1>3, <1>4 DEF Phase
<1>6. \A r \in Streams : Calls(r)' = Calls(r)  BY <1>2 DEF Calls, Uses
<1>7. Phases' = Phases /\ Users' = Users
  BY <1>5, <1>6, PhasesKept DEF Users
<1>8. Abs!Share(s)  BY <1>2, <1>7 DEF Abs!Share
<1>9. QED  BY <1>8 DEF Abs!Next

(* A call enters a stream somebody holds.                                  *)
LEMMA BeginCallLives ==
  ASSUME IInv, NEW t \in Threads, NEW s \in Streams, BeginCall(t, s)
  PROVE  Abs!Next
<1>1. TypeOK /\ ThreadsInv  BY DEF IInv
<1>2. PICK l \in InCall \cup {"leave"} : pc' = [pc EXCEPT ![t] = l]
  BY DEF BeginCall, Goto
<1>3. /\ refs' = [refs EXCEPT ![s] = @ + 1] /\ this' = [this EXCEPT ![t] = s]
      /\ pc[t] = "idle" /\ vars[s] > 0 /\ vars' = vars
      /\ life' = life /\ server' = server /\ thrown' = thrown /\ heap' = heap
  BY DEF BeginCall, RefsInCall, sslVars
<1>4. life[s] = "live" /\ refs[s] > 0 /\ refs'[s] = refs[s] + 1
      /\ \A r \in Streams \ {s} : refs'[r] = refs[r]
  BY <1>1, <1>3, Counted, StreamAssumptions DEF TypeOK
<1>5. refs[s] # 0 /\ refs'[s] # 0  BY <1>1, <1>4 DEF TypeOK
<1>6. \A r \in Streams : Phase(r)' = Phase(r)  BY <1>3, <1>4, <1>5 DEF Phase
<1>7. /\ pc'[t] = l /\ this'[t] = s
      /\ \A u \in Threads \ {t} : SameThread(u)
  BY <1>1, <1>2, <1>3 DEF TypeOK, SameThread
<1>8. ~Uses(t) /\ Uses(t)'
  BY <1>3, <1>7 DEF Uses, InCall
<1>9. \A u \in Threads \ {t} : Uses(u)' = Uses(u) /\ this'[u] = this[u]
  BY <1>7 DEF SameThread, Uses
<1>10. \A r \in Streams : Calls(r)' = IF r = s THEN Calls(s) \cup {t} ELSE Calls(r)
  BY <1>7, <1>8, <1>9 DEF Calls
<1>11. Users' = [Users EXCEPT ![s] = @ \cup {t}]  BY <1>10 DEF Users
<1>12. \A r \in Streams : t \notin Users[r]  BY <1>8 DEF Users, Calls
<1>13. Phases' = Phases  BY <1>6, PhasesKept
<1>14. Abs!Enter(t, s)  BY <1>3, <1>11, <1>12, <1>13 DEF Abs!Enter
<1>15. QED  BY <1>14 DEF Abs!Next

(* A thread back from OpenSSL is still in its call.                        *)
LEMMA SslCallReturnsLives ==
  ASSUME IInv, NEW t \in Threads, SslCallReturns(t)
  PROVE  UNCHANGED Abs!vars
<1>1. TypeOK  BY DEF IInv
<1>2. /\ pc' = [pc EXCEPT ![t] = "leave"] /\ this' = this /\ pc[t] \in InCall
      /\ life' = life /\ refs' = refs /\ vars' = vars
      /\ server' = server /\ thrown' = thrown /\ heap' = heap
  BY DEF SslCallReturns, Goto, objVars, sslVars
<1>3. \A u \in Threads : Uses(u)' = Uses(u)
  BY <1>1, <1>2 DEF Uses, InCall, TypeOK
<1>4. \A r \in Streams : Calls(r)' = Calls(r)  BY <1>2, <1>3 DEF Calls
<1>5. \A r \in Streams : Phase(r)' = Phase(r)  BY <1>2 DEF Phase
<1>6. Phases' = Phases /\ Users' = Users
  BY <1>4, <1>5, PhasesKept DEF Users
<1>7. QED  BY <1>2, <1>6 DEF Abs!vars

(* The count reaches zero exactly when the last variable or call lets go.  *)
LEMMA LetsGo ==
  ASSUME IInv, IInv', NEW t \in Threads, NEW s \in Streams,
         life[s] = "live", refs[s] > 0, Decrease(t, s),
         life' = life, thrown' = thrown
  PROVE  Abs!LetGo(s)
<1>1. TypeOK /\ refs'[s] \in Nat /\ vars'[s] \in Nat
  BY StreamAssumptions DEF IInv, TypeOK
<1>2. refs' = [refs EXCEPT ![s] = @ - 1]  BY DEF Decrease
<1>3. \A r \in Streams \ {s} : refs'[r] = refs[r]  BY <1>1, <1>2 DEF TypeOK
<1>4. refs'[s] = vars'[s] + Cardinality(Calls(s)')  BY DEF IInv, CountInv
<1>5. IsFiniteSet(Calls(s)') /\ Cardinality(Calls(s)') \in Nat
  <2>1. Calls(s)' \in SUBSET Threads  BY DEF Calls
  <2>2. QED  BY <2>1, FS_Subset, FS_CardinalityType, StreamAssumptions
<1>6. Users'[s] = Calls(s)'  BY DEF Users
<1>7. refs'[s] = 0 <=> vars'[s] = 0 /\ Users'[s] = {}
  <2>1. Cardinality(Calls(s)') = 0 <=> Calls(s)' = {}  BY <1>5, FS_EmptySet
  <2>2. refs'[s] = 0 <=> vars'[s] = 0 /\ Cardinality(Calls(s)') = 0
    BY <1>1, <1>4, <1>5
  <2>3. QED  BY <2>1, <2>2, <1>6
<1>8. CASE refs'[s] = 0
  <2>1. Phase(s)' = "closing"  BY <1>8 DEF Phase
  <2>2. \A r \in Streams \ {s} : Phase(r)' = Phase(r)  BY <1>3 DEF Phase
  <2>3. Phases' = [Phases EXCEPT ![s] = "closing"]  BY <2>1, <2>2, PhaseAfter
  <2>4. QED  BY <2>3, <1>7, <1>8 DEF Abs!LetGo
<1>9. CASE refs'[s] # 0
  <2>1. Phase(s)' = Phase(s)  BY <1>1, <1>9 DEF Phase
  <2>2. \A r \in Streams \ {s} : Phase(r)' = Phase(r)  BY <1>3 DEF Phase
  <2>3. Phases' = Phases  BY <2>1, <2>2, PhasesKept
  <2>4. QED  BY <2>3, <1>7, <1>9 DEF Abs!LetGo
<1>10. QED  BY <1>8, <1>9

LEMMA DropLives ==
  ASSUME IInv, NEW t \in Threads, NEW s \in Streams, Drop(t, s)
  PROVE  Abs!Next
<1>1. TypeOK /\ IInv'  BY DropStep DEF IInv
<1>2. /\ vars' = [vars EXCEPT ![s] = @ - 1] /\ Decrease(t, s)
      /\ pc[t] = "idle" /\ vars[s] > 0
      /\ life' = life /\ server' = server /\ thrown' = thrown /\ heap' = heap
  BY DEF Drop, sslVars
<1>3. life[s] = "live" /\ refs[s] > 0
  BY <1>1, <1>2, Counted, StreamAssumptions DEF TypeOK
<1>4. ~Uses(t)  BY <1>2 DEF Uses, InCall
<1>5. Users' = Users  BY <1>1, <1>2, <1>3, <1>4, Decreased, UsersKept
<1>6. Abs!LetGo(s)  BY <1>1, <1>2, <1>3, LetsGo
<1>7. Abs!Drop(s)  BY <1>2, <1>5, <1>6 DEF Abs!Drop
<1>8. QED  BY <1>7 DEF Abs!Next

LEMMA LeaveCallLives ==
  ASSUME IInv, NEW t \in Threads, LeaveCall(t)
  PROVE  Abs!Next
<1>1. TypeOK /\ ThreadsInv /\ IInv'  BY LeaveCallStep DEF IInv
<1>2. Uses(t) /\ pc[t] = "leave"  BY DEF LeaveCall, Uses
<1>3. PICK s \in Streams : s = this[t]  BY <1>1, <1>2 DEF TypeOK, ThreadsInv
<1>4. /\ Decrease(t, s) /\ vars' = vars
      /\ life' = life /\ server' = server /\ thrown' = thrown /\ heap' = heap
  BY <1>3 DEF LeaveCall, sslVars
<1>5. life[s] = "live" /\ refs[s] > 0  BY <1>2, <1>3, Counted
<1>6. ~Uses(t)' /\ \A u \in Threads \ {t} : SameThread(u)
  BY <1>1, <1>4, <1>5, Decreased
<1>7. \A u \in Threads \ {t} : Uses(u)' = Uses(u) /\ this'[u] = this[u]
  BY <1>6 DEF SameThread, Uses
<1>8. \A r \in Streams : Calls(r)' = IF r = s THEN Calls(s) \ {t} ELSE Calls(r)
  BY <1>2, <1>3, <1>6, <1>7 DEF Calls
<1>9. Users' = [Users EXCEPT ![s] = @ \ {t}]  BY <1>8 DEF Users
<1>10. t \in Users[s]  BY <1>2, <1>3 DEF Users, Calls
<1>11. Abs!LetGo(s)  BY <1>1, <1>4, <1>5, LetsGo
<1>12. Abs!Leave(t, s)  BY <1>4, <1>9, <1>10, <1>11 DEF Abs!Leave
<1>13. QED  BY <1>12 DEF Abs!Next

LEMMA StepLives ==
  ASSUME IInv, [Next]_allVars
  PROVE  [Abs!Next]_(Abs!vars)
<1>1. ASSUME NEW t \in Threads, Constructor(t)  PROVE [Abs!Next]_(Abs!vars)
  BY <1>1, InitSucceedsLives, InitFailsLives DEF Constructor
<1>2. ASSUME NEW t \in Threads, Cleanup(t)  PROVE [Abs!Next]_(Abs!vars)
  BY <1>2, CleanupLives, ExitInitLives, DropFailedLives, ExitReleaseLives DEF Cleanup
<1>3. ASSUME NEW t \in Threads, Call(t)  PROVE [Abs!Next]_(Abs!vars)
  BY <1>3, SslCallReturnsLives, LeaveCallLives DEF Call
<1>4. ASSUME NEW t \in Threads, Program(t)  PROVE [Abs!Next]_(Abs!vars)
  BY <1>4, NewLives, ShareLives, DropLives, BeginCallLives DEF Program
<1>5. CASE UNCHANGED allVars
  <2>1. /\ pc' = pc /\ this' = this /\ life' = life /\ refs' = refs /\ vars' = vars
        /\ server' = server /\ thrown' = thrown /\ heap' = heap
    BY <1>5 DEF allVars, objVars, sslVars
  <2>2. \A r \in Streams : Phase(r)' = Phase(r) /\ Calls(r)' = Calls(r)
    BY <2>1 DEF Phase, Calls, Uses
  <2>3. Phases' = Phases /\ Users' = Users
    BY <2>2, PhasesKept DEF Users
  <2>4. QED  BY <2>1, <2>3 DEF Abs!vars
<1>6. QED  BY <1>1, <1>2, <1>3, <1>4, <1>5 DEF Next

LEMMA InitLives == Init => Abs!Init
<1> SUFFICES ASSUME Init  PROVE Abs!Init
  OBVIOUS
<1>1. \A s \in Streams : Phase(s) = "unborn"
  BY DEF Init, Phase
<1>2. \A t \in Threads : ~Uses(t)  BY DEF Init, Uses, InCall
<1>3. \A s \in Streams : Calls(s) = {}  BY <1>2 DEF Calls
<1>4. Phases = [s \in Streams |-> "unborn"] /\ Users = [s \in Streams |-> {}]
  BY <1>1, <1>3 DEF Phases, Users
<1>5. heap = [s \in Streams |-> [x \in Abs!Kinds |-> "none"]]
  <2>1. [ctx |-> "none", ssl |-> "none", cert |-> "none"] = [x \in Abs!Kinds |-> "none"]
    BY DEF Abs!Kinds
  <2>2. QED  BY <2>1 DEF Init
<1>6. QED  BY <1>4, <1>5 DEF Init, Abs!Init

(* Threads, labels and one reference count give the program the life of a  *)
(* stream it may count on: usable once made whole and verified, callable   *)
(* while somebody holds it, freed once and only after the last has let go, *)
(* whatever fails and whoever drops it (native_init, native_release, read, *)
(* write).                                                                 *)
THEOREM LifeIsKept == Spec => ImplementsStreamLife
BY InitLives, StepLives, Invariance, PTL DEF Spec, ImplementsStreamLife, Abs!Spec

=============================================================================
