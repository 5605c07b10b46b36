--------------------------- MODULE ServicesProofs ---------------------------
(***************************************************************************)
(* Safety of the services around the pipeline, for every value of their    *)
(* constants: one signing key however many replicas race (Boot), nothing   *)
(* ungoverned and every answer its own (McpProxy), no event lost or        *)
(* doubled without a cause (Webhooks), a queue for humans that loses only   *)
(* what is stale (Sandbox), and two storage backends that cannot be told    *)
(* apart (Storage).  Each part has its inductive invariant.                *)
(***************************************************************************)
EXTENDS Boot, McpProxy, Webhooks, Sandbox, Storage, FiniteSetTheorems, TLAPS

-----------------------------------------------------------------------------
(* Boot.  A seed in the file is never replaced: a file is made only where  *)
(* there is none, by one replica, and written only by the one that made it, *)
(* while it is still short.                                                *)

BootTypes ==
    /\ step \in [Replicas -> BootSteps]
    /\ fresh \in [Replicas -> SUBSET Seeds]
    /\ signer \in [Replicas -> SUBSET Seeds]
    /\ keyFile \in Seeds \cup {"absent", "short"}

CreatorInv ==
    /\ \A p \in Replicas : step[p] \in {"create", "write"} => \E k \in Seeds : fresh[p] = {k}
    /\ \A p \in Replicas : step[p] = "write" => keyFile = "short"
    /\ \A p, q \in Replicas : step[p] = "write" /\ step[q] = "write" => p = q
    /\ \A p \in Replicas : step[p] = "check" => fresh[p] = {keyFile} /\ keyFile \in Seeds

SeedInv ==
    /\ ledger \subseteq Seeds
    /\ \A k \in ledger : keyFile = k
    /\ \A p \in Replicas : \A k \in signer[p] : keyFile = k

BootInv == BootTypes /\ CreatorInv /\ SeedInv

\* Before the first start there is no process and no record.
LEMMA BootInitInv == BootInit => BootInv
BY DEF BootInit, BootInv, BootTypes, CreatorInv, SeedInv, BootSteps

\* A step of replica p that does not touch the key file.
LEMMA BootMoves ==
    ASSUME BootInv, NEW p \in Replicas, NEW s \in BootSteps, NEW f \in SUBSET Seeds, NEW g \in SUBSET Seeds,
           step' = [step EXCEPT ![p] = s], fresh' = [fresh EXCEPT ![p] = f],
           signer' = [signer EXCEPT ![p] = g], keyFile' = keyFile,
           s \notin {"write", "check"}, s = "create" => \E k \in Seeds : f = {k},
           \A k \in g : keyFile = k, ledger' = ledger
    PROVE  BootInv'
<1>1. BootTypes'
  BY DEF BootInv, BootTypes
<1>2. \A q \in Replicas : /\ step'[q] = IF q = p THEN s ELSE step[q]
                          /\ fresh'[q] = IF q = p THEN f ELSE fresh[q]
                          /\ signer'[q] = IF q = p THEN g ELSE signer[q]
  BY DEF BootInv, BootTypes
<1>3. CreatorInv'
  <2>1. \A q \in Replicas : step'[q] \in {"create", "write"} => \E k \in Seeds : fresh'[q] = {k}
    BY <1>2 DEF BootInv, CreatorInv
  <2>2. \A q \in Replicas : step'[q] \in {"write", "check"} => q # p /\ step[q] = step'[q] /\ fresh'[q] = fresh[q]
    BY <1>2
  <2> QED
    BY <2>1, <2>2 DEF BootInv, CreatorInv
<1>4. SeedInv'
  BY <1>2 DEF BootInv, BootTypes, SeedInv
<1> QED
  BY <1>1, <1>3, <1>4 DEF BootInv

\* Every step keeps the inductive invariant.
LEMMA BootInductive == BootInv /\ [BootNext]_bootVars => BootInv'
<1> SUFFICES ASSUME BootInv, [BootNext]_bootVars PROVE BootInv'
  OBVIOUS
<1>0. /\ step \in [Replicas -> BootSteps] /\ fresh \in [Replicas -> SUBSET Seeds]
      /\ signer \in [Replicas -> SUBSET Seeds]
  BY DEF BootInv, BootTypes
<1>1. CASE UNCHANGED bootVars
  BY <1>1 DEF bootVars, BootInv, BootTypes, CreatorInv, SeedInv
<1>2. ASSUME NEW p \in Replicas, NEW s \in BootSteps, On(p, s), UNCHANGED <<keyFile, fresh, signer, ledger>>,
             s \notin {"create", "write", "check"}
      PROVE  BootInv'
  <2>1. /\ fresh' = [fresh EXCEPT ![p] = fresh[p]] /\ signer' = [signer EXCEPT ![p] = signer[p]]
        /\ fresh[p] \in SUBSET Seeds /\ signer[p] \in SUBSET Seeds /\ step' = [step EXCEPT ![p] = s]
    BY <1>0, <1>2 DEF On
  <2>2. \A k \in signer[p] : keyFile = k
    BY DEF BootInv, SeedInv
  <2>3. PICK f, g \in SUBSET Seeds : f = fresh[p] /\ g = signer[p]
    BY <2>1
  <2>4. /\ fresh' = [fresh EXCEPT ![p] = f] /\ signer' = [signer EXCEPT ![p] = g]
        /\ \A k \in g : keyFile = k
    BY <2>1, <2>2, <2>3
  <2>5. keyFile' = keyFile /\ ledger' = ledger
    BY <1>2
  <2> QED
    BY <1>2, <2>1, <2>4, <2>5, BootMoves
<1>3. ASSUME NEW p \in Replicas, Leave(p) PROVE BootInv'
  <2>1. /\ step' = [step EXCEPT ![p] = "off"] /\ fresh' = [fresh EXCEPT ![p] = {}]
        /\ signer' = [signer EXCEPT ![p] = {}] /\ UNCHANGED <<keyFile, ledger>> /\ "off" \in BootSteps
    BY <1>3 DEF Leave, On, BootSteps
  <2> QED
    BY <2>1, BootMoves
<1>4. ASSUME NEW p \in Replicas,
             \/ Start(p) \/ OpenStorage(p) \/ SeedDemoData(p) \/ AutoImportConfig(p) \/ LoadDictumOverlay(p)
             \/ RequireReceiptsOrExit(p) \/ Bind(p) \/ Kill(p)
      PROVE  BootInv'
  BY <1>2, <1>3, <1>4 DEF Start, OpenStorage, SeedDemoData, AutoImportConfig, LoadDictumOverlay,
     RequireReceiptsOrExit, Bind, Kill, Quiet, BootSteps
<1>5. ASSUME NEW p \in Replicas, LoadOrCreate(p) PROVE BootInv'
  <2>1. ledger' = ledger /\ keyFile' = keyFile
    BY <1>5 DEF LoadOrCreate, Quiet
  <2>2. CASE On(p, "gate") /\ UNCHANGED <<keyFile, fresh, signer>>
    BY <1>2, <2>1, <2>2 DEF BootSteps
  <2>3. ASSUME NEW k \in Seeds, fresh' = [fresh EXCEPT ![p] = {k}], On(p, "create"), UNCHANGED signer
        PROVE  BootInv'
    <3>1. signer' = [signer EXCEPT ![p] = signer[p]] /\ signer[p] \in SUBSET Seeds /\ "create" \in BootSteps
          /\ {k} \in SUBSET Seeds /\ step' = [step EXCEPT ![p] = "create"]
      BY <1>0, <2>3 DEF BootSteps, On
    <3>2. \A j \in signer[p] : keyFile = j
      BY DEF BootInv, SeedInv
    <3> QED
      BY <2>1, <2>3, <3>1, <3>2, BootMoves
  <2>4. ASSUME keyFile \in Seeds, signer' = [signer EXCEPT ![p] = {keyFile}], On(p, "store"), UNCHANGED fresh
        PROVE  BootInv'
    <3>1. fresh' = [fresh EXCEPT ![p] = fresh[p]] /\ fresh[p] \in SUBSET Seeds /\ "store" \in BootSteps
          /\ step' = [step EXCEPT ![p] = "store"] /\ {keyFile} \in SUBSET Seeds
      BY <1>0, <2>4 DEF BootSteps, On
    <3>2. PICK f, g \in SUBSET Seeds : f = fresh[p] /\ g = {keyFile}
      BY <3>1
    <3>3. /\ fresh' = [fresh EXCEPT ![p] = f] /\ signer' = [signer EXCEPT ![p] = g]
          /\ \A k \in g : keyFile = k
      BY <2>4, <3>1, <3>2
    <3>4. "store" \in BootSteps /\ step' = [step EXCEPT ![p] = "store"] /\ UNCHANGED <<keyFile, ledger>>
      BY <2>1, <3>1
    <3> QED
      BY <3>3, <3>4, BootMoves
  <2> QED
    BY <1>5, <2>2, <2>3, <2>4 DEF LoadOrCreate
<1>6. ASSUME NEW p \in Replicas, On(p, "gate"), fresh' = [fresh EXCEPT ![p] = {}],
             UNCHANGED <<keyFile, ledger>>, signer' = signer \/ signer' = [signer EXCEPT ![p] = {}]
      PROVE  BootInv'
  <2>1. PICK g \in SUBSET Seeds : signer' = [signer EXCEPT ![p] = g] /\ \A k \in g : keyFile = k
    <3>1. CASE signer' = signer
      BY <1>0, <3>1 DEF BootInv, SeedInv
    <3>2. CASE signer' = [signer EXCEPT ![p] = {}]
      <4>1. {} \in SUBSET Seeds /\ \A k \in {} : keyFile = k
        OBVIOUS
      <4> QED
        BY <3>2, <4>1
    <3> QED
      BY <1>6, <3>1, <3>2
  <2>2. "gate" \in BootSteps /\ step' = [step EXCEPT ![p] = "gate"]
    BY <1>6 DEF BootSteps, On
  <2> QED
    BY <1>6, <2>1, <2>2, BootMoves
\* The file is made: nobody had signed, since there was no seed to sign with.
<1>7. ASSUME NEW p \in Replicas, CreateKeyFile(p) PROVE BootInv'
  <2>1. CASE On(p, "gate") /\ fresh' = [fresh EXCEPT ![p] = {}] /\ UNCHANGED <<keyFile, signer>>
    BY <1>6, <1>7, <2>1 DEF CreateKeyFile, Quiet
  <2>2. ASSUME keyFile = "absent", keyFile' = "short", On(p, "write"), UNCHANGED <<fresh, signer>> PROVE BootInv'
    <3>1. ledger' = ledger /\ step[p] = "create"
      BY <1>7 DEF CreateKeyFile, Quiet, At
    <3>2. \A q \in Replicas : step'[q] = IF q = p THEN "write" ELSE step[q]
      BY <1>0, <2>2 DEF On
    <3>3. BootTypes'
      BY <2>2 DEF BootInv, BootTypes, On, BootSteps
    <3>4. "absent" \notin Seeds
      BY BootAssumption
    <3>5. \A q \in Replicas : step[q] \notin {"write", "check"} /\ signer[q] = {}
      BY <1>0, <2>2, <3>4 DEF BootInv, CreatorInv, SeedInv
    <3>6. ledger = {}
      BY <2>2, <3>4 DEF BootInv, SeedInv
    <3>7. CreatorInv'
      BY <2>2, <3>1, <3>2, <3>5 DEF BootInv, CreatorInv
    <3>8. SeedInv'
      BY <2>2, <3>1, <3>5, <3>6 DEF SeedInv
    <3> QED
      BY <3>3, <3>7, <3>8 DEF BootInv
  <2> QED
    BY <1>7, <2>1, <2>2 DEF CreateKeyFile
\* The seed is written, by the one replica that may.
<1>8. ASSUME NEW p \in Replicas, WriteKeyFile(p) PROVE BootInv'
  <2>1. CASE On(p, "gate") /\ fresh' = [fresh EXCEPT ![p] = {}] /\ UNCHANGED <<keyFile, signer>>
    BY <1>6, <1>8, <2>1 DEF WriteKeyFile, Quiet
  <2>2. ASSUME keyFile' \in fresh[p], On(p, "check"), UNCHANGED <<fresh, signer>> PROVE BootInv'
    <3>1. ledger' = ledger /\ step[p] = "write"
      BY <1>8 DEF WriteKeyFile, Quiet, At
    <3>2. \A q \in Replicas : step'[q] = IF q = p THEN "check" ELSE step[q]
      BY <1>0, <2>2 DEF On
    <3>3. PICK k \in Seeds : fresh[p] = {k}
      BY <3>1 DEF BootInv, CreatorInv
    <3>4. keyFile' = k /\ keyFile = "short" /\ "short" \notin Seeds
      BY <2>2, <3>1, <3>3, BootAssumption DEF BootInv, CreatorInv
    <3>5. BootTypes'
      BY <2>2, <3>4 DEF BootInv, BootTypes, On, BootSteps
    <3>6. \A q \in Replicas : (q # p => step[q] \notin {"write", "check"}) /\ signer[q] = {}
      BY <1>0, <3>1, <3>4 DEF BootInv, CreatorInv, SeedInv
    <3>7. ledger = {}
      BY <3>4 DEF BootInv, SeedInv
    <3>8. CreatorInv'
      BY <2>2, <3>2, <3>3, <3>4, <3>6 DEF BootInv, CreatorInv
    <3>9. SeedInv'
      BY <2>2, <3>1, <3>6, <3>7 DEF SeedInv
    <3> QED
      BY <3>5, <3>8, <3>9 DEF BootInv
  <2> QED
    BY <1>8, <2>1, <2>2 DEF WriteKeyFile
<1>9. ASSUME NEW p \in Replicas, VerifyCreatedKeyPermissions(p) PROVE BootInv'
  <2>1. UNCHANGED <<keyFile, ledger>> /\ fresh' = [fresh EXCEPT ![p] = {}] /\ step[p] = "check"
    BY <1>9 DEF VerifyCreatedKeyPermissions, Quiet, At
  <2>2. CASE UNCHANGED signer /\ On(p, "gate")
    BY <1>6, <2>1, <2>2
  <2>3. CASE signer' = [signer EXCEPT ![p] = fresh[p]] /\ On(p, "store")
    <3>1. fresh[p] \in SUBSET Seeds /\ (\A k \in fresh[p] : keyFile = k)
          /\ "store" \in BootSteps /\ step' = [step EXCEPT ![p] = "store"]
      BY <1>0, <2>1, <2>3 DEF BootInv, CreatorInv, BootSteps, On
    <3>2. PICK g \in SUBSET Seeds : g = fresh[p]
      BY <3>1
    <3>3. signer' = [signer EXCEPT ![p] = g] /\ \A k \in g : keyFile = k
      BY <2>3, <3>1, <3>2
    <3> QED
      BY <2>1, <3>1, <3>3, BootMoves
  <2> QED
    BY <1>9, <2>2, <2>3 DEF VerifyCreatedKeyPermissions
<1>10. ASSUME NEW p \in Replicas, OpenReceiptStore(p) PROVE BootInv'
  <2>1. /\ On(p, "gate") /\ UNCHANGED <<keyFile, fresh, ledger>>
        /\ signer' = signer \/ signer' = [signer EXCEPT ![p] = {}]
    BY <1>10 DEF OpenReceiptStore, Quiet
  <2>2. CASE signer' = signer
    BY <1>2, <2>1, <2>2 DEF BootSteps
  <2>3. CASE signer' = [signer EXCEPT ![p] = {}]
    <3>1. /\ fresh' = [fresh EXCEPT ![p] = fresh[p]] /\ fresh[p] \in SUBSET Seeds /\ "gate" \in BootSteps
          /\ step' = [step EXCEPT ![p] = "gate"]
      BY <1>0, <2>1 DEF BootSteps, On
    <3>2. PICK f, g \in SUBSET Seeds : f = fresh[p] /\ g = {}
      BY <3>1
    <3>3. /\ fresh' = [fresh EXCEPT ![p] = f] /\ signer' = [signer EXCEPT ![p] = g]
          /\ \A k \in g : keyFile = k
      BY <2>3, <3>1, <3>2
    <3>4. "gate" \in BootSteps /\ step' = [step EXCEPT ![p] = "gate"] /\ UNCHANGED <<keyFile, ledger>>
      BY <2>1, <3>1
    <3> QED
      BY <3>2, <3>3, <3>4, BootMoves
  <2> QED
    BY <2>1, <2>2, <2>3
<1>11. ASSUME NEW p \in Replicas, SignReceipt(p) PROVE BootInv'
  <2>1. UNCHANGED <<keyFile, step, fresh, signer>> /\ ledger' = ledger \cup signer[p]
    BY <1>11 DEF SignReceipt
  <2> QED
    BY <1>0, <2>1 DEF BootInv, BootTypes, CreatorInv, SeedInv
<1> QED
  BY <1>1, <1>4, <1>5, <1>7, <1>8, <1>9, <1>10, <1>11 DEF BootNext

\* The inductive invariant of the start of the replicas.
THEOREM BootInvariance == BootSpec => []BootInv
BY BootInitInv, BootInductive, PTL DEF BootSpec

\* However many replicas race for the key file, and wherever they are killed,
\* every receipt was signed, and every replica signs, with the seed in the file.
THEOREM OneSigningKeyTheorem == BootSpec => []OneSigningKey
<1>1. BootInv => OneSigningKey
  BY DEF BootInv, SeedInv, OneSigningKey
<1> QED
  BY <1>1, BootInvariance, PTL

-----------------------------------------------------------------------------
(* McpProxy.  The message being handled determines what the loop may do    *)
(* next, and behind an honest server the pipe holds at most the one answer *)
(* that is waited for.                                                     *)

ProxyKeys == {m.key : m \in ProxyCalls} \cup {"none"}
Answers == [id : Nat, key : ProxyKeys]
Lines == [re : Answers, ok : BOOLEAN]
Gots == {<<>>} \cup {<<a>> : a \in Answers}
Messages == [id : Nat, kind : Kinds, key : ProxyKeys, read : BOOLEAN,
             verdict : {"none", "allow", "review", "block", "error"},
             audited : BOOLEAN, sent : BOOLEAN, got : Gots]
PxPhases == {"read", "govern", "forward", "drop", "notify", "cache", "await", "closed"}

PipeTypes ==
    /\ toServer \in Seq(Answers) /\ fromServer \in Seq(Lines)
    /\ serverUp \in BOOLEAN
    /\ ~serverUp => toServer = <<>>
    /\ \A k \in DOMAIN respCache : respCache[k].of \in Answers

\* What a message may have been through when the loop is at pc.
Handled(m, pc) ==
    /\ pc \notin {"read", "closed"} => m.got = <<>> /\ m.id >= 1
    /\ pc = "govern" => m.kind \in {"call", "badParams"} /\ ~m.sent
    /\ pc = "drop" => m.kind = "callNotification" /\ ~m.sent
    /\ pc = "notify" => m.kind = "notification"
    /\ pc = "cache" => m.kind = "call" /\ ~m.sent /\ m.verdict = "allow" /\ m.audited
    /\ pc \in {"forward", "await"} => m.kind \in {"call", "other"}
    /\ pc = "forward" /\ m.kind = "call" => m.verdict = "allow" /\ m.audited
    /\ pc = "read" /\ m.id # 0 => (m.got # <<>> <=> m.kind \in {"call", "other", "badParams"})

Governed(m) ==
    m.sent => /\ m.kind \notin {"callNotification", "badParams"}
              /\ m.kind = "call" => m.verdict = "allow" /\ m.audited

MsgInv ==
    /\ pxPc \in PxPhases /\ pxMsg \in Messages /\ pxCount \in Nat
    /\ pxMsg.id = pxCount
    /\ Handled(pxMsg, pxPc)
    /\ Governed(pxMsg)

\* a answers the request of m, or an earlier one with the same key.
Matches(a, m) == a.key = m.key /\ (a.id = m.id \/ a.id \in 1..(m.id - 1))

\* The one answer that is under way, in one of two pipes, or lost in an exit.
UnderWay(own) ==
    \/ toServer = <<own>> /\ fromServer = <<>>
    \/ toServer = <<>> /\ fromServer = <<>>
    \/ toServer = <<>> /\ \E ok \in BOOLEAN : fromServer = <<[re |-> own, ok |-> ok]>>

HonestInv ==
    /\ pxPc # "await" => toServer = <<>> /\ fromServer = <<>>
    /\ pxPc = "await" => UnderWay(Own)
    /\ \A k \in DOMAIN respCache : respCache[k].of.key = k /\ respCache[k].of.id \in 1..pxCount
    /\ \A a \in Answers : pxMsg.got = <<a>> => Matches(a, pxMsg)

ProxyInv == PipeTypes /\ MsgInv /\ (honest => HonestInv)

-----------------------------------------------------------------------------
\* The proxy's own answers carry the id of the message at hand.
LEMMA OwnAnswers == ASSUME MsgInv PROVE Own \in Answers /\ Matches(Own, pxMsg)
BY DEF MsgInv, Messages, Own, Answers, Matches

\* No message has been read.
LEMMA ProxyInitInv == ProxyInit => ProxyInv
<1> SUFFICES ASSUME ProxyInit PROVE ProxyInv
  OBVIOUS
<1>1. PipeTypes
  BY DEF ProxyInit, PipeTypes
<1>2. /\ pxMsg \in Messages /\ pxMsg.id = 0 /\ ~pxMsg.sent /\ pxMsg.got = <<>>
      /\ pxPc = "read" /\ pxCount = 0
  BY DEF ProxyInit, Received, Messages, Kinds, ProxyKeys, Gots
<1>3. MsgInv
  BY <1>2 DEF MsgInv, Handled, Governed, PxPhases
<1>4. HonestInv
  <2>1. \A a : <<>> # <<a>>
    OBVIOUS
  <2> QED
    BY <1>2, <2>1 DEF ProxyInit, HonestInv
<1> QED
  BY <1>1, <1>3, <1>4 DEF ProxyInv

\* The loop answers the message and reads the next.
LEMMA AnswerMsg ==
    ASSUME MsgInv, NEW re \in Answers, Answer(re), UNCHANGED pxCount,
           pxPc \notin {"read", "closed"}, pxMsg.kind \in {"call", "other", "badParams"}
    PROVE  /\ MsgInv' /\ pxPc' = "read"
           /\ pxMsg'.id = pxMsg.id /\ pxMsg'.key = pxMsg.key /\ pxMsg'.got = <<re>>
<1>1. pxMsg \in Messages /\ pxMsg.got = <<>>
  BY DEF MsgInv, Handled
<1>2. Append(<<>>, re) = <<re>> /\ <<re>> \in Gots /\ <<re>> # <<>>
  BY DEF Gots
<1>3. pxMsg' = [pxMsg EXCEPT !.got = <<re>>] /\ pxPc' = "read"
  BY <1>1, <1>2 DEF Answer
<1>4. /\ pxMsg' \in Messages /\ pxMsg'.got = <<re>> /\ pxMsg'.id = pxMsg.id /\ pxMsg'.key = pxMsg.key
      /\ pxMsg'.kind = pxMsg.kind /\ pxMsg'.sent = pxMsg.sent /\ pxMsg'.verdict = pxMsg.verdict
      /\ pxMsg'.audited = pxMsg.audited
  BY <1>1, <1>2, <1>3 DEF Messages
<1>5. Handled(pxMsg, pxPc)'
  BY <1>2, <1>3, <1>4 DEF Handled
<1>6. Governed(pxMsg)'
  BY <1>4 DEF MsgInv, Governed
<1> QED
  BY <1>3, <1>4, <1>5, <1>6 DEF MsgInv, PxPhases

\* The message is marked, and not answered: what is left to show of it.
LEMMA MarkedMsg ==
    ASSUME MsgInv, NEW q \in Messages, pxMsg' = q, UNCHANGED pxCount, pxPc' \in PxPhases,
           q.id = pxMsg.id, Handled(q, pxPc'), Governed(q)
    PROVE  MsgInv'
BY DEF MsgInv

\* A message is taken from the client, of any kind.
LEMMA ReadSteps == ASSUME ProxyInv, UNCHANGED honest, NEW m \in ProxyCalls, ReadClient(m) PROVE ProxyInv'
<1>1. m.kind \in Kinds /\ m.read \in BOOLEAN /\ m.key \in ProxyKeys
  BY ProxyAssumption DEF ProxyKeys
<1>2. pxCount \in Nat /\ pxPc = "read" /\ pxCount' = pxCount + 1
  BY DEF ProxyInv, MsgInv, ReadClient
<1>3. /\ pxMsg' \in Messages /\ pxMsg'.id = pxCount + 1 /\ pxMsg'.kind = m.kind
      /\ ~pxMsg'.sent /\ pxMsg'.got = <<>>
  BY <1>1, <1>2 DEF ReadClient, Received, Messages, Gots
<1>4. /\ m.kind \in {"call", "badParams"} => pxPc' = "govern"
      /\ m.kind = "other" => pxPc' = "forward"
      /\ m.kind = "callNotification" => pxPc' = "drop"
      /\ m.kind = "notification" => pxPc' = "notify"
      /\ m.kind = "garbage" => pxPc' = "read"
  BY DEF ReadClient
<1>5. pxPc' \in PxPhases /\ pxPc' # "await"
  BY <1>1, <1>4 DEF Kinds, PxPhases
<1>6. Handled(pxMsg, pxPc)'
  BY <1>1, <1>2, <1>3, <1>4 DEF Handled, Kinds
<1>7. MsgInv'
  BY <1>2, <1>3, <1>5, <1>6 DEF MsgInv, Governed
<1>8. PipeTypes'
  BY DEF ReadClient, ProxyInv, PipeTypes
<1>9. ASSUME honest PROVE HonestInv'
  <2>1. UNCHANGED <<toServer, fromServer, respCache>> /\ \A a : <<a>> # <<>>
    BY DEF ReadClient
  <2> QED
    BY <1>2, <1>3, <1>5, <1>9, <2>1 DEF ProxyInv, HonestInv
<1> QED
  BY <1>7, <1>8, <1>9 DEF ProxyInv

\* The rest of the loop: the verdict, the forward and what is written back.
LEMMA LoopSteps == ASSUME ProxyInv, UNCHANGED honest, ProxyLoop PROVE ProxyInv'
<1>0. /\ pxMsg \in Messages /\ pxCount \in Nat /\ pxMsg.id = pxCount
      /\ Handled(pxMsg, pxPc) /\ Governed(pxMsg) /\ MsgInv
  BY DEF ProxyInv, MsgInv
<1>1. Own \in Answers /\ Matches(Own, pxMsg)
  BY <1>0, OwnAnswers
<1>2. pxCount' = pxCount
  BY DEF ProxyLoop, DropNotification, ForwardNotification, InvalidParams, Intercept, CacheHitProxy,
     CacheMiss, Forward, TakeAnswer, ServerClosed
\* An answer that matches, with nothing left in the pipes.
<1>3. ASSUME NEW re \in Answers, Answer(re), honest => Matches(re, pxMsg), PipeTypes',
             pxPc \notin {"read", "closed"}, pxMsg.kind \in {"call", "other", "badParams"},
             honest => toServer' = <<>> /\ fromServer' = <<>>,
             honest => \A k \in DOMAIN respCache' :
                         respCache'[k].of.key = k /\ respCache'[k].of.id \in 1..pxCount
      PROVE  ProxyInv'
  <2>1. /\ MsgInv' /\ pxPc' = "read"
        /\ pxMsg'.id = pxMsg.id /\ pxMsg'.key = pxMsg.key /\ pxMsg'.got = <<re>>
    BY <1>0, <1>2, <1>3, AnswerMsg
  <2>2. \A a : <<re>> = <<a>> => a = re
    OBVIOUS
  <2>3. ASSUME honest PROVE \A a \in Answers : pxMsg'.got = <<a>> => Matches(a, pxMsg)'
    BY <1>3, <2>1, <2>2, <2>3 DEF Matches
  <2>4. ASSUME honest PROVE HonestInv'
    BY <1>2, <1>3, <2>1, <2>3, <2>4 DEF HonestInv
  <2> QED
    BY <1>3, <2>1, <2>4 DEF ProxyInv
\* A step that leaves the pipes and the cache, and the message unanswered.
<1>4. ASSUME NEW q \in Messages, pxMsg' = q, pxPc' \in PxPhases, q.id = pxMsg.id, q.key = pxMsg.key,
             q.got = <<>>, Handled(q, pxPc'), Governed(q), pxPc # "await", pxPc' # "await",
             UNCHANGED <<toServer, fromServer, serverUp, respCache>>
      PROVE  ProxyInv'
  <2>1. MsgInv'
    BY <1>0, <1>2, <1>4, MarkedMsg
  <2>2. PipeTypes'
    BY <1>4 DEF ProxyInv, PipeTypes
  <2>3. ASSUME honest PROVE HonestInv'
    <3>1. \A a : <<a>> # <<>>
      OBVIOUS
    <3> QED
      BY <1>2, <1>4, <2>3, <3>1 DEF ProxyInv, HonestInv
  <2> QED
    BY <2>1, <2>2, <2>3 DEF ProxyInv
<1>5. CASE DropNotification
  <2>1. PICK stored \in BOOLEAN : pxMsg' = [pxMsg EXCEPT !.audited = stored]
    BY <1>5 DEF DropNotification
  <2>2. PICK q : q = [pxMsg EXCEPT !.audited = stored]
    OBVIOUS
  <2>3. /\ q \in Messages /\ q.id = pxMsg.id /\ q.key = pxMsg.key /\ q.got = pxMsg.got
        /\ q.sent = pxMsg.sent /\ q.kind = pxMsg.kind
    BY <1>0, <2>2 DEF Messages
  <2>4. pxPc = "drop" /\ pxPc' = "read" /\ UNCHANGED <<toServer, fromServer, serverUp, respCache>>
    BY <1>5 DEF DropNotification
  <2>5. q.got = <<>> /\ Handled(q, "read") /\ Governed(q)
    BY <1>0, <2>3, <2>4 DEF Handled, Governed
  <2> QED
    BY <1>4, <2>1, <2>2, <2>3, <2>4, <2>5 DEF PxPhases
<1>6. CASE ForwardNotification
  <2>1. PICK q : q = [pxMsg EXCEPT !.sent = serverUp] /\ pxMsg' = q
    BY <1>6 DEF ForwardNotification
  <2>2. /\ q \in Messages /\ q.id = pxMsg.id /\ q.key = pxMsg.key /\ q.got = pxMsg.got
        /\ q.kind = pxMsg.kind
    BY <1>0, <2>1 DEF Messages, ProxyInv, PipeTypes
  <2>3. pxPc = "notify" /\ pxPc' = "read" /\ UNCHANGED <<toServer, fromServer, serverUp, respCache>>
    BY <1>6 DEF ForwardNotification
  <2>4. q.got = <<>> /\ Handled(q, "read") /\ Governed(q)
    BY <1>0, <2>2, <2>3 DEF Handled, Governed
  <2> QED
    BY <1>4, <2>1, <2>2, <2>3, <2>4 DEF PxPhases
\* Outside "await" an honest server's pipes are empty and the cache is sound.
<1>7. ASSUME honest, pxPc # "await"
      PROVE  /\ toServer = <<>> /\ fromServer = <<>>
             /\ \A k \in DOMAIN respCache : respCache[k].of.key = k /\ respCache[k].of.id \in 1..pxCount
  BY <1>7 DEF ProxyInv, HonestInv
<1>8. ASSUME UNCHANGED <<toServer, fromServer, serverUp, respCache>> PROVE PipeTypes'
  BY <1>8 DEF ProxyInv, PipeTypes
<1>9. CASE InvalidParams
  <2>1. PICK re \in Answers : re = Own
    BY <1>1
  <2>2. Answer(re) /\ pxPc = "govern" /\ pxMsg.kind = "badParams"
        /\ UNCHANGED <<toServer, fromServer, serverUp, respCache>>
    BY <1>9, <2>1 DEF InvalidParams
  <2> QED
    BY <1>1, <1>3, <1>7, <1>8, <2>1, <2>2
<1>10. ASSUME NEW v \in {"allow", "review", "block", "error"}, Intercept(v) PROVE ProxyInv'
  <2> DEFINE judged == [pxMsg EXCEPT !.verdict = v, !.audited = v # "error"]
  <2>1. pxPc = "govern" /\ pxMsg.kind = "call" /\ UNCHANGED <<toServer, fromServer, serverUp, respCache>>
    BY <1>10 DEF Intercept
  <2>2. pxMsg.got = <<>> /\ ~pxMsg.sent /\ pxMsg.id >= 1
    BY <1>0, <2>1 DEF Handled
  <2>3. PICK b \in BOOLEAN : b = (v # "error")
    OBVIOUS
  <2>4. PICK j : j = judged
    OBVIOUS
  <2>5. /\ j \in Messages /\ j.id = pxMsg.id /\ j.key = pxMsg.key /\ j.got = <<>>
        /\ j.kind = "call" /\ ~j.sent /\ j.verdict = v /\ (v = "allow" => j.audited)
    <3>1. j = [pxMsg EXCEPT !.verdict = v, !.audited = b]
      BY <2>3, <2>4
    <3>2. v = "allow" => b
      BY <2>3
    <3> QED
      BY <1>0, <2>1, <2>2, <3>1, <3>2 DEF Messages
  <2>6. CASE v = "allow"
    <3>1. pxMsg' = j /\ pxPc' = "cache"
      BY <1>10, <2>4, <2>6 DEF Intercept, Forwards
    <3>2. Handled(j, "cache") /\ Governed(j)
      BY <1>0, <2>2, <2>5, <2>6 DEF Handled, Governed
    <3> QED
      BY <1>4, <2>1, <2>5, <3>1, <3>2 DEF PxPhases
  <2>7. CASE v # "allow"
    <3>1. pxMsg' = [j EXCEPT !.got = <<Own>>] /\ pxPc' = "read"
      BY <1>10, <2>4, <2>7 DEF Intercept, Forwards
    <3>2. PICK re \in Answers : re = Own /\ Matches(re, pxMsg)
      BY <1>1
    <3>3. <<re>> \in Gots /\ <<re>> # <<>> /\ \A a : <<re>> = <<a>> => a = re
      BY DEF Gots
    <3>4. pxMsg' = [j EXCEPT !.got = <<re>>]
      BY <3>1, <3>2
    <3>5. /\ pxMsg' \in Messages /\ pxMsg'.id = pxMsg.id /\ pxMsg'.key = pxMsg.key /\ pxMsg'.got = <<re>>
          /\ pxMsg'.kind = "call" /\ ~pxMsg'.sent
      BY <2>5, <3>3, <3>4 DEF Messages
    <3>6. Handled(pxMsg, pxPc)' /\ Governed(pxMsg)'
      BY <3>1, <3>3, <3>5 DEF Handled, Governed
    <3>7. MsgInv'
      BY <1>0, <1>2, <3>1, <3>5, <3>6 DEF MsgInv, PxPhases
    <3>8. ASSUME honest PROVE HonestInv'
      <4>1. \A a \in Answers : pxMsg'.got = <<a>> => Matches(a, pxMsg)'
        BY <3>2, <3>3, <3>5 DEF Matches
      <4> QED
        BY <1>2, <1>7, <2>1, <3>1, <3>8, <4>1 DEF HonestInv
    <3> QED
      BY <1>8, <2>1, <3>7, <3>8 DEF ProxyInv
  <2> QED
    BY <2>6, <2>7
\* From the cache: under its key, and of a message read before.
<1>11. CASE CacheHitProxy
  <2>1. /\ pxPc = "cache" /\ pxMsg.key \in DOMAIN respCache
        /\ UNCHANGED <<toServer, fromServer, serverUp, respCache>>
    BY <1>11 DEF CacheHitProxy, Live
  <2>2. PICK re \in Answers : re = respCache[pxMsg.key].of
    BY <2>1 DEF ProxyInv, PipeTypes
  <2>3. Answer(re)
    BY <1>11, <2>2 DEF CacheHitProxy
  <2>4. pxMsg.kind = "call"
    BY <1>0, <2>1 DEF Handled
  <2>5. honest => re.key = pxMsg.key /\ re.id \in 1..pxCount
    BY <1>7, <2>1, <2>2
  <2>6. honest => Matches(re, pxMsg)
    BY <1>0, <2>5 DEF Matches
  <2> QED
    BY <1>3, <1>7, <1>8, <2>1, <2>3, <2>4, <2>6
<1>12. CASE CacheMiss
  <2>1. /\ pxPc = "cache" /\ pxPc' = "forward" /\ UNCHANGED <<pxMsg, toServer, fromServer, serverUp>>
        /\ DOMAIN respCache' \subseteq DOMAIN respCache
        /\ \A k \in DOMAIN respCache' : respCache'[k] = respCache[k]
    BY <1>12 DEF CacheMiss
  <2>2. Handled(pxMsg, "forward")
    BY <1>0, <2>1 DEF Handled
  <2>3. MsgInv'
    BY <1>0, <1>2, <2>1, <2>2 DEF MsgInv, PxPhases
  <2>4. PipeTypes'
    BY <2>1 DEF ProxyInv, PipeTypes
  <2>5. ASSUME honest PROVE HonestInv'
    <3>1. \A a \in Answers : pxMsg'.got = <<a>> => Matches(a, pxMsg)'
      BY <2>1, <2>5 DEF ProxyInv, HonestInv, Matches
    <3> QED
      BY <1>2, <1>7, <2>1, <2>5, <3>1 DEF HonestInv
  <2> QED
    BY <2>3, <2>4, <2>5 DEF ProxyInv
<1>13. CASE Forward
  <2>1. pxPc = "forward" /\ UNCHANGED <<fromServer, serverUp, respCache>>
    BY <1>13 DEF Forward
  <2>2. pxMsg.kind \in {"call", "other"} /\ pxMsg.got = <<>> /\ pxMsg.id >= 1
        /\ (pxMsg.kind = "call" => pxMsg.verdict = "allow" /\ pxMsg.audited)
    BY <1>0, <2>1 DEF Handled
  <2>3. CASE ~serverUp
    <3>1. PICK re \in Answers : re = Own
      BY <1>1
    <3>2. Answer(re) /\ UNCHANGED toServer
      BY <1>13, <2>3, <3>1 DEF Forward
    <3> QED
      BY <1>1, <1>3, <1>7, <1>8, <2>1, <2>2, <3>1, <3>2
  <2>4. CASE serverUp
    <3>1. /\ toServer' = Append(toServer, Own) /\ pxMsg' = [pxMsg EXCEPT !.sent = TRUE]
          /\ pxPc' = "await"
      BY <1>13, <2>4 DEF Forward
    <3>2. /\ pxMsg' \in Messages /\ pxMsg'.id = pxMsg.id /\ pxMsg'.key = pxMsg.key /\ pxMsg'.got = <<>>
          /\ pxMsg'.kind = pxMsg.kind /\ pxMsg'.verdict = pxMsg.verdict /\ pxMsg'.audited = pxMsg.audited
      BY <1>0, <2>2, <3>1 DEF Messages
    <3>3. Handled(pxMsg, pxPc)' /\ Governed(pxMsg)'
      BY <2>2, <3>1, <3>2 DEF Handled, Governed
    <3>4. MsgInv'
      BY <1>0, <1>2, <3>1, <3>2, <3>3 DEF MsgInv, PxPhases
    <3>5. PipeTypes'
      BY <1>1, <2>1, <2>4, <3>1 DEF ProxyInv, PipeTypes
    <3>6. ASSUME honest PROVE HonestInv'
      <4>1. toServer' = <<Own>> /\ fromServer' = <<>>
        <5>1. toServer = <<>> /\ fromServer = <<>>
          BY <1>7, <2>1, <3>6
        <5>2. Append(<<>>, Own) = <<Own>>
          OBVIOUS
        <5> QED
          BY <2>1, <3>1, <5>1, <5>2
      <4>2. Own' = Own
        BY <3>2 DEF Own
      <4>3. UnderWay(Own)'
        BY <4>1, <4>2 DEF UnderWay
      <4>4. \A a : <<a>> # <<>>
        OBVIOUS
      <4> QED
        BY <1>2, <1>7, <2>1, <3>1, <3>2, <3>6, <4>3, <4>4 DEF HonestInv
    <3> QED
      BY <3>4, <3>5, <3>6 DEF ProxyInv
  <2> QED
    BY <2>3, <2>4 DEF ProxyInv, PipeTypes
<1>14. CASE TakeAnswer
  <2>1. /\ pxPc = "await" /\ fromServer # <<>> /\ fromServer' = Tail(fromServer)
        /\ UNCHANGED <<toServer, serverUp>>
    BY <1>14 DEF TakeAnswer
  <2>2. pxMsg.kind \in {"call", "other"} /\ pxMsg.id >= 1
    BY <1>0, <2>1 DEF Handled
  <2>3. Head(fromServer) \in Lines /\ Tail(fromServer) \in Seq(Lines)
    BY <2>1 DEF ProxyInv, PipeTypes
  <2>4. PICK line \in Lines : line = Head(fromServer)
    BY <2>3
  <2>5. PICK re \in Answers : re = line.re
    BY <2>4 DEF Lines
  <2>6. Answer(re) /\ respCache' \in {respCache, CachePut(pxMsg.key, re)}
    BY <1>14, <2>4, <2>5 DEF TakeAnswer, Remembered
  <2>7. \A k \in DOMAIN respCache' : \/ k \in DOMAIN respCache /\ respCache'[k] = respCache[k]
                                     \/ k = pxMsg.key /\ respCache'[k].of = re
    BY <2>6 DEF CachePut
  <2>8. PipeTypes'
    BY <2>1, <2>3, <2>7 DEF ProxyInv, PipeTypes
  <2>9. ASSUME honest PROVE re = Own /\ toServer = <<>> /\ Tail(fromServer) = <<>>
    <3>1. UnderWay(Own)
      BY <2>1, <2>9 DEF ProxyInv, HonestInv
    <3>2. PICK ok \in BOOLEAN : toServer = <<>> /\ fromServer = <<[re |-> Own, ok |-> ok]>>
      BY <2>1, <3>1 DEF UnderWay
    <3> QED
      BY <2>4, <2>5, <3>2
  <2>10. ASSUME honest PROVE \A k \in DOMAIN respCache' : respCache'[k].of.key = k /\ respCache'[k].of.id \in 1..pxCount
    <3>1. re.key = pxMsg.key /\ re.id \in 1..pxCount
      BY <1>0, <2>2, <2>9, <2>10 DEF Own
    <3> QED
      BY <2>7, <2>10, <3>1 DEF ProxyInv, HonestInv
  <2> QED
    BY <1>1, <1>3, <2>1, <2>2, <2>6, <2>8, <2>9, <2>10
<1>15. CASE ServerClosed
  <2>1. /\ pxPc = "await" /\ fromServer = <<>> /\ ~serverUp
        /\ UNCHANGED <<toServer, fromServer, serverUp, respCache>>
    BY <1>15 DEF ServerClosed
  <2>2. PICK re \in Answers : re = Own
    BY <1>1
  <2>3. Answer(re)
    BY <1>15, <2>2 DEF ServerClosed
  <2>4. toServer = <<>>
    BY <2>1 DEF ProxyInv, PipeTypes
  <2>5. pxMsg.kind \in {"call", "other"}
    BY <1>0, <2>1 DEF Handled
  <2>6. honest => \A k \in DOMAIN respCache : respCache[k].of.key = k /\ respCache[k].of.id \in 1..pxCount
    BY DEF ProxyInv, HonestInv
  <2> QED
    BY <1>1, <1>3, <1>8, <2>1, <2>2, <2>3, <2>4, <2>5, <2>6
<1> QED
  BY <1>5, <1>6, <1>9, <1>10, <1>11, <1>12, <1>13, <1>14, <1>15 DEF ProxyLoop

\* The server, the clock and the end of the client's input.
LEMMA OutsideSteps ==
    ASSUME ProxyInv, UNCHANGED honest, ProxyServer \/ ServerSpeaks \/ ProxyTick \/ ClientCloses
    PROVE  ProxyInv'
<1>1. UNCHANGED <<pxMsg, pxCount, respCache>>
  BY DEF ProxyServer, ServerAnswers, ServerExits, ServerSpeaks, ProxyTick, ClientCloses
<1>2. pxPc' = pxPc \/ (pxPc = "read" /\ pxPc' = "closed")
  BY DEF ProxyServer, ServerAnswers, ServerExits, ServerSpeaks, ProxyTick, ClientCloses
<1>3. MsgInv'
  <2>1. Handled(pxMsg, pxPc)'
    BY <1>1, <1>2 DEF ProxyInv, MsgInv, Handled
  <2> QED
    BY <1>1, <1>2, <2>1 DEF ProxyInv, MsgInv, Governed, PxPhases
<1>4. Nobody \in Answers
  BY DEF Nobody, Answers, ProxyKeys
<1>5. ASSUME NEW ok \in BOOLEAN, ServerAnswers(ok)
      PROVE  PipeTypes'
  <2>1. Head(toServer) \in Answers /\ Tail(toServer) \in Seq(Answers)
    BY <1>5 DEF ServerAnswers, ProxyInv, PipeTypes
  <2>2. [re |-> Head(toServer), ok |-> ok] \in Lines
    BY <2>1 DEF Lines
  <2> QED
    BY <1>1, <1>5, <2>1, <2>2 DEF ServerAnswers, ProxyInv, PipeTypes
<1>6. ASSUME ServerSpeaks PROVE PipeTypes'
  <2>1. [re |-> Nobody, ok |-> FALSE] \in Lines
    BY <1>4 DEF Lines
  <2> QED
    BY <1>1, <1>6, <2>1 DEF ServerSpeaks, ProxyInv, PipeTypes
<1>7. ASSUME ServerExits \/ ClientCloses \/ ProxyTick PROVE PipeTypes'
  <2>1. fromServer' = fromServer /\ (toServer' = <<>> \/ UNCHANGED <<toServer, serverUp>>)
    BY <1>7 DEF ServerExits, ClientCloses, ProxyTick
  <2>2. serverUp' = serverUp \/ serverUp' = FALSE
    BY <1>7 DEF ServerExits, ClientCloses, ProxyTick
  <2>3. serverUp' \in BOOLEAN
    BY <2>2 DEF ProxyInv, PipeTypes
  <2>4. toServer' \in Seq(Answers) /\ fromServer' \in Seq(Lines)
    <3>1. toServer \in Seq(Answers) /\ fromServer \in Seq(Lines)
      BY DEF ProxyInv, PipeTypes
    <3>2. <<>> \in Seq(Answers)
      OBVIOUS
    <3> QED
      BY <2>1, <3>1, <3>2
  <2>5. ~serverUp' => toServer' = <<>>
    BY <2>1 DEF ProxyInv, PipeTypes
  <2>6. \A k \in DOMAIN respCache' : respCache'[k].of \in Answers
    BY <1>1 DEF ProxyInv, PipeTypes
  <2> QED
    BY <2>3, <2>4, <2>5, <2>6 DEF PipeTypes
<1>8. ASSUME honest PROVE HonestInv'
  <2>1. /\ \A k \in DOMAIN respCache' : respCache'[k].of.key = k /\ respCache'[k].of.id \in 1..pxCount'
        /\ \A a \in Answers : pxMsg'.got = <<a>> => Matches(a, pxMsg)'
    BY <1>1, <1>8 DEF ProxyInv, HonestInv, Matches
  <2>2. Own' = Own
    BY <1>1 DEF Own
  <2>3. ASSUME pxPc # "await" PROVE toServer' = <<>> /\ fromServer' = <<>>
    BY <1>8, <2>3 DEF ProxyInv, HonestInv, ProxyServer, ServerAnswers, ServerExits, ServerSpeaks, ProxyTick, ClientCloses
  <2>4. ASSUME pxPc = "await" PROVE UnderWay(Own)'
    <3>0. UnderWay(Own)
      BY <1>8, <2>4 DEF ProxyInv, HonestInv
    <3>1. ASSUME NEW ok \in BOOLEAN, ServerAnswers(ok) PROVE UnderWay(Own)'
      <4>1. toServer = <<Own>> /\ fromServer = <<>>
        BY <3>0, <3>1 DEF UnderWay, ServerAnswers
      <4>2. PICK own : own = Own
        OBVIOUS
      <4>3. Head(<<own>>) = own /\ Tail(<<own>>) = <<>> /\ Append(<<>>, [re |-> own, ok |-> ok]) = <<[re |-> own, ok |-> ok]>>
        OBVIOUS
      <4>4. toServer' = <<>> /\ fromServer' = <<[re |-> own, ok |-> ok]>>
        BY <3>1, <4>1, <4>2, <4>3 DEF ServerAnswers
      <4> QED
        BY <2>2, <4>2, <4>4 DEF UnderWay
    <3>2. CASE ServerExits
      BY <2>2, <3>0, <3>2 DEF ServerExits, UnderWay
    <3>3. CASE ProxyTick
      BY <2>2, <3>0, <3>3 DEF ProxyTick, UnderWay
    <3> QED
      BY <1>8, <2>4, <3>1, <3>2, <3>3 DEF ProxyServer, ServerSpeaks, ClientCloses
  <2>5. pxPc' = "await" <=> pxPc = "await"
    BY <1>2
  <2> QED
    BY <2>1, <2>3, <2>4, <2>5 DEF HonestInv
<1> QED
  BY <1>3, <1>5, <1>6, <1>7, <1>8 DEF ProxyInv, ProxyServer

\* Every step keeps the inductive invariant.
LEMMA ProxyInductive == ProxyInv /\ [ProxyNext]_proxyVars => ProxyInv'
<1> SUFFICES ASSUME ProxyInv, [ProxyNext]_proxyVars PROVE ProxyInv'
  OBVIOUS
<1>1. CASE UNCHANGED proxyVars
  BY <1>1 DEF proxyVars, ProxyInv, PipeTypes, MsgInv, Handled, Governed, HonestInv, UnderWay, Own, Matches
<1> QED
  BY <1>1, ReadSteps, LoopSteps, OutsideSteps DEF ProxyNext, ProxyStep

\* The inductive invariant of the proxy.
THEOREM ProxyInvariance == ProxySpec => []ProxyInv
BY ProxyInitInv, ProxyInductive, PTL DEF ProxySpec

\* Nothing that invokes a tool reaches the server without a verdict that allows it.
THEOREM NothingUngovernedTheorem == ProxySpec => []NothingUngoverned
<1>1. ProxyInv => NothingUngoverned
  BY DEF ProxyInv, MsgInv, Governed, NothingUngoverned
<1> QED
  BY <1>1, ProxyInvariance, PTL

\* Every request is answered once, and by an honest server's answer to it or to
\* an earlier call with the same key.
THEOREM AnswersMatchTheorem == ProxySpec => []AnswersMatch
<1>1. ProxyInv => AnswersMatch
  <2> SUFFICES ASSUME ProxyInv PROVE AnswersMatch
    OBVIOUS
  <2>1. pxMsg \in Messages /\ pxMsg.got \in Gots
    BY DEF ProxyInv, MsgInv, Messages
  <2>2. Len(pxMsg.got) <= 1
    <3>1. CASE pxMsg.got = <<>>
      BY <3>1
    <3>2. ASSUME NEW a \in Answers, pxMsg.got = <<a>> PROVE Len(pxMsg.got) <= 1
      BY <3>2
    <3> QED
      BY <2>1, <3>1, <3>2 DEF Gots
  <2>3. (pxPc = "read" /\ pxMsg.id # 0) =>
          (pxMsg.got # <<>>) = (pxMsg.kind \in {"call", "other", "badParams"})
    BY DEF ProxyInv, MsgInv, Handled
  <2>4. ASSUME honest, NEW i \in 1..Len(pxMsg.got)
        PROVE  LET re == pxMsg.got[i]
               IN re = Own \/ (re.id \in 1..(pxMsg.id - 1) /\ re.key = pxMsg.key)
    <3>1. PICK a \in Answers : pxMsg.got = <<a>>
      BY <2>1, <2>4 DEF Gots
    <3>2. pxMsg.got[i] = a /\ Matches(a, pxMsg)
      BY <2>4, <3>1 DEF ProxyInv, HonestInv
    <3>3. CASE a.id = pxMsg.id
      BY <3>2, <3>3 DEF Matches, Own, Answers
    <3> QED
      BY <3>2, <3>3 DEF Matches
  <2> QED
    BY <2>2, <2>3, <2>4 DEF AnswersMatch
<1> QED
  BY <1>1, ProxyInvariance, PTL

-----------------------------------------------------------------------------
(* Webhooks.  A pair of an event and a hook is in one place; queues and     *)
(* tasks hold it once, so that taking it out of its place empties it.       *)

HookTasks == [ev : HookEvents, hook : Hooks, attempt : Nat]
Has(s, x) == \E i \in 1..Len(s) : s[i] = x
Distinct(s) == \A i, j \in 1..Len(s) : s[i] = s[j] => i = j
Letters == [ev : HookEvents, hook : Hooks]
Letter(p) == [ev |-> p[1], hook |-> p[2]]

HookTypes ==
    /\ hooks \subseteq Hooks /\ published \subseteq HookEvents
    /\ busQueue \in Seq(HookEvents) /\ dlq \in Seq(Letters)
    /\ tasks \subseteq HookTasks /\ retrying \subseteq Letters

Unique ==
    /\ Distinct(busQueue) /\ Distinct(dlq)
    /\ \A e : Has(busQueue, e) => e \in published
    /\ \A t, u \in tasks : Pair(t) = Pair(u) => t = u

Placed(p) ==
    /\ p[1] \in published <=> OnBus(p) \/ InTask(p) \/ InDlq(p) \/ InRetry(p) \/ Ended(p)
    /\ OnBus(p) => ~InTask(p) /\ ~InDlq(p) /\ ~InRetry(p) /\ ~Ended(p)
    /\ InTask(p) => ~InDlq(p) /\ ~InRetry(p) /\ ~Ended(p)
    /\ InDlq(p) => ~InRetry(p) /\ ~Ended(p)
    /\ InRetry(p) => ~Ended(p)

\* At most one end is recorded of a pair.
FateInv == \A p \in Pairs : fate[p] = {} \/ \E c : fate[p] = {c}

HookInv == HookTypes /\ Unique /\ (\A p \in Pairs : Placed(p)) /\ FateInv

-----------------------------------------------------------------------------
\* What a queue without duplicates holds after an append, a removal of its head
\* and a removal in the middle.
LEMMA AppendHas == ASSUME NEW S, NEW s \in Seq(S), NEW x \in S
   PROVE /\ Append(s, x) \in Seq(S)
         /\ \A y : Has(Append(s, x), y) <=> Has(s, y) \/ y = x
         /\ Distinct(s) /\ ~Has(s, x) => Distinct(Append(s, x))
<1>1. /\ Append(s, x) \in Seq(S) /\ Len(Append(s, x)) = Len(s) + 1 /\ Len(s) \in Nat
      /\ \A i \in 1..Len(s) : Append(s, x)[i] = s[i]
      /\ Append(s, x)[Len(s) + 1] = x
  OBVIOUS
<1>2. PICK t : t = Append(s, x)
  OBVIOUS
<1>3. \A y : Has(t, y) <=> Has(s, y) \/ y = x
  BY <1>1, <1>2 DEF Has
<1>4. Distinct(s) /\ ~Has(s, x) => Distinct(t)
  BY <1>1, <1>2 DEF Has, Distinct
<1> QED
  BY <1>1, <1>2, <1>3, <1>4

\* The oldest letter leaves a sequence without duplicates, and only it.
LEMMA TailHas == ASSUME NEW S, NEW s \in Seq(S), s # <<>>, Distinct(s)
   PROVE /\ Tail(s) \in Seq(S) /\ Head(s) \in S /\ Has(s, Head(s))
         /\ \A y : Has(Tail(s), y) <=> Has(s, y) /\ y # Head(s)
         /\ Distinct(Tail(s))
<1>1. /\ Tail(s) \in Seq(S) /\ Len(Tail(s)) = Len(s) - 1 /\ Len(s) \in Nat /\ Len(s) >= 1
      /\ \A i \in 1..(Len(s) - 1) : Tail(s)[i] = s[i + 1]
      /\ Head(s) = s[1] /\ Head(s) \in S
  OBVIOUS
<1>2. PICK t : t = Tail(s)
  OBVIOUS
<1>3. ASSUME NEW y PROVE Has(t, y) <=> Has(s, y) /\ y # s[1]
  <2>1. ASSUME Has(t, y) PROVE Has(s, y) /\ y # s[1]
    <3>1. PICK i \in 1..(Len(s) - 1) : t[i] = y
      BY <1>1, <1>2, <2>1 DEF Has
    <3>2. i + 1 \in 1..Len(s) /\ s[i + 1] = y /\ i + 1 # 1 /\ 1 \in 1..Len(s)
      BY <1>1, <1>2, <3>1
    <3> QED
      BY <3>2 DEF Has, Distinct
  <2>2. ASSUME Has(s, y), y # s[1] PROVE Has(t, y)
    <3>1. PICK i \in 1..Len(s) : s[i] = y
      BY <2>2 DEF Has
    <3>2. i - 1 \in 1..(Len(s) - 1) /\ t[i - 1] = y
      BY <1>1, <1>2, <2>2, <3>1
    <3> QED
      BY <1>1, <1>2, <3>2 DEF Has
  <2> QED
    BY <2>1, <2>2
<1>4. Distinct(t)
  BY <1>1, <1>2 DEF Distinct
<1>5. Has(s, s[1])
  BY <1>1 DEF Has
<1> QED
  BY <1>1, <1>2, <1>3, <1>4, <1>5

\* A letter taken out of the middle leaves, and only it.
LEMMA DropHas == ASSUME NEW S, dlq \in Seq(S), Distinct(dlq), NEW i \in 1..Len(dlq)
   PROVE /\ DropAt(i) \in Seq(S) /\ dlq[i] \in S
         /\ \A y : Has(DropAt(i), y) <=> Has(dlq, y) /\ y # dlq[i]
         /\ Distinct(DropAt(i))
<1>1. PICK s, t, n : s = dlq /\ t = DropAt(i) /\ n = Len(s)
  OBVIOUS
<1>2. n \in Nat /\ n >= 1 /\ s \in Seq(S) /\ i \in 1..n
  BY <1>1
<1>3. /\ t = [j \in 1..(n - 1) |-> IF j < i THEN s[j] ELSE s[j + 1]]
  BY <1>1 DEF DropAt
<1>4. t \in Seq(S) /\ Len(t) = n - 1
  BY <1>1, <1>2, <1>3
<1>5. ASSUME NEW y PROVE Has(t, y) <=> Has(s, y) /\ y # s[i]
  <2>1. ASSUME Has(t, y) PROVE Has(s, y) /\ y # s[i]
    <3>1. PICK j \in 1..(n - 1) : t[j] = y
      BY <1>4, <2>1 DEF Has
    <3>2. PICK k \in 1..n : s[k] = y /\ k # i
      <4>1. CASE j < i
        BY <1>2, <1>3, <3>1, <4>1
      <4>2. CASE ~(j < i)
        <5>1. j + 1 \in 1..n /\ s[j + 1] = y /\ j + 1 # i
          BY <1>2, <1>3, <3>1, <4>2
        <5> QED
          BY <5>1
      <4> QED
        BY <4>1, <4>2
    <3> QED
      BY <1>1, <1>2, <3>2 DEF Has, Distinct
  <2>2. ASSUME Has(s, y), y # s[i] PROVE Has(t, y)
    <3>1. PICK k \in 1..n : s[k] = y /\ k # i
      BY <1>1, <2>2 DEF Has
    <3>2. CASE k < i
      <4>1. k \in 1..(n - 1) /\ t[k] = y
        BY <1>2, <1>3, <3>1, <3>2
      <4> QED
        BY <1>4, <4>1 DEF Has
    <3>3. CASE ~(k < i)
      <4>1. k - 1 \in 1..(n - 1) /\ t[k - 1] = y
        BY <1>2, <1>3, <3>1, <3>3
      <4> QED
        BY <1>4, <4>1 DEF Has
    <3> QED
      BY <3>2, <3>3
  <2> QED
    BY <2>1, <2>2
<1>6. Distinct(t)
  <2>1. \A j \in 1..n : \A k \in 1..n : s[j] = s[k] => j = k
    BY <1>1 DEF Distinct
  <2>2. \A j \in 1..(n - 1) : t[j] = s[IF j < i THEN j ELSE j + 1] /\ (IF j < i THEN j ELSE j + 1) \in 1..n
    BY <1>2, <1>3
  <2>3. ASSUME NEW j \in 1..(n - 1), NEW k \in 1..(n - 1), t[j] = t[k] PROVE j = k
    <3>1. (IF j < i THEN j ELSE j + 1) = (IF k < i THEN k ELSE k + 1)
      BY <2>1, <2>2, <2>3
    <3> QED
      BY <1>2, <3>1
  <2> QED
    BY <1>4, <2>3 DEF Distinct
<1> QED
  BY <1>1, <1>2, <1>4, <1>5, <1>6

\* A delivery, its letter and its task name one another.
LEMMA PairFacts ==
    /\ \A p \in Pairs : p[1] \in HookEvents /\ p[2] \in Hooks /\ p = <<p[1], p[2]>> /\ Letter(p) \in Letters
                        /\ Pair(Letter(p)) = p
    /\ \A l \in Letters : Pair(l) \in Pairs /\ Letter(Pair(l)) = l
    /\ \A t \in HookTasks : Pair(t) \in Pairs /\ Letter(Pair(t)) = [ev |-> t.ev, hook |-> t.hook]
BY DEF Pairs, Pair, Letter, Letters, HookTasks

\* A queue of letters holds a pair when it holds its letter.
LEMMA QueueHas == ASSUME NEW s \in Seq(Letters), NEW p \in Pairs
                  PROVE  (\E i \in 1..Len(s) : Pair(s[i]) = p) <=> Has(s, Letter(p))
<1>1. \A i \in 1..Len(s) : s[i] \in Letters
  OBVIOUS
<1>2. \A l \in Letters : Pair(l) = p <=> l = Letter(p)
  BY PairFacts
<1> QED
  BY <1>1, <1>2 DEF Has

\* A delivery is among the dead letters exactly when its letter is.
LEMMA DlqHas == ASSUME HookTypes, NEW p \in Pairs PROVE InDlq(p) <=> Has(dlq, Letter(p))
BY QueueHas DEF InDlq, HookTypes

\* Recording an end where there is none.
LEMMA MarkStep ==
    ASSUME HookInv, NEW P, NEW c, Mark(P, c), \A p \in Pairs : p \in P => ~Ended(p)
    PROVE  FateInv' /\ \A p \in Pairs : Ended(p)' <=> Ended(p) \/ p \in P
<1>1. \A p \in Pairs : fate'[p] = IF p \in P THEN fate[p] \cup {c} ELSE fate[p]
  BY DEF Mark
<1>2. \A p \in Pairs : p \in P => fate'[p] = {c}
  BY <1>1 DEF Ended
<1>3. FateInv'
  BY <1>1, <1>2 DEF HookInv, FateInv
<1>4. \A p \in Pairs : Ended(p)' <=> Ended(p) \/ p \in P
  BY <1>1, <1>2 DEF Ended
<1> QED
  BY <1>3, <1>4

\* Nothing has been published.
LEMMA HookInitInv == HookInit => HookInv
<1> SUFFICES ASSUME HookInit PROVE HookInv
  OBVIOUS
<1>1. HookTypes
  BY DEF HookInit, HookTypes
<1>2. Unique
  BY DEF HookInit, Unique, Distinct, Has
<1>3. \A p \in Pairs : ~OnBus(p) /\ ~InTask(p) /\ ~InDlq(p) /\ ~InRetry(p) /\ ~Ended(p)
  BY DEF HookInit, OnBus, InTask, InDlq, InRetry, Ended
<1>4. \A p \in Pairs : Placed(p)
  BY <1>3 DEF HookInit, Placed
<1>5. FateInv
  BY DEF HookInit, FateInv
<1> QED
  BY <1>1, <1>2, <1>4, <1>5 DEF HookInv

\* Publication: at capacity the oldest event on the bus is overwritten.
LEMMA PublishStep == ASSUME HookInv, NEW e \in HookEvents, Publish(e) PROVE HookInv'
<1>0. /\ HookTypes /\ Unique /\ FateInv
      /\ busQueue \in Seq(HookEvents) /\ Distinct(busQueue)
      /\ \A y : Has(busQueue, y) => y \in published
      /\ \A p \in Pairs : Placed(p) /\ p[1] \in HookEvents /\ p[2] \in Hooks /\ p = <<p[1], p[2]>>
  BY PairFacts DEF HookInv, HookTypes, Unique
<1>1. (\A p : OnBus(p) <=> Has(busQueue, p[1])) /\ (\A p : OnBus(p)' <=> Has(busQueue', p[1]))
  BY DEF OnBus, Has
<1>2. e \notin published /\ published' = published \cup {e} /\ UNCHANGED <<hooks, tasks, dlq, retrying>>
  BY DEF Publish
<1>3. \A p \in Pairs : /\ InTask(p)' <=> InTask(p)
                       /\ InDlq(p)' <=> InDlq(p)
                       /\ InRetry(p)' <=> InRetry(p)
  BY <1>2 DEF InTask, InDlq, InRetry
<1>4. \A p \in Pairs : p[1] = e => ~OnBus(p) /\ ~InTask(p) /\ ~InDlq(p) /\ ~InRetry(p) /\ ~Ended(p)
  BY <1>0, <1>2 DEF Placed
<1>5. CASE ~(Len(busQueue) >= BusCapacity)
  <2>1. busQueue' = Append(busQueue, e) /\ UNCHANGED fate
    BY <1>5 DEF Publish
  <2>2. /\ busQueue' \in Seq(HookEvents) /\ \A y : Has(busQueue', y) <=> Has(busQueue, y) \/ y = e
        /\ Distinct(busQueue')
    BY <1>0, <1>2, <2>1, AppendHas
  <2>3. \A p \in Pairs : (OnBus(p)' <=> OnBus(p) \/ p[1] = e) /\ (Ended(p)' <=> Ended(p))
    BY <1>1, <2>1, <2>2 DEF Ended
  <2>4. \A p \in Pairs : Placed(p)'
    BY <1>0, <1>2, <1>3, <1>4, <2>3 DEF Placed
  <2>5. FateInv'
    BY <1>0, <2>1 DEF FateInv
  <2>6. Unique'
    BY <1>0, <1>2, <2>2 DEF Unique
  <2>7. HookTypes'
    BY <1>0, <1>2, <2>2 DEF HookTypes
  <2> QED
    BY <2>4, <2>5, <2>6, <2>7 DEF HookInv
<1>6. CASE Len(busQueue) >= BusCapacity
  <2>0. PICK q, f : q = Tail(busQueue) /\ f = Head(busQueue)
    OBVIOUS
  <2>1. busQueue' = Append(q, e) /\ Mark({f} \X Hooks, "lagged")
    BY <1>6, <2>0 DEF Publish
  <2>2. busQueue # <<>>
    BY <1>6, HookAssumption
  <2>3. /\ q \in Seq(HookEvents) /\ f \in HookEvents /\ Has(busQueue, f) /\ Distinct(q)
        /\ \A y : Has(q, y) <=> Has(busQueue, y) /\ y # f
    BY <1>0, <2>0, <2>2, TailHas
  <2>4. /\ busQueue' \in Seq(HookEvents) /\ \A y : Has(busQueue', y) <=> Has(q, y) \/ y = e
        /\ Distinct(busQueue')
    BY <1>0, <1>2, <2>1, <2>3, AppendHas
  <2>5. f # e
    BY <1>0, <1>2, <2>3
  <2>6. \A p \in Pairs : p \in {f} \X Hooks <=> p[1] = f
    BY <1>0
  <2>7. \A p \in Pairs : p[1] = f => OnBus(p) /\ ~Ended(p)
    BY <1>0, <1>1, <2>3 DEF Placed
  <2>8. FateInv' /\ \A p \in Pairs : Ended(p)' <=> Ended(p) \/ p[1] = f
    BY <2>1, <2>6, <2>7, MarkStep
  <2>9. \A p \in Pairs : OnBus(p)' <=> (OnBus(p) /\ p[1] # f) \/ p[1] = e
    BY <1>1, <2>3, <2>4
  <2>10. \A p \in Pairs : Placed(p)'
    BY <1>0, <1>2, <1>3, <1>4, <2>5, <2>7, <2>8, <2>9 DEF Placed
  <2>11. Unique'
    BY <1>0, <1>2, <2>3, <2>4 DEF Unique
  <2>12. HookTypes'
    BY <1>0, <1>2, <2>4 DEF HookTypes
  <2> QED
    BY <2>8, <2>10, <2>11, <2>12 DEF HookInv
<1> QED
  BY <1>5, <1>6

\* The worker takes an event off the bus: a task for every hook that wants it.
LEMMA DeliverStep == ASSUME HookInv, Deliver PROVE HookInv'
<1>0. /\ HookTypes /\ Unique /\ FateInv
      /\ busQueue \in Seq(HookEvents) /\ Distinct(busQueue) /\ tasks \subseteq HookTasks
      /\ \A y : Has(busQueue, y) => y \in published
      /\ \A p \in Pairs : Placed(p) /\ p[1] \in HookEvents /\ p[2] \in Hooks /\ p = <<p[1], p[2]>>
  BY PairFacts DEF HookInv, HookTypes, Unique
<1>1. (\A p : OnBus(p) <=> Has(busQueue, p[1])) /\ (\A p : OnBus(p)' <=> Has(busQueue', p[1]))
  BY DEF OnBus, Has
<1>2. busQueue # <<>> /\ UNCHANGED <<hooks, published, dlq, retrying>>
  BY DEF Deliver
<1>3. PICK f : f = Head(busQueue)
  OBVIOUS
<1>4. PICK wants \in SUBSET hooks :
        /\ tasks' = tasks \cup {[ev |-> f, hook |-> h, attempt |-> 0] : h \in wants}
        /\ Mark({f} \X (Hooks \ wants), "notWanted")
  BY <1>3 DEF Deliver
<1>5. /\ busQueue' \in Seq(HookEvents) /\ f \in HookEvents /\ Has(busQueue, f) /\ Distinct(busQueue')
      /\ \A y : Has(busQueue', y) <=> Has(busQueue, y) /\ y # f
  BY <1>0, <1>2, <1>3, TailHas DEF Deliver
<1>6. \A p \in Pairs : p[1] = f => OnBus(p) /\ ~InTask(p) /\ ~Ended(p)
  BY <1>0, <1>1, <1>5 DEF Placed
<1>7. \A p \in Pairs : p \in {f} \X (Hooks \ wants) <=> p[1] = f /\ p[2] \notin wants
  BY <1>0
<1>8. FateInv' /\ \A p \in Pairs : Ended(p)' <=> Ended(p) \/ (p[1] = f /\ p[2] \notin wants)
  BY <1>4, <1>6, <1>7, MarkStep
<1>9. wants \subseteq Hooks
  BY <1>0 DEF HookTypes
<1>10. tasks' \subseteq HookTasks
  BY <1>0, <1>4, <1>5, <1>9 DEF HookTasks
<1>11. \A p \in Pairs : InTask(p)' <=> InTask(p) \/ (p[1] = f /\ p[2] \in wants)
  <2>1. ASSUME NEW p \in Pairs, InTask(p)' PROVE InTask(p) \/ (p[1] = f /\ p[2] \in wants)
    BY <1>4, <2>1 DEF InTask, Pair
  <2>2. ASSUME NEW p \in Pairs, InTask(p) PROVE InTask(p)'
    BY <1>4, <2>2 DEF InTask
  <2>3. ASSUME NEW p \in Pairs, p[1] = f, p[2] \in wants PROVE InTask(p)'
    <3>1. PICK t : t = [ev |-> f, hook |-> p[2], attempt |-> 0]
      OBVIOUS
    <3>2. t \in tasks' /\ Pair(t) = p
      BY <1>0, <1>4, <2>3, <3>1 DEF Pair
    <3> QED
      BY <3>2 DEF InTask
  <2> QED
    BY <2>1, <2>2, <2>3
<1>12. \A p \in Pairs : (InDlq(p)' <=> InDlq(p)) /\ (InRetry(p)' <=> InRetry(p))
  BY <1>2 DEF InDlq, InRetry
<1>13. \A p \in Pairs : OnBus(p)' <=> OnBus(p) /\ p[1] # f
  BY <1>1, <1>5
<1>14. \A p \in Pairs : Placed(p)'
  BY <1>0, <1>2, <1>6, <1>8, <1>11, <1>12, <1>13 DEF Placed
<1>15. \A t, u \in tasks' : Pair(t) = Pair(u) => t = u
  <2> DEFINE New == {[ev |-> f, hook |-> h, attempt |-> 0] : h \in wants}
  <2>1. \A t \in New : t.ev = f /\ t = [ev |-> f, hook |-> t.hook, attempt |-> 0]
    OBVIOUS
  <2>2. \A t, u \in New : Pair(t) = Pair(u) => t = u
    BY <2>1 DEF Pair
  <2>3. \A t \in tasks : t.ev # f
    <3>1. ASSUME NEW t \in tasks, t.ev = f PROVE FALSE
      <4>1. PICK p \in Pairs : p = Pair(t) /\ p[1] = f
        BY <1>0, <3>1, PairFacts DEF Pair
      <4> QED
        BY <1>6, <3>1, <4>1 DEF InTask
    <3> QED
      BY <3>1
  <2>4. \A t \in tasks, u \in New : Pair(t) # Pair(u)
    BY <2>1, <2>3 DEF Pair
  <2>5. \A t, u \in tasks : Pair(t) = Pair(u) => t = u
    BY <1>0 DEF Unique
  <2>6. tasks' = tasks \cup New
    BY <1>4
  <2> HIDE DEF New
  <2> QED
    BY <2>2, <2>4, <2>5, <2>6
<1>16. Unique'
  BY <1>0, <1>2, <1>5, <1>15 DEF Unique
<1>17. HookTypes'
  BY <1>0, <1>2, <1>5, <1>10 DEF HookTypes
<1> QED
  BY <1>8, <1>14, <1>16, <1>17 DEF HookInv

\* The attempts of a task.
LEMMA TaskSteps ==
    ASSUME HookInv, NEW t \in tasks, AttemptOk(t) \/ AttemptFails(t) \/ Exhausted(t) PROVE HookInv'
<1>0. /\ HookTypes /\ Unique /\ FateInv /\ dlq \in Seq(Letters) /\ Distinct(dlq) /\ tasks \subseteq HookTasks
      /\ \A p \in Pairs : Placed(p)
  BY DEF HookInv, HookTypes, Unique
<1>1. UNCHANGED <<hooks, published, busQueue, retrying>>
  BY DEF AttemptOk, AttemptFails, Exhausted
<1>2. \A p \in Pairs : (OnBus(p)' <=> OnBus(p)) /\ (InRetry(p)' <=> InRetry(p))
  BY <1>1 DEF OnBus, InRetry
<1>3. PICK o \in Pairs : o = Pair(t) /\ Letter(o) = [ev |-> t.ev, hook |-> t.hook]
  BY <1>0, PairFacts
<1>4. InTask(o) /\ ~OnBus(o) /\ ~InDlq(o) /\ ~InRetry(o) /\ ~Ended(o) /\ o[1] \in published
  BY <1>0, <1>3 DEF InTask, Placed
\* The task is gone.
<1>5. ASSUME tasks' = tasks \ {t}
      PROVE  /\ \A p \in Pairs : InTask(p)' <=> InTask(p) /\ p # o
             /\ tasks' \subseteq HookTasks /\ \A u, v \in tasks' : Pair(u) = Pair(v) => u = v
  BY <1>0, <1>3, <1>5 DEF InTask, Unique
<1>6. CASE AttemptOk(t)
  <2>1. tasks' = tasks \ {t} /\ dlq' = dlq /\ Mark({o}, "delivered")
    BY <1>3, <1>6 DEF AttemptOk
  <2>2. FateInv' /\ \A p \in Pairs : Ended(p)' <=> Ended(p) \/ p \in {o}
    BY <1>4, <2>1, MarkStep
  <2>3. \A p \in Pairs : InDlq(p)' <=> InDlq(p)
    BY <2>1 DEF InDlq
  <2>4. \A p \in Pairs : Placed(p)'
    BY <1>0, <1>1, <1>2, <1>4, <1>5, <2>1, <2>2, <2>3 DEF Placed
  <2>5. HookTypes' /\ Unique'
    BY <1>0, <1>1, <1>5, <2>1 DEF HookTypes, Unique
  <2> QED
    BY <2>2, <2>4, <2>5 DEF HookInv
<1>7. CASE AttemptFails(t)
  <2>1. PICK n : n = [t EXCEPT !.attempt = @ + 1]
    OBVIOUS
  <2>2. n \in HookTasks /\ Pair(n) = Pair(t)
    BY <1>0, <2>1 DEF HookTasks, Pair
  <2>3. tasks' = (tasks \ {t}) \cup {n} /\ UNCHANGED <<dlq, fate>>
    BY <1>7, <2>1 DEF AttemptFails
  <2>4. \A p \in Pairs : /\ InTask(p)' <=> InTask(p)
                         /\ InDlq(p)' <=> InDlq(p)
                         /\ Ended(p)' <=> Ended(p)
    BY <1>3, <2>2, <2>3 DEF InTask, InDlq, Ended
  <2>5. \A u, v \in tasks' : Pair(u) = Pair(v) => u = v
    BY <1>0, <2>2, <2>3 DEF Unique
  <2>6. \A p \in Pairs : Placed(p)'
    BY <1>0, <1>1, <1>2, <2>4 DEF Placed
  <2>7. HookTypes' /\ Unique' /\ FateInv'
    BY <1>0, <1>1, <2>2, <2>3, <2>5 DEF HookTypes, Unique, FateInv
  <2> QED
    BY <2>6, <2>7 DEF HookInv
<1>8. CASE Exhausted(t)
  <2>0. PICK l \in Letters : l = Letter(o) /\ l = [ev |-> t.ev, hook |-> t.hook]
    BY <1>3, PairFacts
  <2>1. tasks' = tasks \ {t} /\ dlq' = PushDlq(l)
    BY <1>8, <2>0 DEF Exhausted
  <2>2. ~Has(dlq, l)
    BY <1>0, <1>4, <2>0, DlqHas
  <2>3. \A p \in Pairs : Letter(p) = l <=> p = o
    BY <2>0, PairFacts
  <2>4. CASE ~Overflow
    <3>1. dlq' = Append(dlq, l) /\ UNCHANGED fate
      BY <1>8, <2>1, <2>4 DEF Exhausted, PushDlq
    <3>2. /\ dlq' \in Seq(Letters) /\ Distinct(dlq')
          /\ \A y : Has(dlq', y) <=> Has(dlq, y) \/ y = l
      BY <1>0, <2>2, <3>1, AppendHas
    <3>3. HookTypes' /\ Unique'
      BY <1>0, <1>1, <1>5, <2>1, <3>2 DEF HookTypes, Unique
    <3>4. \A p \in Pairs : InDlq(p)' <=> Has(dlq', Letter(p))
      BY <3>2, QueueHas DEF InDlq
    <3>5. \A p \in Pairs : (InDlq(p)' <=> InDlq(p) \/ p = o) /\ (Ended(p)' <=> Ended(p))
      BY <1>0, <2>3, <3>1, <3>2, <3>4, DlqHas DEF Ended
    <3>6. \A p \in Pairs : Placed(p)'
      BY <1>0, <1>1, <1>2, <1>4, <1>5, <2>1, <3>5 DEF Placed
    <3>7. FateInv'
      BY <1>0, <3>1 DEF FateInv
    <3> QED
      BY <3>3, <3>6, <3>7 DEF HookInv
  <2>5. CASE Overflow
    <3>0. PICK q, f : q = Tail(dlq) /\ f = Head(dlq)
      OBVIOUS
    <3>1. dlq' = Append(q, l) /\ Mark({Pair(f)}, "overflow")
      BY <1>8, <2>1, <2>5, <3>0 DEF Exhausted, PushDlq
    <3>2. dlq # <<>>
      BY <2>5, HookAssumption DEF Overflow
    <3>3. /\ q \in Seq(Letters) /\ f \in Letters /\ Has(dlq, f) /\ Distinct(q)
          /\ \A y : Has(q, y) <=> Has(dlq, y) /\ y # f
      BY <1>0, <3>0, <3>2, TailHas
    <3>4. /\ dlq' \in Seq(Letters) /\ Distinct(dlq')
          /\ \A y : Has(dlq', y) <=> Has(q, y) \/ y = l
      BY <1>0, <2>2, <3>1, <3>3, AppendHas
    <3>5. PICK w \in Pairs : w = Pair(f) /\ Letter(w) = f
      BY <3>3, PairFacts
    <3>6. \A p \in Pairs : Letter(p) = f <=> p = w
      BY <3>5, PairFacts
    <3>7. InDlq(w) /\ ~Ended(w) /\ w # o /\ ~InTask(w)
      BY <1>0, <1>4, <3>3, <3>5, DlqHas DEF Placed
    <3>8. FateInv' /\ \A p \in Pairs : Ended(p)' <=> Ended(p) \/ p \in {w}
      BY <3>1, <3>5, <3>7, MarkStep
    <3>9. HookTypes' /\ Unique'
      BY <1>0, <1>1, <1>5, <2>1, <3>4 DEF HookTypes, Unique
    <3>10. \A p \in Pairs : InDlq(p)' <=> Has(dlq', Letter(p))
      BY <3>4, QueueHas DEF InDlq
    <3>11. \A p \in Pairs : InDlq(p)' <=> (InDlq(p) /\ p # w) \/ p = o
      BY <1>0, <2>3, <3>3, <3>4, <3>6, <3>10, DlqHas
    <3>12. \A p \in Pairs : Placed(p)'
      BY <1>0, <1>1, <1>2, <1>4, <1>5, <2>1, <3>7, <3>8, <3>11 DEF Placed
    <3> QED
      BY <3>8, <3>9, <3>12 DEF HookInv
  <2> QED
    BY <2>4, <2>5
<1> QED
  BY <1>6, <1>7, <1>8

\* The admin's operations on dead letters.
LEMMA LetterSteps ==
    ASSUME HookInv, \/ \E i \in 1..Len(dlq) : RetryDlq(i) \/ DeleteDlq(i)
                    \/ \E r \in retrying, ok \in BOOLEAN : RetryEnds(r, ok)
    PROVE  HookInv'
<1>0. /\ HookTypes /\ Unique /\ FateInv /\ dlq \in Seq(Letters) /\ Distinct(dlq) /\ retrying \subseteq Letters
      /\ \A p \in Pairs : Placed(p)
  BY DEF HookInv, HookTypes, Unique
<1>1. UNCHANGED <<hooks, published, busQueue, tasks>>
  BY DEF RetryDlq, DeleteDlq, RetryEnds
<1>2. \A p \in Pairs : (OnBus(p)' <=> OnBus(p)) /\ (InTask(p)' <=> InTask(p))
  BY <1>1 DEF OnBus, InTask
<1>3. \A l \in Letters : \A p \in Pairs : Letter(p) = l <=> p = Pair(l)
  BY PairFacts
<1>4. ASSUME NEW i \in 1..Len(dlq), RetryDlq(i) \/ DeleteDlq(i) PROVE HookInv'
  <2>1. PICK l : l = dlq[i]
    OBVIOUS
  <2>2. /\ dlq' \in Seq(Letters) /\ l \in Letters /\ Distinct(dlq') /\ Has(dlq, l)
        /\ \A y : Has(dlq', y) <=> Has(dlq, y) /\ y # l
    <3>1. dlq' = DropAt(i)
      BY <1>4 DEF RetryDlq, DeleteDlq
    <3> QED
      BY <1>0, <2>1, <3>1, DropHas DEF Has
  <2>3. PICK o \in Pairs : o = Pair(l) /\ Letter(o) = l
    BY <2>2, PairFacts
  <2>4. InDlq(o) /\ ~OnBus(o) /\ ~InTask(o) /\ ~InRetry(o) /\ ~Ended(o)
    BY <1>0, <2>2, <2>3, DlqHas DEF Placed
  <2>5. \A p \in Pairs : InDlq(p)' <=> InDlq(p) /\ p # o
    <3>1. \A p \in Pairs : InDlq(p)' <=> Has(dlq', Letter(p))
      BY <2>2, QueueHas DEF InDlq
    <3> QED
      BY <1>0, <1>3, <2>2, <2>3, <3>1, DlqHas
  <2>6. CASE retrying' = retrying \cup {l} /\ UNCHANGED fate
    <3>1. HookTypes' /\ Unique' /\ FateInv'
      BY <1>0, <1>1, <2>2, <2>6 DEF HookTypes, Unique, FateInv
    <3>2. \A p \in Pairs : /\ InRetry(p)' <=> InRetry(p) \/ p = o
                           /\ Ended(p)' <=> Ended(p)
      BY <2>3, <2>6 DEF InRetry, Ended
    <3>3. \A p \in Pairs : Placed(p)'
      BY <1>0, <1>1, <1>2, <2>4, <2>5, <3>2 DEF Placed
    <3> QED
      BY <3>1, <3>3 DEF HookInv
  <2>7. ASSUME NEW c, Mark({o}, c), retrying' = retrying PROVE HookInv'
    <3>1. HookTypes' /\ Unique'
      BY <1>0, <1>1, <2>2, <2>7 DEF HookTypes, Unique
    <3>2. FateInv' /\ \A p \in Pairs : Ended(p)' <=> Ended(p) \/ p \in {o}
      BY <2>4, <2>7, MarkStep
    <3>3. \A p \in Pairs : InRetry(p)' <=> InRetry(p)
      BY <2>7 DEF InRetry
    <3>4. \A p \in Pairs : Placed(p)'
      BY <1>0, <1>1, <1>2, <2>4, <2>5, <3>2, <3>3 DEF Placed
    <3> QED
      BY <3>1, <3>2, <3>4 DEF HookInv
  <2> QED
    BY <1>4, <2>1, <2>3, <2>6, <2>7 DEF RetryDlq, DeleteDlq
<1>5. ASSUME NEW r \in retrying, NEW ok \in BOOLEAN, RetryEnds(r, ok) PROVE HookInv'
  <2>1. PICK o \in Pairs : o = Pair(r) /\ Letter(o) = r
    BY <1>0, PairFacts
  <2>2. PICK c : Mark({o}, c)
    BY <1>5, <2>1 DEF RetryEnds
  <2>3. retrying' = retrying \ {r} /\ dlq' = dlq
    BY <1>5 DEF RetryEnds
  <2>4. InRetry(o) /\ ~OnBus(o) /\ ~InTask(o) /\ ~InDlq(o) /\ ~Ended(o)
    BY <1>0, <1>5, <2>1 DEF InRetry, Placed
  <2>5. FateInv' /\ \A p \in Pairs : Ended(p)' <=> Ended(p) \/ p \in {o}
    BY <2>2, <2>4, MarkStep
  <2>6. \A p \in Pairs : InRetry(p)' <=> InRetry(p) /\ p # o
    BY <1>0, <1>3, <2>1, <2>3 DEF InRetry
  <2>7. \A p \in Pairs : InDlq(p)' <=> InDlq(p)
    BY <2>3 DEF InDlq
  <2>8. \A p \in Pairs : Placed(p)'
    BY <1>0, <1>1, <1>2, <2>4, <2>5, <2>6, <2>7 DEF Placed
  <2>9. HookTypes' /\ Unique'
    BY <1>0, <1>1, <2>3 DEF HookTypes, Unique
  <2> QED
    BY <2>5, <2>8, <2>9 DEF HookInv
<1> QED
  BY <1>4, <1>5

\* Every step keeps the inductive invariant.
LEMMA HookInductive == HookInv /\ [HookNext]_hookVars => HookInv'
<1> SUFFICES ASSUME HookInv, [HookNext]_hookVars PROVE HookInv'
  OBVIOUS
<1>1. CASE UNCHANGED <<published, busQueue, tasks, dlq, retrying, fate>> /\ hooks' \subseteq Hooks
  <2>1. HookTypes' /\ Unique' /\ FateInv'
    BY <1>1 DEF HookInv, HookTypes, Unique, FateInv
  <2>2. \A p \in Pairs : Placed(p)'
    BY <1>1 DEF HookInv, Placed, OnBus, InTask, InDlq, InRetry, Ended
  <2> QED
    BY <2>1, <2>2 DEF HookInv
<1>2. ASSUME NEW h \in Hooks, RegisterHook(h) \/ UnregisterHook(h) PROVE HookInv'
  BY <1>1, <1>2 DEF RegisterHook, UnregisterHook, HookInv, HookTypes
<1>3. CASE UNCHANGED hookVars
  BY <1>1, <1>3 DEF hookVars, HookInv, HookTypes
<1> QED
  BY <1>2, <1>3, PublishStep, DeliverStep, TaskSteps, LetterSteps DEF HookNext

\* The inductive invariant of webhook delivery.
THEOREM HookInvariance == HookSpec => []HookInv
BY HookInitInv, HookInductive, PTL DEF HookSpec

\* A published event is, for every hook, in exactly one place, and has at most
\* one recorded end, for every capacity of the bus and of the dead letters.
THEOREM AccountedTheorem == HookSpec => []Accounted
<1>1. HookInv => Accounted
  <2> SUFFICES ASSUME HookInv, NEW p \in Pairs, p[1] \in published
               PROVE  Cardinality(fate[p]) <= 1 /\ Cardinality(Places(p)) = 1
    BY DEF Accounted
  <2>1. Cardinality(fate[p]) <= 1
    <3>1. CASE fate[p] = {}
      BY <3>1, FS_EmptySet
    <3>2. ASSUME NEW c, fate[p] = {c} PROVE Cardinality(fate[p]) <= 1
      <4>1. Cardinality({c}) = 1
        BY FS_Singleton
      <4> QED
        BY <3>2, <4>1
    <3> QED
      BY <3>1, <3>2 DEF HookInv, FateInv
  <2>2. Placed(p)
    BY DEF HookInv
  <2>3. PICK x : Places(p) = {x}
    <3>1. CASE OnBus(p)
      <4>1. Places(p) = {"bus"}
        BY <2>2, <3>1 DEF Placed, Places
      <4> QED
        BY <4>1
    <3>2. CASE InTask(p)
      <4>1. Places(p) = {"task"}
        BY <2>2, <3>2 DEF Placed, Places
      <4> QED
        BY <4>1
    <3>3. CASE InDlq(p)
      <4>1. Places(p) = {"dlq"}
        BY <2>2, <3>3 DEF Placed, Places
      <4> QED
        BY <4>1
    <3>4. CASE InRetry(p)
      <4>1. Places(p) = {"retry"}
        BY <2>2, <3>4 DEF Placed, Places
      <4> QED
        BY <4>1
    <3>5. CASE Ended(p)
      <4>1. Places(p) = {"end"}
        BY <2>2, <3>5 DEF Placed, Places
      <4> QED
        BY <4>1
    <3> QED
      BY <2>2, <3>1, <3>2, <3>3, <3>4, <3>5 DEF Placed
  <2>4. Cardinality(Places(p)) = 1
    BY <2>3, FS_Singleton
  <2> QED
    BY <2>1, <2>4
<1> QED
  BY <1>1, HookInvariance, PTL

-----------------------------------------------------------------------------
(* Sandbox.  The queue never holds more than its places, only ids that      *)
(* were given out, and none that was ruled on.                              *)

SandboxInv ==
    /\ wall \in Nat /\ limits \in [max : Nat, ttl : Nat]
    /\ seen \subseteq Executions /\ DOMAIN pending \subseteq seen
    /\ \A x \in DOMAIN pending : pending[x] \in Nat
    /\ IsFiniteSet(DOMAIN pending) /\ Cardinality(DOMAIN pending) <= Slots
    /\ DOMAIN ruling = Executions
    /\ \A x \in Executions : ruling[x] # "none" => x \in seen /\ x \notin DOMAIN pending

\* The initial queue is empty.
LEMMA SandboxInitInv == SandboxInit => SandboxInv
<1>1. IsFiniteSet({}) /\ Cardinality({}) = 0
  BY FS_EmptySet
<1>2. DOMAIN <<>> = {}
  OBVIOUS
<1> QED
  BY <1>1, <1>2, SandboxAssumption DEF SandboxInit, SandboxInv, Slots

\* Room for one more: what is kept is a part of the queue with a place free, and
\* what is not had expired, or was the oldest of a queue full of fresh entries.
LEMMA RoomMade ==
    ASSUME SandboxInv, NEW kept \in MakeRoom
    PROVE  /\ kept \subseteq DOMAIN pending /\ IsFiniteSet(kept) /\ Cardinality(kept) <= Slots - 1
           /\ \A x \in DOMAIN pending \ kept :
                \/ Outlived(x)
                \/ /\ Cardinality(kept) = Slots - 1
                   /\ \A y \in kept : pending[x] <= pending[y] /\ ~Outlived(y)
<1>0. PICK D : D = DOMAIN pending
  OBVIOUS
<1>1. /\ IsFiniteSet(D) /\ Cardinality(D) \in Nat /\ Cardinality(D) <= Slots
      /\ limits.max \in Nat /\ limits.ttl \in Nat /\ wall \in Nat
      /\ Slots \in Nat \ {0} /\ limits.max <= Slots /\ (limits.max > 0 => Slots = limits.max)
      /\ (limits.max = 0 => Slots = 1)
      /\ \A x \in D : pending[x] \in Nat
  BY <1>0, FS_CardinalityType DEF SandboxInv, Slots
<1>2. PICK U : U = Unexpired
  OBVIOUS
<1>3. /\ U \subseteq D
      /\ \A x \in U : ~Outlived(x)
      /\ \A x \in D \ U : Outlived(x)
  BY <1>0, <1>1, <1>2 DEF Unexpired, Age, Outlived
<1>4. CASE ~(Cardinality(D) >= limits.max)
  <2>1. kept = D
    BY <1>0, <1>1, <1>4 DEF MakeRoom, Queued
  <2> QED
    BY <1>0, <1>1, <1>4, <2>1
<1>5. CASE Cardinality(D) >= limits.max
  <2>1. IsFiniteSet(U) /\ Cardinality(U) \in Nat /\ Cardinality(U) <= Cardinality(D)
        /\ (Cardinality(D) = Cardinality(U) => D = U)
    BY <1>1, <1>3, FS_Subset, FS_CardinalityType
  <2>2. Queued = U
    BY <1>0, <1>2, <1>5 DEF Queued
  <2>3. CASE Cardinality(U) < limits.max \/ U = {}
    <3>1. kept = U
      BY <2>2, <2>3 DEF MakeRoom
    <3>2. Cardinality(U) <= Slots - 1
      <4>1. U = {} => Cardinality(U) = 0
        BY FS_EmptySet
      <4> QED
        BY <1>1, <2>1, <2>3, <4>1
    <3> QED
      BY <1>0, <1>3, <2>1, <3>1, <3>2
  <2>4. CASE ~(Cardinality(U) < limits.max \/ U = {})
    <3>1. D = U /\ Cardinality(U) = Slots
      <4>1. Cardinality(U) # 0
        BY <2>1, <2>4, FS_EmptySet
      <4>2. Cardinality(U) = Slots /\ Cardinality(D) = Cardinality(U)
        BY <1>1, <2>1, <2>4, <4>1
      <4> QED
        BY <2>1, <4>2
    <3>2. PICK o \in U : kept = U \ {o} /\ \A z \in U : pending[o] <= pending[z]
      BY <2>2, <2>4 DEF MakeRoom
    <3>3. IsFiniteSet(kept) /\ Cardinality(kept) = Slots - 1
      BY <2>1, <3>1, <3>2, FS_RemoveElement
    <3>4. \A x \in D \ kept : x = o
      BY <3>1, <3>2
    <3>5. \A y \in kept : pending[o] <= pending[y] /\ ~Outlived(y)
      BY <1>3, <3>2
    <3>6. kept \subseteq D /\ Cardinality(kept) <= Slots - 1
      BY <1>1, <3>1, <3>2, <3>3
    <3> QED
      BY <1>0, <3>3, <3>4, <3>5, <3>6
  <2> QED
    BY <2>3, <2>4
<1> QED
  BY <1>4, <1>5

\* A step that keeps part of the queue.
LEMMA QueueShrinks ==
    ASSUME SandboxInv, NEW S, S \subseteq DOMAIN pending, pending' = Keeping(S)
    PROVE  /\ DOMAIN pending' = S /\ IsFiniteSet(S) /\ Cardinality(S) <= Slots
           /\ \A y \in S : pending'[y] \in Nat
<1>1. PICK D : D = DOMAIN pending
  OBVIOUS
<1>2. IsFiniteSet(S) /\ Cardinality(S) <= Cardinality(D) /\ Cardinality(S) \in Nat /\ Cardinality(D) \in Nat
  BY <1>1, FS_Subset, FS_CardinalityType DEF SandboxInv
<1>3. Cardinality(D) <= Slots /\ Slots \in Nat
  BY <1>1 DEF SandboxInv, Slots
<1>4. DOMAIN pending' = S /\ \A y \in S : pending'[y] = pending[y]
  BY DEF Keeping
<1> QED
  BY <1>2, <1>3, <1>4 DEF SandboxInv

\* Every step keeps the inductive invariant and is a step the queue may take.
LEMMA SandboxSteps ==
    ASSUME SandboxInv, [SandboxNext]_sandboxVars PROVE SandboxInv' /\ [QueueStep]_sandboxVars
<1>0. /\ wall \in Nat /\ seen \subseteq Executions /\ DOMAIN pending \subseteq seen
      /\ DOMAIN ruling = Executions /\ Slots \in Nat \ {0} /\ limits.ttl \in Nat
      /\ limits \in [max : Nat, ttl : Nat]
      /\ \A y \in DOMAIN pending : pending[y] \in Nat
      /\ \A y \in Executions : ruling[y] # "none" => y \in seen /\ y \notin DOMAIN pending
      /\ IsFiniteSet(DOMAIN pending) /\ Cardinality(DOMAIN pending) <= Slots
  BY DEF SandboxInv, Slots
<1>7. limits' = limits /\ Slots' = Slots
  <2>1. limits' = limits
    BY DEF SandboxNext, SandboxExecute, ApproveSandbox, RejectSandbox, Rule,
       PruneStalePending, WallClock, sandboxVars
  <2> QED
    BY <2>1 DEF Slots
<1>1. CASE UNCHANGED sandboxVars
  BY <1>1, <1>7 DEF sandboxVars, SandboxInv
\* The queue stays as it is.
<1>2. ASSUME UNCHANGED <<pending, ruling>>, wall' \in Nat, seen' \subseteq Executions, seen \subseteq seen'
      PROVE  SandboxInv' /\ QueueStep
  <2>1. SandboxInv'
    BY <1>0, <1>2, <1>7 DEF SandboxInv
  <2>2. QueueStep
    BY <1>0, <1>2 DEF QueueStep
  <2> QED
    BY <2>1, <2>2
<1>3. ASSUME NEW x \in Executions, SandboxExecute(x) PROVE SandboxInv' /\ QueueStep
  <2>1. x \notin seen /\ seen' = seen \cup {x} /\ UNCHANGED <<ruling, wall>>
    BY <1>3 DEF SandboxExecute
  <2>2. CASE UNCHANGED pending
    BY <1>0, <1>2, <2>1, <2>2
  <2>3. ASSUME NEW kept \in MakeRoom,
               pending' = [y \in kept \cup {x} |-> IF y = x THEN wall ELSE pending[y]]
        PROVE  SandboxInv' /\ QueueStep
    <3>1. PICK D : D = DOMAIN pending
      OBVIOUS
    <3>2. /\ kept \subseteq D /\ IsFiniteSet(kept) /\ Cardinality(kept) <= Slots - 1
          /\ \A y \in D \ kept :
               \/ Outlived(y)
               \/ /\ Cardinality(kept) = Slots - 1
                  /\ \A z \in kept : pending[y] <= pending[z] /\ ~Outlived(z)
      BY <2>3, <3>1, RoomMade
    <3>3. x \notin D /\ ruling[x] = "none"
      BY <1>0, <2>1, <3>1
    <3>4. /\ DOMAIN pending' = kept \cup {x} /\ pending'[x] = wall
          /\ \A y \in kept : pending'[y] = pending[y]
      BY <2>3, <3>2, <3>3
    <3>5. IsFiniteSet(kept \cup {x}) /\ Cardinality(kept \cup {x}) <= Slots
      <4>1. Cardinality(kept) \in Nat
        BY <3>2, FS_CardinalityType
      <4>2. IsFiniteSet(kept \cup {x}) /\ Cardinality(kept \cup {x}) = Cardinality(kept) + 1
        BY <3>2, <3>3, FS_AddElement
      <4> QED
        BY <1>0, <3>2, <4>1, <4>2
    <3>6. D \ DOMAIN pending' = D \ kept /\ D \cap DOMAIN pending' = kept
      BY <3>2, <3>3, <3>4
    <3>7. \A y \in Executions : ruling[y] # "none" => y # x /\ y \notin kept
      BY <1>0, <3>1, <3>2, <3>3
    <3>8. SandboxInv'
      <4>1. seen' \subseteq Executions /\ DOMAIN pending' \subseteq seen'
        BY <1>0, <2>1, <3>1, <3>2, <3>4
      <4>2. \A y \in DOMAIN pending' : pending'[y] \in Nat
        BY <1>0, <3>1, <3>2, <3>4
      <4>3. \A y \in Executions : ruling'[y] # "none" => y \in seen' /\ y \notin DOMAIN pending'
        BY <1>0, <2>1, <3>4, <3>7
      <4> QED
        BY <1>0, <1>7, <2>1, <3>4, <3>5, <4>1, <4>2, <4>3 DEF SandboxInv
    <3>9. QueueStep
      <4>1. Cardinality(DOMAIN pending') <= Slots
        BY <3>4, <3>5
      <4>2. \A y \in Executions : ruling[y] # "none" => ruling'[y] = ruling[y] /\ y \notin DOMAIN pending'
        BY <2>1, <3>4, <3>7
      <4> QED
        BY <3>1, <3>2, <3>6, <4>1, <4>2 DEF QueueStep
    <3> QED
      BY <3>8, <3>9
  <2> QED
    BY <1>3, <2>2, <2>3 DEF SandboxExecute
<1>4. ASSUME NEW x \in Executions, NEW how \in {"approved", "rejected"}, Rule(x, how)
      PROVE  SandboxInv' /\ QueueStep
  <2>1. /\ x \in DOMAIN pending /\ pending' = Keeping(DOMAIN pending \ {x})
        /\ ruling' = [ruling EXCEPT ![x] = how] /\ UNCHANGED <<seen, wall>>
    BY <1>4 DEF Rule
  <2>2. PICK D, S : D = DOMAIN pending /\ S = D \ {x}
    OBVIOUS
  <2>3. /\ DOMAIN pending' = S /\ IsFiniteSet(S) /\ Cardinality(S) <= Slots
        /\ \A y \in S : pending'[y] \in Nat
    BY <2>1, <2>2, QueueShrinks
  <2>4. DOMAIN ruling' = Executions /\ \A y \in Executions : ruling'[y] = IF y = x THEN how ELSE ruling[y]
    BY <1>0, <2>1
  <2>5. \A y \in Executions : ruling[y] # "none" => y # x
    BY <1>0, <2>1
  <2>6. \A y \in D \ S : y = x
    BY <2>2
  <2>7. SandboxInv'
    BY <1>0, <1>7, <2>1, <2>2, <2>3, <2>4 DEF SandboxInv
  <2>8. QueueStep
    BY <1>0, <2>1, <2>2, <2>3, <2>4, <2>5, <2>6 DEF QueueStep
  <2> QED
    BY <2>7, <2>8
<1>5. ASSUME PruneStalePending PROVE SandboxInv' /\ QueueStep
  <2>1. pending' = Keeping(Unexpired) /\ UNCHANGED <<ruling, seen, wall>>
    BY <1>5 DEF PruneStalePending
  <2>2. PICK D, S : D = DOMAIN pending /\ S = Unexpired
    OBVIOUS
  <2>3. S \subseteq D /\ \A y \in D \ S : Outlived(y)
    BY <1>0, <2>2 DEF Unexpired, Age, Outlived
  <2>4. /\ DOMAIN pending' = S /\ IsFiniteSet(S) /\ Cardinality(S) <= Slots
        /\ \A y \in S : pending'[y] \in Nat
    BY <2>1, <2>2, <2>3, QueueShrinks
  <2>5. SandboxInv'
    BY <1>0, <1>7, <2>1, <2>2, <2>3, <2>4 DEF SandboxInv
  <2>6. QueueStep
    BY <1>0, <2>1, <2>2, <2>3, <2>4 DEF QueueStep
  <2> QED
    BY <2>5, <2>6
<1>6. ASSUME WallClock PROVE SandboxInv' /\ QueueStep
  <2>1. wall' \in Nat /\ UNCHANGED <<pending, ruling, seen>>
    BY <1>6, SandboxAssumption DEF WallClock
  <2> QED
    BY <1>0, <1>2, <2>1
<1> QED
  BY <1>1, <1>3, <1>4, <1>5, <1>6 DEF SandboxNext, ApproveSandbox, RejectSandbox

\* The inductive invariant of the approval queue.
THEOREM SandboxInvariance == SandboxSpec => []SandboxInv
<1>1. SandboxInv /\ [SandboxNext]_sandboxVars => SandboxInv'
  BY SandboxSteps
<1> QED
  BY <1>1, SandboxInitInv, PTL DEF SandboxSpec

\* Every step of the queue loses only what was ruled on, had expired, or was the
\* oldest of a queue full of fresh entries; and a ruling is final.
THEOREM QueueLosesOnlyStaleTheorem == SandboxSpec => QueueLosesOnlyStale
<1>1. SandboxInv /\ [SandboxNext]_sandboxVars => [QueueStep]_sandboxVars
  BY SandboxSteps
<1> QED
  BY <1>1, SandboxInvariance, PTL DEF SandboxSpec, QueueLosesOnlyStale

-----------------------------------------------------------------------------
(* Storage.  The two databases hold twins: rows of the same object, written *)
(* by the two backends.  A query looks at columns that are equal in twins,  *)
(* so its keys, its order and what it shows are equal sets and functions,   *)
(* and the answers follow without induction over the rows.                 *)

\* Both stores extend StoreKit: its operators are the same in each.
LEMMA SameCardinality ==
    \A S : Lite!Cardinality(S) = Cardinality(S) /\ Pg!Cardinality(S) = Cardinality(S)
BY DEF Lite!Cardinality, Pg!Cardinality, Cardinality

LEMMA SameSorted ==
    \A S, b : Lite!Sorted(S, b) = Sorted(S, b) /\ Pg!Sorted(S, b) = Sorted(S, b)
BY DEF Lite!Sorted, Pg!Sorted, Sorted, Lite!Cardinality, Pg!Cardinality, Cardinality

LEMMA SameListing ==
    \A S, b, f : Lite!Listing(S, b, f) = Listing(S, b, f)
                 /\ Pg!Listing(S, b, f) = Listing(S, b, f)
BY SameSorted DEF Lite!Listing, Pg!Listing, Listing

LEMMA SameSumOf == \A f : Lite!SumOf(f) = SumOf(f) /\ Pg!SumOf(f) = SumOf(f)
BY DEF Lite!SumOf, Pg!SumOf, SumOf, Lite!FoldSet, Pg!FoldSet, FoldSet,
       Lite!MapThenFoldSet, Pg!MapThenFoldSet, MapThenFoldSet

LEMMA SameLimit == \A s, n : Lite!Limit(s, n) = Limit(s, n) /\ Pg!Limit(s, n) = Limit(s, n)
BY DEF Lite!Limit, Pg!Limit, Limit


-----------------------------------------------------------------------------
(* Twin rows: what the two backends store of one object.                   *)

AuditTwins(x, y) == \E e : /\ e.at \in Int /\ e.usage.hit \in BOOLEAN \cup {NoValue}
                           /\ x = Lite!AuditRow(e) /\ y = Pg!AuditRow(e)
ReviewTwins(x, y) == \E v : x = Lite!ReviewRow(v) /\ y = Pg!ReviewRow(v)
ProfileTwins(x, y) == \E p : x = Lite!ProfileRow(p) /\ y = Pg!ProfileRow(p)
WorkspaceTwins(x, y) == \E w : x = Lite!WorkspaceRow(w) /\ y = Pg!WorkspaceRow(w)
RuleTwins(x, y) == \E r : /\ r.enabled \in BOOLEAN
                          /\ x = Lite!RuleRow(r) /\ y = Pg!RuleRow(r)
KeyTwins(x, y) == \E k, now : x = Lite!KeyRow(k, now) /\ y = Pg!KeyRow(k, now)
IdentityTwins(x, y) == \E i : /\ i.at = Micros(i.at.at)
                              /\ x = Lite!IdentityRow(i) /\ y = Pg!IdentityRow(i)
ChallengeTwins(x, y) == \E c : x = Lite!ChallengeRow(c) /\ y = Pg!ChallengeRow(c)
TokenTwins(x, y) == \E t : /\ t.valid \in BOOLEAN
                           /\ t.issued = Micros(t.issued.at) /\ t.exp = Micros(t.exp.at)
                           /\ x = Lite!TokenRow(t) /\ y = Pg!TokenRow(t)
SessionTwins(x, y) == \E s : /\ s.blocked \in BOOLEAN /\ s.count \in U32
                             /\ x = Lite!SessionRow(s) /\ y = Pg!SessionRow(s)
TaintTwins(x, y) == \E labels, now : /\ x = Lite!TaintRow(labels, now)
                                     /\ y = Pg!TaintRow(labels, now)
FingerprintTwins(x, y) == \E f : x = Lite!FingerprintRow(f) /\ y = Pg!FingerprintRow(f)
LimitsTwins(x, y) == \E c : /\ c.minute \in U32 /\ c.hour \in U32 /\ c.burst \in U32
                            /\ x = Lite!LimitsRow(c) /\ y = Pg!LimitsRow(c)

Twins(x, y) ==
    /\ table = "audit" => AuditTwins(x, y)
    /\ table = "reviews" => ReviewTwins(x, y)
    /\ table = "profiles" => ProfileTwins(x, y)
    /\ table = "workspaces" => WorkspaceTwins(x, y)
    /\ table = "rules" => RuleTwins(x, y)
    /\ table = "keys" => KeyTwins(x, y)
    /\ table = "identities" => IdentityTwins(x, y)
    /\ table = "challenges" => ChallengeTwins(x, y)
    /\ table = "tokens" => TokenTwins(x, y)
    /\ table = "sessions" => SessionTwins(x, y)
    /\ table = "taint" => TaintTwins(x, y)
    /\ table = "fingerprints" => FingerprintTwins(x, y)
    /\ table = "limits" => LimitsTwins(x, y)

TwinTables(a, b) == DOMAIN a = DOMAIN b /\ \A k \in DOMAIN a : Twins(a[k], b[k])

\* Until a row is refused the backends hold twins.
StoreInv == table \in Tables /\ (refused \/ (sameReply /\ TwinTables(lite, pg)))

-----------------------------------------------------------------------------
(* The columns of twins that are compared, and what is decoded of them.     *)

\* How a column is made and decoded.
USE DEF Micros, Lite!Text, Lite!Real, Lite!IntCol, Lite!Flag, Lite!Null, Lite!Opt, Lite!Col,
        Lite!GetText, Lite!GetInt, Lite!GetReal, Lite!TryGet,
        Pg!Text, Pg!Json, Pg!Real, Pg!Int4, Pg!Int8, Pg!Flag, Pg!Timestamptz,
        Pg!Null, Pg!Opt, Pg!Col, Pg!AsText, Pg!ToChar, Pg!GetText, Pg!GetI32, Pg!GetI64,
        Pg!GetReal, Pg!GetBool, Pg!TryGet

\* One review: what is decoded, and the columns of the order and of the guard.
LEMMA ReviewTwin ==
    ASSUME NEW x, NEW y, ReviewTwins(x, y)
    PROVE  /\ Lite!IntoReview(x) = Pg!IntoReview(y)
           /\ x.created_at.v = y.created_at.v
           /\ x.id.v = y.id.v
           /\ x.status.v = y.status.v
BY StorageAssumption
   DEF ReviewTwins, Lite!ReviewRow, Pg!ReviewRow, Lite!IntoReview, Pg!IntoReview

\* One agent profile.
LEMMA ProfileTwin ==
    ASSUME NEW x, NEW y, ProfileTwins(x, y)
    PROVE  /\ Lite!IntoProfile(x) = Pg!IntoProfile(y)
           /\ x.agent_id.v = y.agent_id.v
BY StorageAssumption
   DEF ProfileTwins, Lite!ProfileRow, Pg!ProfileRow, Lite!IntoProfile, Pg!IntoProfile

\* One workspace policy; its flags and limits decode to the same values.
LEMMA WorkspaceTwin ==
    ASSUME NEW x, NEW y, WorkspaceTwins(x, y)
    PROVE  /\ Lite!IntoPolicy(x) = Pg!IntoPolicy(y)
           /\ x.workspace_id.v = y.workspace_id.v
BY StorageAssumption
   DEF WorkspaceTwins, Lite!WorkspaceRow, Pg!WorkspaceRow, Lite!IntoPolicy,
       Pg!IntoPolicy

\* One workspace rule; enabled is a number in SQLite and a flag in PostgreSQL.
LEMMA RuleTwin ==
    ASSUME NEW x, NEW y, RuleTwins(x, y)
    PROVE  /\ Lite!RowToPolicyRule(x) = Pg!RowToPolicyRule(y)
           /\ x.id.v = y.id.v
           /\ x.workspace_id.v = y.workspace_id.v
           /\ x.priority.v = y.priority.v
BY StorageAssumption
   DEF RuleTwins, Lite!RuleRow, Pg!RuleRow, Lite!RowToPolicyRule, Pg!RowToPolicyRule

\* One API key: SQLite shows the second of PostgreSQL's time.
LEMMA KeyTwin ==
    ASSUME NEW x, NEW y, KeyTwins(x, y)
    PROVE  /\ x.id.v = y.id.v
           /\ x.scope.v = y.scope.v
           /\ x.agent_id.v = y.agent_id.v
           /\ x.key_prefix.v = y.key_prefix.v
           /\ x.key_hash.v = y.key_hash.v
           /\ SameKey(Lite!IntoKey(x), Pg!IntoKey(y))
<1>1. PICK k, now : x = Lite!KeyRow(k, now) /\ y = Pg!KeyRow(k, now)
  BY DEF KeyTwins
<1>2. Lite!WholeSecond(now) = WholeSecond(now)
  BY DEF Lite!WholeSecond, WholeSecond, Lite!Sec, Sec
<1>3. SameKey(Lite!IntoKey(x), Pg!IntoKey(y))
  BY <1>1, <1>2 DEF Lite!KeyRow, Pg!KeyRow, SameKey, Lite!IntoKey, Pg!IntoKey, Pg!ZonedText
<1> QED
  BY <1>1, <1>3 DEF Lite!KeyRow, Pg!KeyRow

\* One identity; its time is text in SQLite and an instant in PostgreSQL, which
\* reads back the same because it was minted in microseconds.
LEMMA IdentityTwin ==
    ASSUME NEW x, NEW y, IdentityTwins(x, y)
    PROVE  /\ Lite!GetIdentity(x) = Pg!GetIdentity(y)
           /\ Lite!GetSecretKey(x) = Pg!GetSecretKey(y)
           /\ x.agent_id.v = y.agent_id.v
           /\ x.created_at.v.at = y.created_at.v
BY StorageAssumption
   DEF IdentityTwins, Lite!IdentityRow, Pg!IdentityRow, Lite!GetIdentity,
       Pg!GetIdentity, Lite!GetSecretKey, Pg!GetSecretKey

\* One challenge.
LEMMA ChallengeTwin ==
    ASSUME NEW x, NEW y, ChallengeTwins(x, y)
    PROVE  /\ Lite!GetChallenge(x) = Pg!GetChallenge(y)
           /\ x.expires_at.v = y.expires_at.v
BY StorageAssumption
   DEF ChallengeTwins, Lite!ChallengeRow, Pg!ChallengeRow, Lite!GetChallenge,
       Pg!GetChallenge

\* One capability token; its two times read back as an identity's does.
LEMMA TokenTwin ==
    ASSUME NEW x, NEW y, TokenTwins(x, y)
    PROVE  /\ Lite!GetCapabilityToken(x) = Pg!GetCapabilityToken(y)
           /\ x.token_id.v = y.token_id.v
           /\ x.issued_at.v.at = y.issued_at.v /\ x.expires_at.v.at = y.expires_at.v
BY StorageAssumption
   DEF TokenTwins, Lite!TokenRow, Pg!TokenRow, Lite!GetCapabilityToken,
       Pg!GetCapabilityToken

\* A u32 that is cast to i32, stored and read back.
LEMMA CastBack == \A n \in U32 : Pg!AsU32(Pg!AsI32(n)) = n
BY StorageAssumption DEF U32, Pg!AsU32, Pg!AsI32

\* One session.
LEMMA SessionTwin ==
    ASSUME NEW x, NEW y, SessionTwins(x, y)
    PROVE  /\ Lite!SessionFromRow(x) = Pg!SessionFromRow(y)
           /\ x.last_activity.v = y.last_activity.v
BY StorageAssumption, CastBack
   DEF SessionTwins, Lite!SessionRow, Pg!SessionRow, Lite!SessionFromRow,
       Pg!SessionFromRow

\* The labels of one session.
LEMMA TaintTwin ==
    ASSUME NEW x, NEW y, TaintTwins(x, y)
    PROVE  /\ x.updated_at.v = y.updated_at.v
           /\ Lite!GetText(x.labels_json) = Pg!GetText(Pg!AsText(y.labels_json))
BY StorageAssumption DEF TaintTwins, Lite!TaintRow, Pg!TaintRow

\* One fingerprint.
LEMMA FingerprintTwin ==
    ASSUME NEW x, NEW y, FingerprintTwins(x, y)
    PROVE  /\ Lite!FingerprintFromRow(x) = Pg!FingerprintFromRow(y)
BY StorageAssumption
   DEF FingerprintTwins, Lite!FingerprintRow, Pg!FingerprintRow,
       Lite!FingerprintFromRow, Pg!FingerprintFromRow

\* The rate limits.
LEMMA LimitsTwin ==
    ASSUME NEW x, NEW y, LimitsTwins(x, y)
    PROVE  /\ Lite!GetInt(x.max_per_minute, 60) = Pg!AsU32(Pg!GetI32(y.max_per_minute, 60))
           /\ Lite!GetInt(x.max_per_hour, 1000) = Pg!AsU32(Pg!GetI32(y.max_per_hour, 1000))
           /\ Lite!GetInt(x.burst_limit, 10) = Pg!AsU32(Pg!GetI32(y.burst_limit, 10))
BY StorageAssumption, CastBack DEF LimitsTwins, Lite!LimitsRow, Pg!LimitsRow

HIDE DEF Micros, Lite!Text, Lite!Real, Lite!IntCol, Lite!Flag, Lite!Null, Lite!Opt, Lite!Col,
         Lite!GetText, Lite!GetInt, Lite!GetReal, Lite!TryGet,
         Pg!Text, Pg!Json, Pg!Real, Pg!Int4, Pg!Int8, Pg!Flag, Pg!Timestamptz,
         Pg!Null, Pg!Opt, Pg!Col, Pg!AsText, Pg!ToChar, Pg!GetText, Pg!GetI32, Pg!GetI64,
         Pg!GetReal, Pg!GetBool, Pg!TryGet

-----------------------------------------------------------------------------
(* Tables of twins are read alike.                                         *)

\* ReviewStore::list, oldest first.
LEMMA ReviewListed ==
    ASSUME collation = "C", NEW a, NEW b, DOMAIN a = DOMAIN b,
           \A k \in DOMAIN a : ReviewTwins(a[k], b[k])
    PROVE  Lite!ReviewList(a) = Pg!ReviewList(b)
<1> DEFINE D == DOMAIN a
           X == {q \in D \X D : \/ a[q[1]].created_at.v < a[q[2]].created_at.v
                             \/ /\ a[q[1]].created_at.v = a[q[2]].created_at.v
                                /\ a[q[1]].id.v < a[q[2]].id.v}
           Y == {q \in D \X D : \/ b[q[1]].created_at.v < b[q[2]].created_at.v
                             \/ /\ b[q[1]].created_at.v = b[q[2]].created_at.v
                                /\ b[q[1]].id.v < b[q[2]].id.v}
           f == [k \in D |-> Lite!IntoReview(a[k])]
           g == [k \in D |-> Pg!IntoReview(b[k])]
<1>1. X = Y /\ f = g
  BY ReviewTwin
<1>2. D = DOMAIN b
  OBVIOUS
<1>3. Lite!ReviewList(a) = Listing(D, X, f)
  BY SameListing DEF Lite!ReviewList, Lite!Select
<1>4. Pg!ReviewList(b) = Listing(D, Y, g)
  BY <1>2, SameListing DEF Pg!ReviewList, Pg!Select, Pg!TextLess
<1> QED
  BY <1>1, <1>3, <1>4

\* list_profiles, by agent.
LEMMA ProfileListed ==
    ASSUME collation = "C", NEW a, NEW b, DOMAIN a = DOMAIN b,
           \A k \in DOMAIN a : ProfileTwins(a[k], b[k])
    PROVE  Lite!ListProfiles(a) = Pg!ListProfiles(b)
<1> DEFINE D == DOMAIN a
           X == {q \in D \X D : a[q[1]].agent_id.v < a[q[2]].agent_id.v}
           Y == {q \in D \X D : b[q[1]].agent_id.v < b[q[2]].agent_id.v}
           f == [k \in D |-> Lite!IntoProfile(a[k])]
           g == [k \in D |-> Pg!IntoProfile(b[k])]
<1>1. X = Y /\ f = g
  BY ProfileTwin
<1>2. D = DOMAIN b
  OBVIOUS
<1>3. Lite!ListProfiles(a) = Listing(D, X, f)
  BY SameListing DEF Lite!ListProfiles, Lite!Select
<1>4. Pg!ListProfiles(b) = Listing(D, Y, g)
  BY <1>2, SameListing DEF Pg!ListProfiles, Pg!Select, Pg!TextLess
<1> QED
  BY <1>1, <1>3, <1>4

\* list_workspaces, by workspace.
LEMMA WorkspaceListed ==
    ASSUME collation = "C", NEW a, NEW b, DOMAIN a = DOMAIN b,
           \A k \in DOMAIN a : WorkspaceTwins(a[k], b[k])
    PROVE  Lite!ListWorkspaces(a) = Pg!ListWorkspaces(b)
<1> DEFINE D == DOMAIN a
           X == {q \in D \X D : a[q[1]].workspace_id.v < a[q[2]].workspace_id.v}
           Y == {q \in D \X D : b[q[1]].workspace_id.v < b[q[2]].workspace_id.v}
           f == [k \in D |-> Lite!IntoPolicy(a[k])]
           g == [k \in D |-> Pg!IntoPolicy(b[k])]
<1>1. X = Y /\ f = g
  BY WorkspaceTwin
<1>2. D = DOMAIN b
  OBVIOUS
<1>3. Lite!ListWorkspaces(a) = Listing(D, X, f)
  BY SameListing DEF Lite!ListWorkspaces, Lite!Select
<1>4. Pg!ListWorkspaces(b) = Listing(D, Y, g)
  BY <1>2, SameListing DEF Pg!ListWorkspaces, Pg!Select, Pg!TextLess
<1> QED
  BY <1>1, <1>3, <1>4

\* list_workspace_rules, by priority, of the rules of one workspace.
LEMMA RuleListed ==
    ASSUME collation = "C", NEW a, NEW b, DOMAIN a = DOMAIN b, NEW ws,
           \A k \in DOMAIN a : RuleTwins(a[k], b[k])
    PROVE  Lite!ListWorkspaceRules(a, ws) = Pg!ListWorkspaceRules(b, ws)
<1> DEFINE D == {k \in DOMAIN a : a[k].workspace_id.v = ws}
           X == {q \in D \X D : \/ a[q[1]].priority.v < a[q[2]].priority.v
                             \/ /\ a[q[1]].priority.v = a[q[2]].priority.v
                                /\ a[q[1]].id.v < a[q[2]].id.v}
           Y == {q \in D \X D : \/ b[q[1]].priority.v < b[q[2]].priority.v
                             \/ /\ b[q[1]].priority.v = b[q[2]].priority.v
                                /\ b[q[1]].id.v < b[q[2]].id.v}
           f == [k \in D |-> Lite!RowToPolicyRule(a[k])]
           g == [k \in D |-> Pg!RowToPolicyRule(b[k])]
<1>1. X = Y /\ f = g
  BY RuleTwin
<1>2. D = {k \in DOMAIN b : b[k].workspace_id.v = ws}
  BY RuleTwin
<1>3. Lite!ListWorkspaceRules(a, ws) = Listing(D, X, f)
  BY SameListing DEF Lite!ListWorkspaceRules, Lite!Select
<1>4. Pg!ListWorkspaceRules(b, ws) = Listing(D, Y, g)
  BY <1>2, SameListing DEF Pg!ListWorkspaceRules, Pg!Select, Pg!TextLess
<1> QED
  BY <1>1, <1>3, <1>4

\* list_identities.
LEMMA IdentityListed ==
    ASSUME collation = "C", NEW a, NEW b, DOMAIN a = DOMAIN b,
           \A k \in DOMAIN a : IdentityTwins(a[k], b[k])
    PROVE  Lite!ListIdentities(a) = Pg!ListIdentities(b)
<1> DEFINE D == DOMAIN a
           X == {q \in D \X D : \/ a[q[1]].created_at.v.at < a[q[2]].created_at.v.at
                             \/ /\ a[q[1]].created_at.v.at = a[q[2]].created_at.v.at
                                /\ a[q[1]].agent_id.v < a[q[2]].agent_id.v}
           Y == {q \in D \X D : \/ b[q[1]].created_at.v < b[q[2]].created_at.v
                             \/ /\ b[q[1]].created_at.v = b[q[2]].created_at.v
                                /\ b[q[1]].agent_id.v < b[q[2]].agent_id.v}
           f == [k \in D |-> Lite!GetIdentity(a[k])]
           g == [k \in D |-> Pg!GetIdentity(b[k])]
<1>1. X = Y /\ f = g
  BY IdentityTwin
<1>2. D = DOMAIN b
  OBVIOUS
<1>3. Lite!ListIdentities(a) = Listing(D, X, f)
  BY SameListing DEF Lite!ListIdentities, Lite!Select
<1>4. Pg!ListIdentities(b) = Listing(D, Y, g)
  BY <1>2, SameListing DEF Pg!ListIdentities, Pg!Select, Pg!TextLess
<1> QED
  BY <1>1, <1>3, <1>4

\* list_capability_tokens.
LEMMA TokenListed ==
    ASSUME collation = "C", NEW a, NEW b, DOMAIN a = DOMAIN b,
           \A k \in DOMAIN a : TokenTwins(a[k], b[k])
    PROVE  Lite!ListCapabilityTokens(a) = Pg!ListCapabilityTokens(b)
<1> DEFINE D == DOMAIN a
           X == {q \in D \X D : \/ a[q[1]].issued_at.v.at > a[q[2]].issued_at.v.at
                             \/ /\ a[q[1]].issued_at.v.at = a[q[2]].issued_at.v.at
                                /\ a[q[1]].token_id.v > a[q[2]].token_id.v}
           Y == {q \in D \X D : \/ b[q[1]].issued_at.v > b[q[2]].issued_at.v
                             \/ /\ b[q[1]].issued_at.v = b[q[2]].issued_at.v
                                /\ b[q[1]].token_id.v > b[q[2]].token_id.v}
           f == [k \in D |-> Lite!GetCapabilityToken(a[k])]
           g == [k \in D |-> Pg!GetCapabilityToken(b[k])]
<1>1. X = Y /\ f = g
  BY TokenTwin
<1>2. D = DOMAIN b
  OBVIOUS
<1>3. Lite!ListCapabilityTokens(a) = Listing(D, X, f)
  BY SameListing DEF Lite!ListCapabilityTokens, Lite!Select
<1>4. Pg!ListCapabilityTokens(b) = Listing(D, Y, g)
  BY <1>2, SameListing DEF Pg!ListCapabilityTokens, Pg!Select, Pg!TextLess
<1> QED
  BY <1>1, <1>3, <1>4

\* The reads of one row, by key.
LEMMA RowsRead ==
    ASSUME NEW a, NEW b, TwinTables(a, b), NEW k
    PROVE  /\ table = "reviews" => Lite!ReviewGet(a, k) = Pg!ReviewGet(b, k)
           /\ table = "profiles" => Lite!GetAgentProfile(a, k) = Pg!GetAgentProfile(b, k)
           /\ table = "workspaces" =>
                 Lite!GetWorkspacePolicy(a, k) = Pg!GetWorkspacePolicy(b, k)
           /\ table = "taint" => Lite!GetSessionTaint(a, k) = Pg!GetSessionTaint(b, k)
           /\ table = "limits" => Lite!LoadConfig(a) = Pg!LoadConfig(b)
<1>1. CASE table = "reviews"
  BY <1>1, ReviewTwin DEF TwinTables, Twins, Lite!ReviewGet, Pg!ReviewGet
<1>2. CASE table = "profiles"
  BY <1>2, ProfileTwin DEF TwinTables, Twins, Lite!GetAgentProfile, Pg!GetAgentProfile
<1>3. CASE table = "workspaces"
  BY <1>3, WorkspaceTwin
     DEF TwinTables, Twins, Lite!GetWorkspacePolicy, Pg!GetWorkspacePolicy
<1>4. CASE table = "taint"
  BY <1>4, TaintTwin DEF TwinTables, Twins, Lite!GetSessionTaint, Pg!GetSessionTaint
<1>5. CASE table = "limits"
  BY <1>5, LimitsTwin DEF TwinTables, Twins, Lite!LoadConfig, Pg!LoadConfig
<1> QED
  BY <1>1, <1>2, <1>3, <1>4, <1>5

\* The other reads of rows: by key, or in no order.
LEMMA RowsListed ==
    ASSUME NEW a, NEW b, TwinTables(a, b)
    PROVE  /\ table = "keys" =>
                 /\ \A k \in DOMAIN a : SameKey(Lite!IntoKey(a[k]), Pg!IntoKey(b[k]))
                 /\ \A raw : Lite!VerifyRawKeyScoped(a, raw) = Pg!VerifyRawKeyScoped(b, raw)
           /\ table = "rules" => \A k \in DOMAIN a :
                 Lite!RowToPolicyRule(a[k]) = Pg!RowToPolicyRule(b[k])
           /\ table = "sessions" => Lite!ListSessions(a) = Pg!ListSessions(b)
           /\ table = "fingerprints" => Lite!ListFingerprints(a) = Pg!ListFingerprints(b)
           /\ table = "identities" => \A k \in DOMAIN a :
                 /\ Lite!GetIdentity(a[k]) = Pg!GetIdentity(b[k])
                 /\ Lite!GetSecretKey(a[k]) = Pg!GetSecretKey(b[k])
           /\ table = "challenges" => \A k \in DOMAIN a :
                 Lite!GetChallenge(a[k]) = Pg!GetChallenge(b[k])
           /\ table = "tokens" => \A k \in DOMAIN a :
                 Lite!GetCapabilityToken(a[k]) = Pg!GetCapabilityToken(b[k])
<1>1. CASE table = "keys"
  BY <1>1, KeyTwin
     DEF TwinTables, Twins, Lite!VerifyRawKeyScoped, Pg!VerifyRawKeyScoped,
     Lite!KeyScope, Pg!KeyScope
<1>2. CASE table = "sessions"
  BY <1>2, SessionTwin DEF TwinTables, Twins, Lite!ListSessions, Pg!ListSessions
<1>3. CASE table = "fingerprints"
  BY <1>3, FingerprintTwin
     DEF TwinTables, Twins, Lite!ListFingerprints, Pg!ListFingerprints
<1>4. CASE table = "identities"
  BY <1>4, IdentityTwin DEF TwinTables, Twins
<1>5. CASE table = "challenges"
  BY <1>5, ChallengeTwin DEF TwinTables, Twins
<1>6. CASE table = "tokens"
  BY <1>6, TokenTwin DEF TwinTables, Twins
<1>7. CASE table = "rules"
  BY <1>7, RuleTwin DEF TwinTables, Twins
<1> QED
  BY <1>1, <1>2, <1>3, <1>4, <1>5, <1>6, <1>7

-----------------------------------------------------------------------------
(* The audit table: listings, statistics, analytics and cost reports.       *)

\* Columns of twins that hold the same value in both backends, and the flag,
\* which SQLite keeps as a number.
SameColumns(x, y) ==
    /\ Lite!IntoStored(x) = Pg!IntoStored(y)
    /\ x.cache_hit.v = 1 <=> y.cache_hit.v = TRUE
    /\ x.event_id.v = y.event_id.v /\ x.agent_id.v = y.agent_id.v
    /\ x.tenant_id.v = y.tenant_id.v /\ x.tool_name.v = y.tool_name.v
    /\ x.decision.v = y.decision.v /\ x.risk_score.v = y.risk_score.v
    /\ x.timestamp.v \in Int
    /\ x.timestamp.v = y.timestamp.v /\ x.usage_json.v = y.usage_json.v
    /\ x.cost_usd.v = y.cost_usd.v /\ x.savings_usd.v = y.savings_usd.v
    /\ x.total_tokens.v = y.total_tokens.v /\ x.model.v = y.model.v
    /\ x.created_at.v = y.created_at.v

\* One audit row: every column a query compares, adds or groups by.
LEMMA AuditTwin ==
    ASSUME NEW x, NEW y, AuditTwins(x, y)
    PROVE  SameColumns(x, y)
<1> USE DEF Lite!Text, Lite!Real, Lite!IntCol, Lite!Flag, Lite!Null, Lite!Opt, Lite!Col,
            Lite!GetText, Lite!GetInt, Lite!GetReal, Lite!TryGet,
            Pg!Text, Pg!Json, Pg!Real, Pg!Int4, Pg!Int8, Pg!Flag, Pg!Timestamptz,
            Pg!Null, Pg!Opt, Pg!Col, Pg!AsText, Pg!ToChar, Pg!GetText, Pg!GetI32, Pg!GetI64,
            Pg!GetReal, Pg!GetBool, Pg!TryGet
<1>1. PICK e : /\ e.at \in Int /\ e.usage.hit \in BOOLEAN \cup {NoValue}
               /\ x = Lite!AuditRow(e) /\ y = Pg!AuditRow(e)
  BY DEF AuditTwins
<1>2. Lite!IntoStored(x) = Pg!IntoStored(y)
  BY <1>1 DEF Lite!AuditRow, Pg!AuditRow, Lite!IntoStored, Pg!IntoStored
<1>3. /\ x.event_id.v = y.event_id.v /\ x.agent_id.v = y.agent_id.v
      /\ x.tenant_id.v = y.tenant_id.v /\ x.tool_name.v = y.tool_name.v
      /\ x.decision.v = y.decision.v /\ x.risk_score.v = y.risk_score.v
      /\ x.timestamp.v \in Int
      /\ x.timestamp.v = y.timestamp.v /\ x.usage_json.v = y.usage_json.v
      /\ x.cost_usd.v = y.cost_usd.v /\ x.savings_usd.v = y.savings_usd.v
      /\ x.total_tokens.v = y.total_tokens.v /\ x.model.v = y.model.v
      /\ x.created_at.v = y.created_at.v
  BY <1>1 DEF Lite!AuditRow, Pg!AuditRow
<1>4. x.cache_hit.v = 1 <=> y.cache_hit.v = TRUE
  <2>1. x.cache_hit.v = IF e.usage.hit = NoValue THEN NoValue
                        ELSE IF e.usage.hit THEN 1 ELSE 0
    BY <1>1 DEF Lite!AuditRow, Lite!Opt, Lite!Null, Lite!Flag, Lite!IntCol, Lite!Col
  <2>2. y.cache_hit.v = e.usage.hit
    BY <1>1 DEF Pg!AuditRow, Pg!Opt, Pg!Null, Pg!Flag, Pg!Col
  <2>3. CASE e.usage.hit = NoValue
    BY <2>1, <2>2, <2>3, StorageAssumption
  <2>4. CASE e.usage.hit = TRUE
    BY <2>1, <2>2, <2>4, StorageAssumption
  <2>5. CASE e.usage.hit = FALSE
    BY <2>1, <2>2, <2>5, StorageAssumption
  <2> QED
    BY <1>1, <2>3, <2>4, <2>5
<1> QED
  BY <1>2, <1>3, <1>4 DEF SameColumns

\* Tables that hold twins of the audit events.
AuditTables(a, b) ==
    DOMAIN a = DOMAIN b /\ \A k \in DOMAIN a : SameColumns(a[k], b[k])

\* The bounds of a range are parsed by one function of storage/mod.rs.
LEMMA SameBoundary ==
    \A raw, end : /\ Lite!Boundary(raw, end) = Boundary(raw, end)
                  /\ Pg!Boundary(raw, end) = Boundary(raw, end)
BY DEF Lite!Boundary, Pg!Boundary, Boundary, Lite!Sec, Pg!Sec, Sec, Lite!DayLen, Pg!DayLen, DayLen

\* A row is inside the range in both.
LEMMA SameRange ==
    \A sec, from, to : /\ Lite!InRange(sec, from, to) <=> InRange(sec, from, to)
                       /\ Pg!InRange(sec, from, to) <=> InRange(sec, from, to)
                       /\ Lite!Sec(sec) = Sec(sec) /\ Pg!Sec(sec) = Sec(sec)
BY DEF Lite!InRange, Pg!InRange, InRange, Lite!Sec, Pg!Sec, Sec

\* A listing of audit rows with given keys, newest first.
LEMMA AuditListed ==
    ASSUME collation = "C", NEW a, NEW b, AuditTables(a, b), NEW D \in SUBSET DOMAIN a
    PROVE  Lite!Select(a, D, Lite!AuditOrder, Lite!IntoStored)
             = Pg!Select(b, D, Pg!AuditOrder, Pg!IntoStored)
<1> DEFINE X == {q \in D \X D : \/ a[q[1]].created_at.v > a[q[2]].created_at.v
                                \/ /\ a[q[1]].created_at.v = a[q[2]].created_at.v
                                   /\ a[q[1]].event_id.v > a[q[2]].event_id.v}
           Y == {q \in D \X D : \/ b[q[1]].created_at.v > b[q[2]].created_at.v
                                \/ /\ b[q[1]].created_at.v = b[q[2]].created_at.v
                                   /\ b[q[1]].event_id.v > b[q[2]].event_id.v}
           f == [k \in D |-> Lite!IntoStored(a[k])]
           g == [k \in D |-> Pg!IntoStored(b[k])]
<1>1. X = Y
  BY DEF AuditTables, SameColumns
<1>2. f = g
  BY DEF AuditTables, SameColumns
<1>3. Lite!Select(a, D, Lite!AuditOrder, Lite!IntoStored) = Listing(D, X, f)
  BY SameListing DEF Lite!Select, Lite!AuditOrder
<1>4. Pg!Select(b, D, Pg!AuditOrder, Pg!IntoStored) = Listing(D, Y, g)
  BY SameListing DEF Pg!Select, Pg!AuditOrder, Pg!TextLess
<1> QED
  BY <1>1, <1>2, <1>3, <1>4

\* Grouped keys, sums and rankings of twins.
LEMMA AuditSums ==
    ASSUME NEW a, NEW b, AuditTables(a, b), NEW D \in SUBSET DOMAIN a
    PROVE  /\ Lite!Sum(a, D, LAMBDA r : r.risk_score.v) = Pg!Sum(b, D, LAMBDA r : r.risk_score.v)
           /\ Lite!CostOf(a, D) = Pg!CostOf(b, D)
           /\ Lite!Hits(a, D) = Pg!Hits(b, D)
           /\ Lite!WithUsage(a, D) = Pg!WithUsage(b, D)
<1>1. Lite!Sum(a, D, LAMBDA r : r.risk_score.v) = Pg!Sum(b, D, LAMBDA r : r.risk_score.v)
  <2>1. [k \in D |-> a[k].risk_score.v] = [k \in D |-> b[k].risk_score.v]
    BY DEF AuditTables, SameColumns
  <2> QED
    BY <2>1, SameSumOf DEF Lite!Sum, Pg!Sum
<1>2. Lite!CostOf(a, D) = Pg!CostOf(b, D)
  <2>1. [k \in D |-> Lite!Amount(a[k].cost_usd)] = [k \in D |-> Pg!Amount(b[k].cost_usd)]
    BY DEF AuditTables, SameColumns, Lite!Amount, Pg!Amount
  <2>2. [k \in D |-> Lite!Amount(a[k].savings_usd)] = [k \in D |-> Pg!Amount(b[k].savings_usd)]
    BY DEF AuditTables, SameColumns, Lite!Amount, Pg!Amount
  <2>3. [k \in D |-> Lite!Amount(a[k].total_tokens)]
          = [k \in D |-> Pg!Amount(b[k].total_tokens)]
    BY DEF AuditTables, SameColumns, Lite!Amount, Pg!Amount
  <2> QED
    BY <2>1, <2>2, <2>3, SameSumOf DEF Lite!CostOf, Pg!CostOf, Lite!Sum, Pg!Sum
<1>3. Lite!Hits(a, D) = Pg!Hits(b, D)
  <2>1. {k \in D : a[k].cache_hit.v = 1} = {k \in D : b[k].cache_hit.v = TRUE}
    BY DEF AuditTables, SameColumns
  <2> QED
    BY <2>1, SameCardinality DEF Lite!Hits, Pg!Hits
<1>4. Lite!WithUsage(a, D) = Pg!WithUsage(b, D)
  BY DEF AuditTables, SameColumns, Lite!WithUsage, Pg!WithUsage
<1> QED
  BY <1>1, <1>2, <1>3, <1>4

\* list and list_filtered.
LEMMA AuditLists ==
    ASSUME collation = "C", NEW a, NEW b, AuditTables(a, b)
    PROVE  /\ \A n : Lite!AuditList(a, n) = Pg!AuditList(b, n)
           /\ \A f : Lite!AuditListFiltered(a, f) = Pg!AuditListFiltered(b, f)
<1>1. \A n : Lite!AuditList(a, n) = Pg!AuditList(b, n)
  <2>1. Lite!Select(a, DOMAIN a, Lite!AuditOrder, Lite!IntoStored)
          = Pg!Select(b, DOMAIN b, Pg!AuditOrder, Pg!IntoStored)
    BY AuditListed DEF AuditTables
  <2> QED
    BY <2>1, SameLimit DEF Lite!AuditList, Pg!AuditList
<1>2. ASSUME NEW f PROVE Lite!AuditListFiltered(a, f) = Pg!AuditListFiltered(b, f)
  <2> DEFINE from == Boundary(f.from, FALSE)
             to == Boundary(f.to, TRUE)
             keeps(t, k) == /\ f.agent \in {NoValue, t[k].agent_id.v}
                            /\ f.decision \in {NoValue, t[k].decision.v}
                            /\ f.tenant \in {NoValue, t[k].tenant_id.v}
                            /\ InRange(Sec(t[k].timestamp.v), from, to)
             D == {k \in DOMAIN a : keeps(a, k)}
             cap == IF f.limit < MaxExport THEN f.limit ELSE MaxExport
             X == Lite!Select(a, D, Lite!AuditOrder, Lite!IntoStored)
             Y == Pg!Select(b, D, Pg!AuditOrder, Pg!IntoStored)
  <2>1. D = {k \in DOMAIN b : keeps(b, k)}
    BY DEF AuditTables, SameColumns
  <2>2. X = Y
    BY AuditListed
  <2>3. Lite!AuditListFiltered(a, f)
          = IF Refused \in {from, to} THEN Refused ELSE Limit(X, cap)
    BY SameLimit, SameBoundary, SameRange DEF Lite!AuditListFiltered
  <2>4. Pg!AuditListFiltered(b, f)
          = IF Refused \in {from, to} THEN Refused ELSE Limit(Y, cap)
    BY <2>1, SameLimit, SameBoundary, SameRange DEF Pg!AuditListFiltered
  <2> QED
    BY <2>2, <2>3, <2>4
<1> QED
  BY <1>1, <1>2

\* The rows of a cost report have the same keys.
LEMMA AuditPriced ==
    ASSUME NEW a, NEW b, AuditTables(a, b), NEW from, NEW to
    PROVE  /\ Lite!Priced(a, from, to) = Pg!Priced(b, from, to)
           /\ Lite!Priced(a, from, to) \in SUBSET DOMAIN a
           /\ Lite!WithUsage(a, Lite!Priced(a, from, to)) \in SUBSET DOMAIN a
           /\ Lite!WithUsage(a, Lite!Priced(a, from, to))
                = Pg!WithUsage(b, Pg!Priced(b, from, to))
<1>1. Lite!Priced(a, from, to) = Pg!Priced(b, from, to)
  BY SameRange DEF AuditTables, SameColumns, Lite!Priced, Pg!Priced
<1>2. Lite!Priced(a, from, to) \in SUBSET DOMAIN a
  BY DEF Lite!Priced
<1>3. Lite!WithUsage(a, Lite!Priced(a, from, to)) \in SUBSET DOMAIN a
  BY <1>2 DEF Lite!WithUsage
<1> QED
  BY <1>1, <1>2, <1>3, AuditSums

\* cost_summary, and the sums of a group of rows.
LEMMA CostsSummed ==
    ASSUME NEW a, NEW b, AuditTables(a, b), NEW f
    PROVE  Lite!CostSummary(a, f) = Pg!CostSummary(b, f)
<1> DEFINE from == Boundary(f.from, FALSE)
           to == Boundary(f.to, TRUE)
           S == Lite!Priced(a, from, to)
<1>1. S = Pg!Priced(b, from, to) /\ S \in SUBSET DOMAIN a
  <2> HIDE DEF from, to
  <2> QED
    BY AuditPriced
<1>2. /\ Lite!CostOf(a, S) = Pg!CostOf(b, S) /\ Lite!Hits(a, S) = Pg!Hits(b, S)
      /\ Lite!WithUsage(a, S) = Pg!WithUsage(b, S)
  <2> HIDE DEF S
  <2> QED
    BY <1>1, AuditSums
<1>3. Lite!CostSummary(a, f) =
        IF Refused \in {from, to} THEN Refused
        ELSE [cost |-> Lite!CostOf(a, S), hits |-> Lite!Hits(a, S),
              actions |-> Cardinality(Lite!WithUsage(a, S))]
  BY SameBoundary, SameCardinality DEF Lite!CostSummary
<1>4. Pg!CostSummary(b, f) =
        IF Refused \in {from, to} THEN Refused
        ELSE [cost |-> Pg!CostOf(b, S), hits |-> Pg!Hits(b, S),
              actions |-> Cardinality(Pg!WithUsage(b, S))]
  BY <1>1, SameBoundary, SameCardinality DEF Pg!CostSummary
<1> QED
  BY <1>2, <1>3, <1>4

\* cost_by_column: the same groups in the same order.
LEMMA CostsByColumn ==
    ASSUME collation = "C", NEW a, NEW b, AuditTables(a, b), NEW f,
           NEW c \in {"agent_id", "model", "tool_name"}
    PROVE  Lite!CostByColumn(a, c, f) = Pg!CostByColumn(b, c, f)
<1> DEFINE from == Lite!Boundary(f.from, FALSE)
           to == Lite!Boundary(f.to, TRUE)
           start == Pg!Boundary(f.from, FALSE)
           end == Pg!Boundary(f.to, TRUE)
           S == Lite!WithUsage(a, Lite!Priced(a, from, to))
           T == Pg!WithUsage(b, Pg!Priced(b, start, end))
           ofA(g) == {k \in S : a[k][c].v = g}
           ofB(g) == {k \in T : b[k][c].v = g}
           rowA(g) == [key |-> g, cost |-> Lite!CostOf(a, ofA(g)),
                       actions |-> Lite!Cardinality(ofA(g)), hits |-> Lite!Hits(a, ofA(g))]
           rowB(g) == [key |-> g, cost |-> Pg!CostOf(b, ofB(g)),
                       actions |-> Pg!Cardinality(ofB(g)), hits |-> Pg!Hits(b, ofB(g))]
           X == {rowA(g) : g \in {a[k][c].v : k \in S}}
           Y == {rowB(g) : g \in {b[k][c].v : k \in T}}
           dearest(G) == {q \in G \X G : \/ q[1].cost.net > q[2].cost.net
                                         \/ /\ q[1].cost.net = q[2].cost.net
                                            /\ q[1].key < q[2].key}
<1>0. from = start /\ to = end
  BY SameBoundary
<1>1. S = T /\ S \in SUBSET DOMAIN a
  <2> HIDE DEF from, to, start, end
  <2> QED
    BY <1>0, AuditPriced
<1>2. \A k \in S : a[k][c].v = b[k][c].v
  <2> HIDE DEF S
  <2> QED
    BY <1>1 DEF AuditTables, SameColumns
<1>3. \A g : rowA(g) = rowB(g)
  <2> TAKE g
  <2>1. ofA(g) = ofB(g) /\ ofA(g) \in SUBSET DOMAIN a
    <3> HIDE DEF S, T
    <3> QED
      BY <1>1, <1>2
  <2> HIDE DEF ofA, ofB
  <2> QED
    BY <2>1, AuditSums, SameCardinality
<1>4. X = Y
  <2> HIDE DEF S, T, rowA, rowB
  <2>1. {a[k][c].v : k \in S} = {b[k][c].v : k \in T}
    BY <1>1, <1>2
  <2> QED
    BY <1>3, <2>1
<1>5. Lite!CostByColumn(a, c, f) =
        IF Refused \in {from, to} THEN Refused ELSE Limit(Sorted(X, dearest(X)), f.limit)
  <2>1. Lite!CostByColumn(a, c, f) =
          IF Refused \in {from, to} THEN Refused
          ELSE Lite!Limit(Lite!Sorted(X, dearest(X)), f.limit)
    BY DEF Lite!CostByColumn, Lite!OrderBy, Lite!Group, Lite!Groups
  <2> HIDE DEF X, from, to
  <2> QED
    BY <2>1, SameSorted, SameLimit
<1>6. Pg!CostByColumn(b, c, f) =
        IF Refused \in {start, end} THEN Refused ELSE Limit(Sorted(Y, dearest(Y)), f.limit)
  <2>1. Pg!CostByColumn(b, c, f) =
          IF Refused \in {start, end} THEN Refused
          ELSE Pg!Limit(Pg!Sorted(Y, dearest(Y)), f.limit)
    BY DEF Pg!CostByColumn, Pg!OrderBy, Pg!Group, Pg!Groups, Pg!TextLess
  <2> HIDE DEF Y, start, end
  <2> QED
    BY <2>1, SameSorted, SameLimit
<1> HIDE DEF X, Y, from, to, start, end
<1> QED
  BY <1>0, <1>4, <1>5, <1>6

\* cost_over_time: text cut by strftime and date_trunc of a UTC instant give the
\* same buckets.
LEMMA CostsOverTime ==
    ASSUME NEW a, NEW b, AuditTables(a, b), NEW f, NEW unit
    PROVE  Lite!CostOverTime(a, unit, f) = Pg!CostOverTime(b, unit, f)
<1> DEFINE from == Lite!Boundary(f.from, FALSE)
           to == Lite!Boundary(f.to, TRUE)
           start == Pg!Boundary(f.from, FALSE)
           end == Pg!Boundary(f.to, TRUE)
           S == Lite!WithUsage(a, Lite!Priced(a, from, to))
           T == Pg!WithUsage(b, Pg!Priced(b, start, end))
           timeA(k) == IF unit = "day" THEN Lite!DayStart(a[k].timestamp.v)
                       ELSE Lite!HourStart(a[k].timestamp.v)
           timeB(k) == IF unit = "day" THEN Pg!DayStart(b[k].timestamp.v + Pg!SessionZone)
                       ELSE Pg!HourStart(b[k].timestamp.v + Pg!SessionZone)
           ofA(g) == {k \in S : timeA(k) = g}
           ofB(g) == {k \in T : timeB(k) = g}
           rowA(g) == [bucket |-> g, cost |-> Lite!CostOf(a, ofA(g)),
                       actions |-> Lite!Cardinality(ofA(g))]
           rowB(g) == [bucket |-> g, cost |-> Pg!CostOf(b, ofB(g)),
                       actions |-> Pg!Cardinality(ofB(g))]
           X == {rowA(g) : g \in {timeA(k) : k \in S}}
           Y == {rowB(g) : g \in {timeB(k) : k \in T}}
           earlier(G) == {q \in G \X G : q[1].bucket < q[2].bucket}
<1>1. from = start /\ to = end
  BY SameBoundary
<1>2. S = T /\ S \in SUBSET DOMAIN a
  <2> HIDE DEF from, to, start, end
  <2> QED
    BY <1>1, AuditPriced
<1>3. \A k \in S : timeA(k) = timeB(k)
  <2> HIDE DEF S
  <2>1. \A k \in S : a[k].timestamp.v \in Int /\ a[k].timestamp.v = b[k].timestamp.v
    BY <1>2 DEF AuditTables, SameColumns
  <2>2. \A k \in S : b[k].timestamp.v + Pg!SessionZone = a[k].timestamp.v
    BY <2>1 DEF Pg!SessionZone
  <2>3. \A t : Lite!DayStart(t) = Pg!DayStart(t) /\ Lite!HourStart(t) = Pg!HourStart(t)
    BY DEF Lite!DayStart, Pg!DayStart, Lite!HourStart, Pg!HourStart, Lite!Sec, Pg!Sec,
       Lite!DayLen, Pg!DayLen
  <2> QED
    BY <2>2, <2>3
<1>4. \A g : rowA(g) = rowB(g)
  <2> TAKE g
  <2>1. ofA(g) = ofB(g) /\ ofA(g) \in SUBSET DOMAIN a
    <3> HIDE DEF S, T, timeA, timeB
    <3> QED
      BY <1>2, <1>3
  <2> HIDE DEF ofA, ofB
  <2> QED
    BY <2>1, AuditSums, SameCardinality
<1>5. X = Y
  <2> HIDE DEF S, T, timeA, timeB, rowA, rowB
  <2>1. {timeA(k) : k \in S} = {timeB(k) : k \in T}
    BY <1>2, <1>3
  <2> QED
    BY <1>4, <2>1
<1>6. Lite!CostOverTime(a, unit, f) =
        IF Refused \in {from, to} THEN Refused ELSE Sorted(X, earlier(X))
  <2>1. Lite!CostOverTime(a, unit, f) =
          IF Refused \in {from, to} THEN Refused ELSE Lite!Sorted(X, earlier(X))
    BY DEF Lite!CostOverTime, Lite!OrderBy, Lite!Group, Lite!Groups
  <2> HIDE DEF X, from, to
  <2> QED
    BY <2>1, SameSorted
<1>7. Pg!CostOverTime(b, unit, f) =
        IF Refused \in {start, end} THEN Refused ELSE Sorted(Y, earlier(Y))
  <2>1. Pg!CostOverTime(b, unit, f) =
          IF Refused \in {start, end} THEN Refused ELSE Pg!Sorted(Y, earlier(Y))
    BY DEF Pg!CostOverTime, Pg!OrderBy, Pg!Group, Pg!Groups
  <2> HIDE DEF Y, start, end
  <2> QED
    BY <2>1, SameSorted
<1> HIDE DEF X, Y, from, to, start, end
<1> QED
  BY <1>1, <1>5, <1>6, <1>7

\* How many of the rows with keys in D have each value of a column.
LiteCounts(t, D, c) == {<<g, Lite!Cardinality({k \in D : t[k][c].v = g})>> :
                           g \in {t[k][c].v : k \in D}}
PgCounts(t, D, c) == {<<g, Pg!Cardinality({k \in D : t[k][c].v = g})>> :
                         g \in {t[k][c].v : k \in D}}
MostFrequent(G) == {q \in G \X G : \/ q[1][2] > q[2][2]
                                   \/ q[1][2] = q[2][2] /\ q[1][1] < q[2][1]}

\* Grouped counts.
LEMMA CountsAgree ==
    ASSUME NEW a, NEW b, AuditTables(a, b), NEW D \in SUBSET DOMAIN a,
           NEW c \in {"decision", "agent_id", "tool_name"}
    PROVE  LiteCounts(a, D, c) = PgCounts(b, D, c)
<1> DEFINE ofA(g) == {k \in D : a[k][c].v = g}
           ofB(g) == {k \in D : b[k][c].v = g}
           rowA(g) == <<g, Lite!Cardinality(ofA(g))>>
           rowB(g) == <<g, Pg!Cardinality(ofB(g))>>
<1>1. \A k \in D : a[k][c].v = b[k][c].v
  BY DEF AuditTables, SameColumns
<1>2. \A g : ofA(g) = ofB(g)
  BY <1>1
<1>3. \A g : rowA(g) = rowB(g)
  <2> HIDE DEF ofA, ofB
  <2> QED
    BY <1>2, SameCardinality
<1>4. {a[k][c].v : k \in D} = {b[k][c].v : k \in D}
  BY <1>1
<1>5. {rowA(g) : g \in {a[k][c].v : k \in D}} = {rowB(g) : g \in {b[k][c].v : k \in D}}
  <2> HIDE DEF rowA, rowB
  <2> QED
    BY <1>3, <1>4
<1> QED
  BY <1>5 DEF LiteCounts, PgCounts

\* stats.
LEMMA StatsAgree ==
    ASSUME collation = "C", NEW a, NEW b, AuditTables(a, b)
    PROVE  Lite!AuditStats(a) = Pg!AuditStats(b)
<1> DEFINE D == DOMAIN a
           X(c) == LiteCounts(a, D, c)
           Y(c) == PgCounts(b, DOMAIN b, c)
<1>1. D = DOMAIN b
  BY DEF AuditTables
<1>2. Lite!Sum(a, D, LAMBDA r : r.risk_score.v) = Pg!Sum(b, D, LAMBDA r : r.risk_score.v)
  BY AuditSums
<1>3. X("decision") = Y("decision") /\ X("agent_id") = Y("agent_id")
      /\ X("tool_name") = Y("tool_name")
  BY <1>1, CountsAgree
<1>4. Lite!AuditStats(a) =
        [total |-> Cardinality(D),
         avg |-> <<Lite!Sum(a, D, LAMBDA r : r.risk_score.v), Cardinality(D)>>,
         decisions |-> X("decision"),
         agents |-> Limit(Sorted(X("agent_id"), MostFrequent(X("agent_id"))), TopStats),
         tools |-> Limit(Sorted(X("tool_name"), MostFrequent(X("tool_name"))), TopStats)]
  <2>1. Lite!AuditStats(a) =
          [total |-> Lite!Cardinality(D),
           avg |-> <<Lite!Sum(a, D, LAMBDA r : r.risk_score.v), Lite!Cardinality(D)>>,
           decisions |-> X("decision"),
           agents |-> Lite!Limit(Lite!Sorted(X("agent_id"), MostFrequent(X("agent_id"))), TopStats),
           tools |-> Lite!Limit(Lite!Sorted(X("tool_name"), MostFrequent(X("tool_name"))), TopStats)]
    BY DEF Lite!AuditStats, Lite!Ranked, Lite!OrderBy, Lite!Group, Lite!Groups,
       LiteCounts, MostFrequent
  <2> HIDE DEF X
  <2> QED
    BY <2>1, SameSorted, SameLimit, SameCardinality
<1>5. Pg!AuditStats(b) =
        [total |-> Cardinality(DOMAIN b),
         avg |-> <<Pg!Sum(b, DOMAIN b, LAMBDA r : r.risk_score.v), Cardinality(DOMAIN b)>>,
         decisions |-> Y("decision"),
         agents |-> Limit(Sorted(Y("agent_id"), MostFrequent(Y("agent_id"))), TopStats),
         tools |-> Limit(Sorted(Y("tool_name"), MostFrequent(Y("tool_name"))), TopStats)]
  <2>1. Pg!AuditStats(b) =
          [total |-> Pg!Cardinality(DOMAIN b),
           avg |-> <<Pg!Sum(b, DOMAIN b, LAMBDA r : r.risk_score.v), Pg!Cardinality(DOMAIN b)>>,
           decisions |-> Y("decision"),
           agents |-> Pg!Limit(Pg!Sorted(Y("agent_id"), MostFrequent(Y("agent_id"))), TopStats),
           tools |-> Pg!Limit(Pg!Sorted(Y("tool_name"), MostFrequent(Y("tool_name"))), TopStats)]
    BY DEF Pg!AuditStats, Pg!Ranked, Pg!OrderBy, Pg!Group, Pg!Groups, Pg!TextLess,
       PgCounts, MostFrequent
  <2> HIDE DEF Y
  <2> QED
    BY <2>1, SameSorted, SameLimit, SameCardinality
<1> HIDE DEF X, Y
<1> QED
  BY <1>1, <1>2, <1>3, <1>4, <1>5

\* fold_agent_analytics is one function of storage/mod.rs.
LEMMA SameFold ==
    \A t, d, u : /\ Lite!FoldAgentAnalytics(t, d, u) = FoldAgentAnalytics(t, d, u)
                 /\ Pg!FoldAgentAnalytics(t, d, u) = FoldAgentAnalytics(t, d, u)
BY DEF Lite!FoldAgentAnalytics, Pg!FoldAgentAnalytics, FoldAgentAnalytics, Lite!Each, Pg!Each,
   Each, Lite!OrderBy, Pg!OrderBy, OrderBy, Lite!Sorted, Pg!Sorted, Sorted, Lite!Limit,
   Pg!Limit, Limit, Lite!Cardinality, Pg!Cardinality, Cardinality

\* The latest of a set of times.
LEMMA SameMax == \A S : Lite!Max(S) = Max(S) /\ Pg!Max(S) = Max(S)
BY DEF Lite!Max, Pg!Max, Max

\* agent_analytics.
LEMMA AnalyticsAgree ==
    ASSUME collation = "C", NEW a, NEW b, AuditTables(a, b), NEW agent
    PROVE  Lite!AgentAnalytics(a, agent) = Pg!AgentAnalytics(b, agent)
<1> DEFINE D == {k \in DOMAIN a : agent \in {NoValue, a[k].agent_id.v}}
           E == {k \in DOMAIN b : agent \in {NoValue, b[k].agent_id.v}}
           ofA(g) == {k \in D : a[k].agent_id.v = g}
           ofB(g) == {k \in E : b[k].agent_id.v = g}
           totalA(g) == <<g, Lite!Cardinality(ofA(g)),
                          <<Lite!Sum(a, ofA(g), LAMBDA r : r.risk_score.v),
                            Lite!Cardinality(ofA(g))>>,
                          Lite!Max({a[k].timestamp.v : k \in ofA(g)})>>
           totalB(g) == <<g, Pg!Cardinality(ofB(g)),
                          <<Pg!Sum(b, ofB(g), LAMBDA r : r.risk_score.v),
                            Pg!Cardinality(ofB(g))>>,
                          Pg!Max({b[k].timestamp.v : k \in ofB(g)})>>
           X == {totalA(g) : g \in {a[k].agent_id.v : k \in D}}
           Y == {totalB(g) : g \in {b[k].agent_id.v : k \in E}}
           countA(c, k) == Lite!Cardinality({j \in ofA(a[k].agent_id.v) : a[j][c].v = a[k][c].v})
           countB(c, k) == Pg!Cardinality({j \in ofB(b[k].agent_id.v) : b[j][c].v = b[k][c].v})
           U(c) == {<<a[k].agent_id.v, a[k][c].v, countA(c, k)>> : k \in D}
           V(c) == {<<b[k].agent_id.v, b[k][c].v, countB(c, k)>> : k \in E}
<1>1. D = E /\ D \in SUBSET DOMAIN a
  BY DEF AuditTables, SameColumns
<1>2. \A k \in D : /\ a[k].agent_id.v = b[k].agent_id.v /\ a[k].decision.v = b[k].decision.v
                   /\ a[k].tool_name.v = b[k].tool_name.v
                   /\ a[k].timestamp.v = b[k].timestamp.v
  BY DEF AuditTables, SameColumns
<1>3. \A g : ofA(g) = ofB(g) /\ ofA(g) \in SUBSET D
  <2> HIDE DEF D, E
  <2> QED
    BY <1>1, <1>2
<1>4. \A g : totalA(g) = totalB(g)
  <2> TAKE g
  <2> HIDE DEF D, E, ofA, ofB
  <2>1. {a[k].timestamp.v : k \in ofA(g)} = {b[k].timestamp.v : k \in ofB(g)}
    BY <1>2, <1>3
  <2>2. Lite!Sum(a, ofA(g), LAMBDA r : r.risk_score.v) = Pg!Sum(b, ofB(g), LAMBDA r : r.risk_score.v)
    BY <1>1, <1>3, AuditSums
  <2> QED
    BY <1>3, <2>1, <2>2, SameMax, SameCardinality
<1>5. X = Y
  <2> HIDE DEF D, E, totalA, totalB
  <2>1. {a[k].agent_id.v : k \in D} = {b[k].agent_id.v : k \in E}
    BY <1>1, <1>2
  <2> QED
    BY <1>4, <2>1
<1>6. ASSUME NEW c \in {"decision", "tool_name"} PROVE U(c) = V(c)
  <2>1. \A k \in D : a[k][c].v = b[k][c].v /\ a[k].agent_id.v = b[k].agent_id.v
    BY <1>2
  <2>2. \A k \in D : countA(c, k) = countB(c, k)
    <3> TAKE k \in D
    <3> HIDE DEF D, E, ofA, ofB
    <3>1. {j \in ofA(a[k].agent_id.v) : a[j][c].v = a[k][c].v}
            = {j \in ofB(b[k].agent_id.v) : b[j][c].v = b[k][c].v}
      BY <1>3, <2>1
    <3> QED
      BY <3>1, SameCardinality
  <2> HIDE DEF D, E, countA, countB
  <2> QED
    BY <1>1, <2>1, <2>2
<1>7. Lite!AgentAnalytics(a, agent)
        = FoldAgentAnalytics(Sorted(X, MostFrequent(X)), U("decision"), U("tool_name"))
  <2>1. Lite!AgentAnalytics(a, agent)
          = Lite!FoldAgentAnalytics(Lite!Sorted(X, MostFrequent(X)), U("decision"), U("tool_name"))
    BY DEF Lite!AgentAnalytics, Lite!OrderBy, Lite!Group, Lite!Groups, MostFrequent
  <2> HIDE DEF X, U
  <2> QED
    BY <2>1, SameSorted, SameFold
<1>8. Pg!AgentAnalytics(b, agent)
        = FoldAgentAnalytics(Sorted(Y, MostFrequent(Y)), V("decision"), V("tool_name"))
  <2>1. Pg!AgentAnalytics(b, agent)
          = Pg!FoldAgentAnalytics(Pg!Sorted(Y, MostFrequent(Y)), V("decision"), V("tool_name"))
    BY DEF Pg!AgentAnalytics, Pg!OrderBy, Pg!Group, Pg!Groups, Pg!TextLess, MostFrequent
  <2> HIDE DEF Y, V
  <2> QED
    BY <2>1, SameSorted, SameFold
<1> HIDE DEF X, Y, U, V
<1> QED
  BY <1>5, <1>6, <1>7, <1>8

-----------------------------------------------------------------------------
(* Every call leaves twins and is answered alike, or is refused.            *)

Alike(u, w) ==
    w.reply = Refused \/ (u.reply = w.reply /\ TwinTables(u.tbl, w.tbl))

\* What a statement leaves: old pairs of rows, and perhaps a new one.
OldOrNew(a, b, u, w, x, y) ==
    /\ DOMAIN u = DOMAIN w
    /\ \A j \in DOMAIN u : \/ j \in DOMAIN a /\ u[j] = a[j] /\ w[j] = b[j]
                           \/ u[j] = x /\ w[j] = y

\* Tables whose rows are old twins or a new pair of twins.
LEMMA TwinsKept ==
    ASSUME NEW a, NEW b, TwinTables(a, b), NEW u, NEW w, NEW x, NEW y,
           OldOrNew(a, b, u, w, x, y), Twins(x, y)
    PROVE  TwinTables(u, w)
BY DEF TwinTables, OldOrNew

\* INSERT: the same key conflicts in both.
LEMMA InsertAlike ==
    ASSUME NEW a, NEW b, TwinTables(a, b), NEW k, NEW x, NEW y, Twins(x, y)
    PROVE  Alike(Lite!Insert(a, k, x), Pg!Insert(b, k, y))
<1>1. CASE k \in DOMAIN a
  BY <1>1 DEF Alike, TwinTables, Lite!Insert, Pg!Insert, Lite!Done, Pg!Done
<1>2. CASE k \notin DOMAIN a
  <2>1. OldOrNew(a, b, Lite!Update(a, k, x), Pg!Update(b, k, y), x, y)
    BY DEF OldOrNew, TwinTables, Lite!Update, Pg!Update
  <2>2. TwinTables(Lite!Update(a, k, x), Pg!Update(b, k, y))
    BY <2>1, TwinsKept
  <2> QED
    BY <1>2, <2>2 DEF Alike, TwinTables, Lite!Insert, Pg!Insert, Lite!Done, Pg!Done
<1> QED
  BY <1>1, <1>2

\* The row an upsert leaves where there was one.
Merged(old, row, keep) == [c \in DOMAIN row |-> IF c \in keep THEN old[c] ELSE row[c]]

\* INSERT ... ON CONFLICT DO UPDATE, which keeps some columns of the old row.
LEMMA UpsertAlike ==
    ASSUME NEW a, NEW b, TwinTables(a, b), NEW k, NEW x, NEW y, NEW keep, Twins(x, y),
           k \in DOMAIN a => Twins(Merged(a[k], x, keep), Merged(b[k], y, keep))
    PROVE  Alike(Lite!Upsert(a, k, x, keep), Pg!Upsert(b, k, y, keep))
<1> DEFINE u == IF k \notin DOMAIN a THEN x ELSE Merged(a[k], x, keep)
           w == IF k \notin DOMAIN b THEN y ELSE Merged(b[k], y, keep)
<1>1. Lite!Upsert(a, k, x, keep) = Lite!Done(Lite!Update(a, k, u), "ok")
  BY DEF Lite!Upsert, Merged
<1>2. Pg!Upsert(b, k, y, keep) = Pg!Done(Pg!Update(b, k, w), "ok")
  BY DEF Pg!Upsert, Merged
<1>3. Twins(u, w)
  BY DEF TwinTables
<1> HIDE DEF u, w
<1>4. OldOrNew(a, b, Lite!Update(a, k, u), Pg!Update(b, k, w), u, w)
  BY DEF OldOrNew, TwinTables, Lite!Update, Pg!Update
<1>5. TwinTables(Lite!Update(a, k, u), Pg!Update(b, k, w))
  BY <1>3, <1>4, TwinsKept
<1> QED
  BY <1>1, <1>2, <1>5 DEF Alike, Lite!Done, Pg!Done

\* An upsert that keeps no column replaces the row.
LEMMA ReplaceAlike ==
    ASSUME NEW a, NEW b, TwinTables(a, b), NEW k, NEW x, NEW y, Twins(x, y),
           x = [c \in DOMAIN x |-> x[c]], y = [c \in DOMAIN y |-> y[c]]
    PROVE  Alike(Lite!Upsert(a, k, x, {}), Pg!Upsert(b, k, y, {}))
<1>1. Merged(a[k], x, {}) = x /\ Merged(b[k], y, {}) = y
  BY DEF Merged
<1> QED
  BY <1>1, UpsertAlike

\* DELETE by key.
LEMMA DeleteAlike ==
    ASSUME NEW a, NEW b, TwinTables(a, b), NEW k
    PROVE  Alike(Lite!DeleteKey(a, k), Pg!DeleteKey(b, k))
BY DEF Alike, TwinTables, Lite!DeleteKey, Pg!DeleteKey, Lite!Done, Pg!Done

\* A prune, given the keys it takes.
LEMMA PruneAlike ==
    ASSUME NEW a, NEW b, TwinTables(a, b), NEW gone
    PROVE  Alike(Lite!Done([k \in DOMAIN a \ gone |-> a[k]], Lite!Cardinality(gone)),
                 Pg!Done([k \in DOMAIN b \ gone |-> b[k]], Pg!Cardinality(gone)))
BY SameCardinality DEF Alike, TwinTables, Lite!Done, Pg!Done

\* A call answered alike keeps the invariant, and so does a refused one.
LEMMA BothKeepTwins ==
    ASSUME table \in Tables, NEW u, NEW w, Both(u, w), refused \/ Alike(u, w)
    PROVE  StoreInv'
<1>1. table' = table /\ lite' = u.tbl /\ pg' = w.tbl
  BY DEF Both
<1>2. CASE refused \/ w.reply = Refused
  BY <1>1, <1>2 DEF Both, StoreInv
<1>3. CASE u.reply = w.reply /\ TwinTables(u.tbl, w.tbl)
  <2>1. sameReply'
    BY <1>3 DEF Both
  <2>2. TwinTables(lite, pg)'
    BY <1>1, <1>3 DEF TwinTables, Twins
  <2> QED
    BY <1>1, <2>1, <2>2 DEF StoreInv
<1> QED
  BY <1>2, <1>3 DEF Alike

\* AuditStore::append.
LEMMA AuditAppended ==
    ASSUME TwinTables(lite, pg), table = "audit", NEW e \in Objects["audit"]
    PROVE  Alike(Lite!AuditAppend(lite, e), Pg!AuditAppend(pg, e))
<1>1. Twins(Lite!AuditRow(e), Pg!AuditRow(e))
  BY StorageAssumption DEF Twins, AuditTwins
<1>2. Alike(Lite!Insert(lite, e.id, Lite!AuditRow(e)), Pg!Insert(pg, e.id,
            Pg!AuditRow(e)))
  BY <1>1, InsertAlike
<1> QED
  BY <1>2 DEF Alike, Lite!AuditAppend, Pg!AuditAppend, Pg!If, Pg!Done

\* ReviewStore::create.
LEMMA ReviewCreated ==
    ASSUME TwinTables(lite, pg), table = "reviews", NEW v \in Objects["reviews"]
    PROVE  Alike(Lite!ReviewCreate(lite, v), Pg!ReviewCreate(pg, v))
<1>1. Twins(Lite!ReviewRow(v), Pg!ReviewRow(v))
  BY DEF Twins, ReviewTwins
<1>2. Alike(Lite!Insert(lite, v.id, Lite!ReviewRow(v)), Pg!Insert(pg, v.id,
            Pg!ReviewRow(v)))
  BY <1>1, InsertAlike
<1> QED
  BY <1>2 DEF Alike, Lite!ReviewCreate, Pg!ReviewCreate, Pg!If, Pg!Done

\* store_key_scoped.
LEMMA KeyStored ==
    ASSUME TwinTables(lite, pg), table = "keys", NEW k, NEW now
    PROVE  Alike(Lite!StoreKeyScoped(lite, k, now), Pg!StoreKeyScoped(pg, k, now))
<1>1. Twins(Lite!KeyRow(k, now), Pg!KeyRow(k, now))
  BY DEF Twins, KeyTwins
<1> QED
  BY <1>1, InsertAlike DEF Lite!StoreKeyScoped, Pg!StoreKeyScoped

\* upsert_profile.
LEMMA ProfileUpserted ==
    ASSUME TwinTables(lite, pg), table = "profiles", NEW p \in Objects["profiles"]
    PROVE  Alike(Lite!UpsertProfile(lite, p), Pg!UpsertProfile(pg, p))
<1>1. Twins(Lite!ProfileRow(p), Pg!ProfileRow(p))
  BY StorageAssumption DEF Twins, ProfileTwins
<1>2. /\ Lite!ProfileRow(p)
           = [col \in DOMAIN Lite!ProfileRow(p) |-> Lite!ProfileRow(p)[col]]
      /\ Pg!ProfileRow(p) = [col \in DOMAIN Pg!ProfileRow(p) |-> Pg!ProfileRow(p)[col]]
  BY DEF Lite!ProfileRow, Pg!ProfileRow
<1>3. Alike(Lite!Upsert(lite, p.agent, Lite!ProfileRow(p), {}), Pg!Upsert(pg, p.agent,
            Pg!ProfileRow(p), {}))
  BY <1>1, <1>2, ReplaceAlike
<1> QED
  BY <1>3 DEF Lite!UpsertProfile, Pg!UpsertProfile, Alike, Pg!If, Pg!Done

\* upsert_workspace.
LEMMA WorkspaceUpserted ==
    ASSUME TwinTables(lite, pg), table = "workspaces", NEW w \in Objects["workspaces"]
    PROVE  Alike(Lite!UpsertWorkspace(lite, w), Pg!UpsertWorkspace(pg, w))
<1>1. Twins(Lite!WorkspaceRow(w), Pg!WorkspaceRow(w))
  BY StorageAssumption DEF Twins, WorkspaceTwins
<1>2. /\ Lite!WorkspaceRow(w)
           = [col \in DOMAIN Lite!WorkspaceRow(w) |-> Lite!WorkspaceRow(w)[col]]
      /\ Pg!WorkspaceRow(w)
           = [col \in DOMAIN Pg!WorkspaceRow(w) |-> Pg!WorkspaceRow(w)[col]]
  BY DEF Lite!WorkspaceRow, Pg!WorkspaceRow
<1>3. Alike(Lite!Upsert(lite, w.ws, Lite!WorkspaceRow(w), {}), Pg!Upsert(pg, w.ws,
            Pg!WorkspaceRow(w), {}))
  BY <1>1, <1>2, ReplaceAlike
<1> QED
  BY <1>3 DEF Lite!UpsertWorkspace, Pg!UpsertWorkspace, Alike, Pg!If, Pg!Done

\* upsert_workspace_rule.
LEMMA RuleUpserted ==
    ASSUME TwinTables(lite, pg), table = "rules", NEW r \in Objects["rules"]
    PROVE  Alike(Lite!UpsertWorkspaceRule(lite, r), Pg!UpsertWorkspaceRule(pg, r))
<1>1. Twins(Lite!RuleRow(r), Pg!RuleRow(r))
  BY StorageAssumption DEF Twins, RuleTwins
<1>2. /\ Lite!RuleRow(r) = [col \in DOMAIN Lite!RuleRow(r) |-> Lite!RuleRow(r)[col]]
      /\ Pg!RuleRow(r) = [col \in DOMAIN Pg!RuleRow(r) |-> Pg!RuleRow(r)[col]]
  BY DEF Lite!RuleRow, Pg!RuleRow
<1>3. Alike(Lite!Upsert(lite, r.id, Lite!RuleRow(r), {}), Pg!Upsert(pg, r.id,
            Pg!RuleRow(r), {}))
  BY <1>1, <1>2, ReplaceAlike
<1> QED
  BY <1>3 DEF Lite!UpsertWorkspaceRule, Pg!UpsertWorkspaceRule

\* store_challenge.
LEMMA ChallengeStored ==
    ASSUME TwinTables(lite, pg), table = "challenges", NEW c \in Objects["challenges"]
    PROVE  Alike(Lite!StoreChallenge(lite, c), Pg!StoreChallenge(pg, c))
<1>1. Twins(Lite!ChallengeRow(c), Pg!ChallengeRow(c))
  BY StorageAssumption DEF Twins, ChallengeTwins
<1>2. /\ Lite!ChallengeRow(c)
           = [col \in DOMAIN Lite!ChallengeRow(c) |-> Lite!ChallengeRow(c)[col]]
      /\ Pg!ChallengeRow(c)
           = [col \in DOMAIN Pg!ChallengeRow(c) |-> Pg!ChallengeRow(c)[col]]
  BY DEF Lite!ChallengeRow, Pg!ChallengeRow
<1>3. Alike(Lite!Upsert(lite, c.id, Lite!ChallengeRow(c), {}), Pg!Upsert(pg, c.id,
            Pg!ChallengeRow(c), {}))
  BY <1>1, <1>2, ReplaceAlike
<1> QED
  BY <1>3 DEF Lite!StoreChallenge, Pg!StoreChallenge

\* update_session_taint.
LEMMA TaintUpdated ==
    ASSUME TwinTables(lite, pg), table = "taint", NEW id, NEW labels, NEW now
    PROVE  Alike(Lite!UpdateSessionTaint(lite, id, labels, now),
                 Pg!UpdateSessionTaint(pg, id, labels, now))
<1>1. Twins(Lite!TaintRow(labels, now), Pg!TaintRow(labels, now))
  BY StorageAssumption DEF Twins, TaintTwins
<1>2. /\ Lite!TaintRow(labels, now)
           = [col \in DOMAIN Lite!TaintRow(labels, now) |-> Lite!TaintRow(labels, now)[col]]
      /\ Pg!TaintRow(labels, now)
           = [col \in DOMAIN Pg!TaintRow(labels, now) |-> Pg!TaintRow(labels, now)[col]]
  BY DEF Lite!TaintRow, Pg!TaintRow
<1>3. Alike(Lite!Upsert(lite, id, Lite!TaintRow(labels, now), {}), Pg!Upsert(pg, id,
            Pg!TaintRow(labels, now), {}))
  BY <1>1, <1>2, ReplaceAlike
<1> QED
  BY <1>3 DEF Lite!UpdateSessionTaint, Pg!UpdateSessionTaint

\* save_config.
LEMMA ConfigSaved ==
    ASSUME TwinTables(lite, pg), table = "limits", NEW c \in Objects["limits"]
    PROVE  Alike(Lite!SaveConfig(lite, c), Pg!SaveConfig(pg, c))
<1>1. Twins(Lite!LimitsRow(c), Pg!LimitsRow(c))
  BY StorageAssumption DEF Twins, LimitsTwins
<1>2. /\ Lite!LimitsRow(c)
           = [col \in DOMAIN Lite!LimitsRow(c) |-> Lite!LimitsRow(c)[col]]
      /\ Pg!LimitsRow(c) = [col \in DOMAIN Pg!LimitsRow(c) |-> Pg!LimitsRow(c)[col]]
  BY DEF Lite!LimitsRow, Pg!LimitsRow
<1>3. Alike(Lite!Upsert(lite, 1, Lite!LimitsRow(c), {}), Pg!Upsert(pg, 1,
            Pg!LimitsRow(c), {}))
  BY <1>1, <1>2, ReplaceAlike
<1> QED
  BY <1>3 DEF Lite!SaveConfig, Pg!SaveConfig

\* store_identity: a second store keeps the time of the first in both.
LEMMA IdentityStored ==
    ASSUME TwinTables(lite, pg), table = "identities", NEW i \in Objects["identities"]
    PROVE  Alike(Lite!StoreIdentity(lite, i), Pg!StoreIdentity(pg, i))
<1> DEFINE keep == {"created_at", "agent_id"}
<1>1. Twins(Lite!IdentityRow(i), Pg!IdentityRow(i))
  BY StorageAssumption DEF Twins, IdentityTwins
<1>2. ASSUME i.agent \in DOMAIN lite
      PROVE  Twins(Merged(lite[i.agent], Lite!IdentityRow(i), keep),
                   Merged(pg[i.agent], Pg!IdentityRow(i), keep))
  <2>1. IdentityTwins(lite[i.agent], pg[i.agent])
    BY <1>2 DEF TwinTables, Twins
  <2>2. PICK o : /\ o.at = Micros(o.at.at)
                 /\ lite[i.agent] = Lite!IdentityRow(o)
                 /\ pg[i.agent] = Pg!IdentityRow(o)
    BY <2>1 DEF IdentityTwins
  <2> DEFINE n == [agent |-> o.agent, secret |-> i.secret, trust |-> i.trust, caps |-> i.caps,
                 at |-> o.at]
  <2>3. Merged(lite[i.agent], Lite!IdentityRow(i), keep) = Lite!IdentityRow(n)
    BY <2>2 DEF Merged, Lite!IdentityRow
  <2>4. Merged(pg[i.agent], Pg!IdentityRow(i), keep) = Pg!IdentityRow(n)
    BY <2>2 DEF Merged, Pg!IdentityRow
  <2>5. IdentityTwins(Merged(lite[i.agent], Lite!IdentityRow(i), keep),
                      Merged(pg[i.agent], Pg!IdentityRow(i), keep))
    BY <2>2, <2>3, <2>4, StorageAssumption DEF IdentityTwins
  <2> QED
    BY <2>5 DEF Twins
<1>3. Alike(Lite!Upsert(lite, i.agent, Lite!IdentityRow(i), keep), Pg!Upsert(pg, i.agent,
            Pg!IdentityRow(i), keep))
  <2> HIDE DEF keep
  <2> QED
    BY <1>1, <1>2, UpsertAlike
<1> QED
  BY <1>3 DEF Lite!StoreIdentity, Pg!StoreIdentity

\* store_capability_token.
LEMMA TokenStored ==
    ASSUME TwinTables(lite, pg), table = "tokens", NEW t \in Objects["tokens"]
    PROVE  Alike(Lite!StoreCapabilityToken(lite, t), Pg!StoreCapabilityToken(pg, t))
<1> DEFINE keep == {"token_id", "agent_id", "caps", "issued_at", "expires_at"}
<1>1. Twins(Lite!TokenRow(t), Pg!TokenRow(t))
  BY StorageAssumption DEF Twins, TokenTwins
<1>2. ASSUME t.id \in DOMAIN lite
      PROVE  Twins(Merged(lite[t.id], Lite!TokenRow(t), keep),
                   Merged(pg[t.id], Pg!TokenRow(t), keep))
  <2>1. TokenTwins(lite[t.id], pg[t.id])
    BY <1>2 DEF TwinTables, Twins
  <2>2. PICK o : /\ o.issued = Micros(o.issued.at)
                 /\ o.exp = Micros(o.exp.at)
                 /\ lite[t.id] = Lite!TokenRow(o)
                 /\ pg[t.id] = Pg!TokenRow(o)
    BY <2>1 DEF TokenTwins
  <2> DEFINE n == [id |-> o.id, agent |-> o.agent, caps |-> o.caps, issued |-> o.issued,
                 exp |-> o.exp, valid |-> t.valid]
  <2>3. Merged(lite[t.id], Lite!TokenRow(t), keep) = Lite!TokenRow(n)
    BY <2>2 DEF Merged, Lite!TokenRow
  <2>4. Merged(pg[t.id], Pg!TokenRow(t), keep) = Pg!TokenRow(n)
    BY <2>2 DEF Merged, Pg!TokenRow
  <2>5. TokenTwins(Merged(lite[t.id], Lite!TokenRow(t), keep),
                   Merged(pg[t.id], Pg!TokenRow(t), keep))
    BY <2>2, <2>3, <2>4, StorageAssumption DEF TokenTwins
  <2> QED
    BY <2>5 DEF Twins
<1>3. Alike(Lite!Upsert(lite, t.id, Lite!TokenRow(t), keep), Pg!Upsert(pg, t.id,
            Pg!TokenRow(t), keep))
  <2> HIDE DEF keep
  <2> QED
    BY <1>1, <1>2, UpsertAlike
<1> QED
  BY <1>3 DEF Lite!StoreCapabilityToken, Pg!StoreCapabilityToken

\* store_session.
LEMMA SessionStored ==
    ASSUME TwinTables(lite, pg), table = "sessions", NEW s \in Objects["sessions"]
    PROVE  Alike(Lite!StoreSession(lite, s), Pg!StoreSession(pg, s))
<1> DEFINE keep == {"created_at", "session_id"}
<1>1. Twins(Lite!SessionRow(s), Pg!SessionRow(s))
  BY StorageAssumption DEF Twins, SessionTwins
<1>2. ASSUME s.id \in DOMAIN lite
      PROVE  Twins(Merged(lite[s.id], Lite!SessionRow(s), keep),
                   Merged(pg[s.id], Pg!SessionRow(s), keep))
  <2>1. SessionTwins(lite[s.id], pg[s.id])
    BY <1>2 DEF TwinTables, Twins
  <2>2. PICK o : lite[s.id] = Lite!SessionRow(o) /\ pg[s.id] = Pg!SessionRow(o)
    BY <2>1 DEF SessionTwins
  <2> DEFINE n == [id |-> o.id, state |-> s.state, blocked |-> s.blocked, count |-> s.count,
                 nodes |-> s.nodes, made |-> o.made, last |-> s.last]
  <2>3. Merged(lite[s.id], Lite!SessionRow(s), keep) = Lite!SessionRow(n)
    BY <2>2 DEF Merged, Lite!SessionRow
  <2>4. Merged(pg[s.id], Pg!SessionRow(s), keep) = Pg!SessionRow(n)
    BY <2>2 DEF Merged, Pg!SessionRow
  <2>5. SessionTwins(Merged(lite[s.id], Lite!SessionRow(s), keep),
                     Merged(pg[s.id], Pg!SessionRow(s), keep))
    BY <2>2, <2>3, <2>4, StorageAssumption DEF SessionTwins
  <2> QED
    BY <2>5 DEF Twins
<1>3. Alike(Lite!Upsert(lite, s.id, Lite!SessionRow(s), keep), Pg!Upsert(pg, s.id,
            Pg!SessionRow(s), keep))
  <2> HIDE DEF keep
  <2> QED
    BY <1>1, <1>2, UpsertAlike
<1> QED
  BY <1>3 DEF Lite!StoreSession, Pg!StoreSession

\* upsert_fingerprint.
LEMMA FingerprintUpserted ==
    ASSUME TwinTables(lite, pg), table = "fingerprints", NEW f \in Objects["fingerprints"]
    PROVE  Alike(Lite!UpsertFingerprint(lite, f), Pg!UpsertFingerprint(pg, f))
<1> DEFINE keep == {"agent_id"}
<1>1. Twins(Lite!FingerprintRow(f), Pg!FingerprintRow(f))
  BY StorageAssumption DEF Twins, FingerprintTwins
<1>2. ASSUME f.agent \in DOMAIN lite
      PROVE  Twins(Merged(lite[f.agent], Lite!FingerprintRow(f), keep),
                   Merged(pg[f.agent], Pg!FingerprintRow(f), keep))
  <2>1. FingerprintTwins(lite[f.agent], pg[f.agent])
    BY <1>2 DEF TwinTables, Twins
  <2>2. PICK o : /\ lite[f.agent] = Lite!FingerprintRow(o)
                 /\ pg[f.agent] = Pg!FingerprintRow(o)
    BY <2>1 DEF FingerprintTwins
  <2> DEFINE n == [agent |-> o.agent, total |-> f.total, hourly |-> f.hourly, risk |-> f.risk,
                 last |-> f.last]
  <2>3. Merged(lite[f.agent], Lite!FingerprintRow(f), keep) = Lite!FingerprintRow(n)
    BY <2>2 DEF Merged, Lite!FingerprintRow
  <2>4. Merged(pg[f.agent], Pg!FingerprintRow(f), keep) = Pg!FingerprintRow(n)
    BY <2>2 DEF Merged, Pg!FingerprintRow
  <2>5. FingerprintTwins(Merged(lite[f.agent], Lite!FingerprintRow(f), keep),
                         Merged(pg[f.agent], Pg!FingerprintRow(f), keep))
    BY <2>2, <2>3, <2>4, StorageAssumption DEF FingerprintTwins
  <2> QED
    BY <2>5 DEF Twins
<1>3. Alike(Lite!Upsert(lite, f.agent, Lite!FingerprintRow(f), keep), Pg!Upsert(pg, f.agent,
            Pg!FingerprintRow(f), keep))
  <2> HIDE DEF keep
  <2> QED
    BY <1>1, <1>2, UpsertAlike
<1> QED
  BY <1>3 DEF Lite!UpsertFingerprint, Pg!UpsertFingerprint

\* prune_expired: the same challenges have run out.
LEMMA ChallengesPruned ==
    ASSUME TwinTables(lite, pg), table = "challenges", NEW now
    PROVE  Alike(Lite!PruneExpiredChallenges(lite, now),
                 Pg!PruneExpiredChallenges(pg, now))
<1> DEFINE X == {k \in DOMAIN lite : lite[k].expires_at.v < now}
           Y == {k \in DOMAIN pg : pg[k].expires_at.v < now}
<1>1. X = Y
  BY ChallengeTwin DEF TwinTables, Twins
<1>2. /\ Lite!PruneExpiredChallenges(lite, now)
           = Lite!Done([k \in DOMAIN lite \ X |-> lite[k]], Lite!Cardinality(X))
      /\ Pg!PruneExpiredChallenges(pg, now)
           = Pg!Done([k \in DOMAIN pg \ Y |-> pg[k]], Pg!Cardinality(Y))
  BY DEF Lite!PruneExpiredChallenges, Pg!PruneExpiredChallenges, Lite!DeleteWhere, Pg!DeleteWhere
<1> HIDE DEF X, Y
<1> QED
  BY <1>1, <1>2, PruneAlike

\* The same tokens have run out.
LEMMA TokensPruned ==
    ASSUME TwinTables(lite, pg), table = "tokens", NEW now
    PROVE  Alike(Lite!PruneExpiredCapabilityTokens(lite, now),
                 Pg!PruneExpiredCapabilityTokens(pg, now))
<1> DEFINE X == {k \in DOMAIN lite : lite[k].expires_at.v.at < now}
           Y == {k \in DOMAIN pg : pg[k].expires_at.v < now}
<1>1. X = Y
  BY TokenTwin DEF TwinTables, Twins
<1>2. /\ Lite!PruneExpiredCapabilityTokens(lite, now)
           = Lite!Done([k \in DOMAIN lite \ X |-> lite[k]], Lite!Cardinality(X))
      /\ Pg!PruneExpiredCapabilityTokens(pg, now)
           = Pg!Done([k \in DOMAIN pg \ Y |-> pg[k]], Pg!Cardinality(Y))
  BY DEF Lite!PruneExpiredCapabilityTokens, Pg!PruneExpiredCapabilityTokens, Lite!DeleteWhere, Pg!DeleteWhere
<1> HIDE DEF X, Y
<1> QED
  BY <1>1, <1>2, PruneAlike

\* The same sessions are stale.
LEMMA SessionsPruned ==
    ASSUME TwinTables(lite, pg), table = "sessions", NEW now, NEW age
    PROVE  Alike(Lite!PruneStaleSessions(lite, now, age),
                 Pg!PruneStaleSessions(pg, now, age))
<1> DEFINE X == {k \in DOMAIN lite : lite[k].last_activity.v < now - age}
           Y == {k \in DOMAIN pg : pg[k].last_activity.v < now - age}
<1>1. X = Y
  BY SessionTwin DEF TwinTables, Twins
<1>2. /\ Lite!PruneStaleSessions(lite, now, age)
           = Lite!Done([k \in DOMAIN lite \ X |-> lite[k]], Lite!Cardinality(X))
      /\ Pg!PruneStaleSessions(pg, now, age)
           = Pg!Done([k \in DOMAIN pg \ Y |-> pg[k]], Pg!Cardinality(Y))
  BY DEF Lite!PruneStaleSessions, Pg!PruneStaleSessions, Lite!DeleteWhere, Pg!DeleteWhere
<1> HIDE DEF X, Y
<1> QED
  BY <1>1, <1>2, PruneAlike

\* The same labels are stale.
LEMMA TaintPruned ==
    ASSUME TwinTables(lite, pg), table = "taint", NEW now, NEW age
    PROVE  Alike(Lite!PruneStaleTaint(lite, now, age), Pg!PruneStaleTaint(pg, now, age))
<1> DEFINE X == {k \in DOMAIN lite : lite[k].updated_at.v < now - age}
           Y == {k \in DOMAIN pg : pg[k].updated_at.v < now - age}
<1>1. X = Y
  BY TaintTwin DEF TwinTables, Twins
<1>2. /\ Lite!PruneStaleTaint(lite, now, age)
           = Lite!Done([k \in DOMAIN lite \ X |-> lite[k]], Lite!Cardinality(X))
      /\ Pg!PruneStaleTaint(pg, now, age)
           = Pg!Done([k \in DOMAIN pg \ Y |-> pg[k]], Pg!Cardinality(Y))
  BY DEF Lite!PruneStaleTaint, Pg!PruneStaleTaint, Lite!DeleteWhere, Pg!DeleteWhere
<1> HIDE DEF X, Y
<1> QED
  BY <1>1, <1>2, PruneAlike

\* One column of one row is set.
LEMMA StatusUpdated ==
    ASSUME TwinTables(lite, pg), table = "reviews", NEW id, NEW status
    PROVE  Alike(Lite!ReviewUpdateStatus(lite, id, status),
                 Pg!ReviewUpdateStatus(pg, id, status))
<1> DEFINE u == [lite EXCEPT ![id].status = Lite!Text(status)]
           w == [pg EXCEPT ![id].status = Pg!Text(status)]
<1>1. id \in DOMAIN lite => (lite[id].status.v = "pending" <=> pg[id].status.v = "pending")
  BY ReviewTwin DEF TwinTables, Twins
<1>2. CASE id \in DOMAIN lite /\ lite[id].status.v = "pending"
  <2>1. PICK o : lite[id] = Lite!ReviewRow(o) /\ pg[id] = Pg!ReviewRow(o)
    BY <1>2 DEF TwinTables, Twins, ReviewTwins
  <2> DEFINE n == [id |-> o.id, status |-> status, risk |-> o.risk, at |-> o.at]
  <2>2. /\ [lite[id] EXCEPT !.status = Lite!Text(status)] = Lite!ReviewRow(n)
        /\ [pg[id] EXCEPT !.status = Pg!Text(status)] = Pg!ReviewRow(n)
    BY <2>1 DEF Lite!ReviewRow, Pg!ReviewRow
  <2>3. Twins(Lite!ReviewRow(n), Pg!ReviewRow(n))
    BY DEF Twins, ReviewTwins
  <2>4. OldOrNew(lite, pg, u, w, Lite!ReviewRow(n), Pg!ReviewRow(n))
    BY <2>2 DEF OldOrNew, TwinTables
  <2> HIDE DEF u, w
  <2>5. TwinTables(u, w)
    BY <2>3, <2>4, TwinsKept
  <2>6. Lite!ReviewGet(u, id) = Pg!ReviewGet(w, id)
    BY <2>5, RowsRead
  <2>7. /\ Lite!ReviewUpdateStatus(lite, id, status) = Lite!Done(u, Lite!ReviewGet(u, id))
        /\ Pg!ReviewUpdateStatus(pg, id, status) = Pg!Done(w, Pg!ReviewGet(w, id))
    BY <1>1, <1>2 DEF TwinTables, u, w, Lite!ReviewUpdateStatus, Pg!ReviewUpdateStatus
  <2> QED
    BY <2>5, <2>6, <2>7 DEF Alike, Lite!Done, Pg!Done
<1>3. CASE ~(id \in DOMAIN lite /\ lite[id].status.v = "pending")
  BY <1>1, <1>3 DEF Alike, TwinTables, Lite!ReviewUpdateStatus, Pg!ReviewUpdateStatus,
     Lite!Done, Pg!Done
<1> QED
  BY <1>2, <1>3

\* update_trust.
LEMMA TrustUpdated ==
    ASSUME TwinTables(lite, pg), table = "identities", NEW id, NEW trust
    PROVE  Alike(Lite!UpdateTrust(lite, id, trust), Pg!UpdateTrust(pg, id, trust))
<1> DEFINE u == [lite EXCEPT ![id].trust_score = Lite!Real(trust)]
           w == [pg EXCEPT ![id].trust_score = Pg!Real(trust)]
<1>1. CASE id \in DOMAIN lite
  <2>1. PICK o : /\ o.at = Micros(o.at.at)
                 /\ lite[id] = Lite!IdentityRow(o) /\ pg[id] = Pg!IdentityRow(o)
    BY <1>1 DEF TwinTables, Twins, IdentityTwins
  <2> DEFINE n == [agent |-> o.agent, secret |-> o.secret, trust |-> trust,
                   caps |-> o.caps, at |-> o.at]
  <2>2. /\ [lite[id] EXCEPT !.trust_score = Lite!Real(trust)] = Lite!IdentityRow(n)
        /\ [pg[id] EXCEPT !.trust_score = Pg!Real(trust)] = Pg!IdentityRow(n)
    BY <2>1 DEF Lite!IdentityRow, Pg!IdentityRow
  <2>3. Twins(Lite!IdentityRow(n), Pg!IdentityRow(n))
    BY <2>1 DEF Twins, IdentityTwins
  <2>4. OldOrNew(lite, pg, u, w, Lite!IdentityRow(n), Pg!IdentityRow(n))
    BY <2>2 DEF OldOrNew, TwinTables
  <2> HIDE DEF u, w
  <2>5. TwinTables(u, w)
    BY <2>3, <2>4, TwinsKept
  <2> QED
    BY <1>1, <2>5
       DEF u, w, Alike, TwinTables, Lite!UpdateTrust, Pg!UpdateTrust, Lite!Done, Pg!Done
<1>2. CASE id \notin DOMAIN lite
  BY <1>2 DEF Alike, TwinTables, Lite!UpdateTrust, Pg!UpdateTrust, Lite!Done, Pg!Done
<1> QED
  BY <1>1, <1>2

\* revoke_capability_token.
LEMMA TokenRevoked ==
    ASSUME TwinTables(lite, pg), table = "tokens", NEW id
    PROVE  Alike(Lite!RevokeCapabilityToken(lite, id), Pg!RevokeCapabilityToken(pg, id))
<1> DEFINE u == [lite EXCEPT ![id].valid = Lite!Flag(FALSE)]
           w == [pg EXCEPT ![id].valid = Pg!Flag(FALSE)]
<1>1. CASE id \in DOMAIN lite
  <2>1. PICK o : /\ o.issued = Micros(o.issued.at) /\ o.exp = Micros(o.exp.at)
                 /\ lite[id] = Lite!TokenRow(o) /\ pg[id] = Pg!TokenRow(o)
    BY <1>1 DEF TwinTables, Twins, TokenTwins
  <2>2. PICK no \in BOOLEAN : no = FALSE
    OBVIOUS
  <2> DEFINE n == [id |-> o.id, agent |-> o.agent, caps |-> o.caps, issued |-> o.issued,
                   exp |-> o.exp, valid |-> no]
  <2>3. /\ [lite[id] EXCEPT !.valid = Lite!Flag(no)] = Lite!TokenRow(n)
        /\ [pg[id] EXCEPT !.valid = Pg!Flag(no)] = Pg!TokenRow(n)
    BY <2>1 DEF Lite!TokenRow, Pg!TokenRow
  <2>4. Twins(Lite!TokenRow(n), Pg!TokenRow(n))
    BY <2>1, <2>2 DEF Twins, TokenTwins
  <2>5. OldOrNew(lite, pg, u, w, Lite!TokenRow(n), Pg!TokenRow(n))
    <3>1. Lite!Flag(no) = Lite!Flag(FALSE) /\ Pg!Flag(no) = Pg!Flag(FALSE)
      BY <2>2
    <3> HIDE DEF n
    <3> QED
      BY <2>3, <3>1 DEF OldOrNew, TwinTables
  <2> HIDE DEF u, w
  <2>6. TwinTables(u, w)
    BY <2>4, <2>5, TwinsKept
  <2> QED
    BY <1>1, <2>6 DEF u, w, Alike, TwinTables, Lite!RevokeCapabilityToken,
       Pg!RevokeCapabilityToken, Lite!Done, Pg!Done
<1>2. CASE id \notin DOMAIN lite
  BY <1>2 DEF Alike, TwinTables, Lite!RevokeCapabilityToken, Pg!RevokeCapabilityToken,
     Lite!Done, Pg!Done
<1> QED
  BY <1>1, <1>2

\* The delete methods, which are all the same statement.
LEMMA RowsDeleted ==
    ASSUME TwinTables(lite, pg), NEW k
    PROVE  /\ Alike(Lite!DeleteProfile(lite, k), Pg!DeleteProfile(pg, k))
           /\ Alike(Lite!DeleteWorkspace(lite, k), Pg!DeleteWorkspace(pg, k))
           /\ Alike(Lite!DeleteApiKeyRow(lite, k), Pg!DeleteApiKeyRow(pg, k))
           /\ Alike(Lite!DeleteChallenge(lite, k), Pg!DeleteChallenge(pg, k))
           /\ Alike(Lite!DeleteSession(lite, k), Pg!DeleteSession(pg, k))
           /\ Alike(Lite!DeleteFingerprint(lite, k), Pg!DeleteFingerprint(pg, k))
BY DeleteAlike DEF Lite!DeleteProfile, Pg!DeleteProfile, Lite!DeleteWorkspace,
   Pg!DeleteWorkspace, Lite!DeleteApiKeyRow, Pg!DeleteApiKeyRow, Lite!DeleteChallenge,
   Pg!DeleteChallenge, Lite!DeleteSession, Pg!DeleteSession, Lite!DeleteFingerprint,
   Pg!DeleteFingerprint

\* Empty databases.
LEMMA StoreInit_Twins == StoreInit => StoreInv
BY DEF StoreInit, StoreInv, TwinTables, Tables

\* One step per trait, one call of it at a time.
LEMMA StoreStep ==
    ASSUME StoreInv, [StoreNext]_storeVars
    PROVE  StoreInv'
<1> table \in Tables
  BY DEF StoreInv
<1>1. refused \/ TwinTables(lite, pg)
  BY DEF StoreInv
<1>2. CASE AuditCalls
  BY <1>1, <1>2, AuditAppended, BothKeepTwins DEF AuditCalls
<1>3. CASE ReviewCalls
  BY <1>1, <1>3, ReviewCreated, StatusUpdated, BothKeepTwins DEF ReviewCalls
<1>4. CASE PolicyCalls
  <2>1. CASE table = "profiles"
    BY <1>1, <1>4, <2>1, ProfileUpserted, RowsDeleted, BothKeepTwins DEF PolicyCalls
  <2>2. CASE table = "workspaces"
    BY <1>1, <1>4, <2>2, WorkspaceUpserted, RowsDeleted, BothKeepTwins DEF PolicyCalls
  <2>3. CASE table = "rules"
    BY <1>1, <1>4, <2>3, RuleUpserted, BothKeepTwins DEF PolicyCalls
  <2> QED
    BY <1>4, <2>1, <2>2, <2>3 DEF PolicyCalls
<1>5. CASE KeyCalls
  BY <1>1, <1>5, KeyStored, RowsDeleted, BothKeepTwins DEF KeyCalls
<1>6. CASE NhiCalls
  <2>1. CASE table = "identities"
    BY <1>1, <1>6, <2>1, IdentityStored, TrustUpdated, BothKeepTwins DEF NhiCalls
  <2>2. CASE table = "challenges"
    BY <1>1, <1>6, <2>2, ChallengeStored, ChallengesPruned, RowsDeleted, BothKeepTwins
       DEF NhiCalls
  <2>3. CASE table = "tokens"
    BY <1>1, <1>6, <2>3, TokenStored, TokenRevoked, TokensPruned, BothKeepTwins
       DEF NhiCalls
  <2> QED
    BY <1>6, <2>1, <2>2, <2>3 DEF NhiCalls
<1>7. CASE SessionCalls
  <2>1. CASE table = "sessions"
    BY <1>1, <1>7, <2>1, SessionStored, SessionsPruned, RowsDeleted, BothKeepTwins
       DEF SessionCalls
  <2>2. CASE table = "taint"
    BY <1>1, <1>7, <2>2, TaintUpdated, TaintPruned, BothKeepTwins DEF SessionCalls
  <2>3. CASE table = "fingerprints"
    BY <1>1, <1>7, <2>3, FingerprintUpserted, RowsDeleted, BothKeepTwins
       DEF SessionCalls
  <2>4. CASE table = "limits"
    BY <1>1, <1>7, <2>4, ConfigSaved, BothKeepTwins DEF SessionCalls
  <2> QED
    BY <1>7, <2>1, <2>2, <2>3, <2>4 DEF SessionCalls
<1>8. CASE UNCHANGED storeVars
  BY <1>8 DEF storeVars, StoreInv, TwinTables, Twins
<1> QED
  BY <1>2, <1>3, <1>4, <1>5, <1>6, <1>7, <1>8 DEF StoreNext

\* Rows, lookups, sums and unordered listings of twins.
LEMMA TwinRows ==
    ASSUME table \in Tables, TwinTables(lite, pg)
    PROVE  RowsAgree
<1> USE DEF RowsAgree
<1> DOMAIN lite = DOMAIN pg /\ \A k \in DOMAIN lite : Twins(lite[k], pg[k])
  BY DEF TwinTables
<1>1. CASE table = "audit"
  <2>1. AuditTables(lite, pg)
    BY <1>1, AuditTwin DEF AuditTables, Twins
  <2>2. SameRows(Lite!IntoStored, Pg!IntoStored)
    BY <2>1 DEF AuditTables, SameColumns, SameRows
  <2>3. AuditSumsAgree
    BY <2>1, <2>2, CostsSummed, CostsOverTime DEF AuditSumsAgree
  <2> QED
    BY <1>1, <2>3
<1>2. CASE table \in {"reviews", "profiles", "workspaces", "taint", "limits"}
  BY <1>2, RowsRead
<1>3. CASE table = "rules"
  BY <1>3, RowsListed DEF SameRows
<1>4. CASE table = "keys"
  BY <1>4, RowsListed
<1>5. CASE table = "identities"
  BY <1>5, RowsListed DEF SameRows
<1>6. CASE table \in {"challenges", "tokens"}
  BY <1>6, RowsListed DEF SameRows
<1>7. CASE table \in {"sessions", "fingerprints"}
  BY <1>7, RowsListed
<1> QED
  BY <1>1, <1>2, <1>3, <1>4, <1>5, <1>6, <1>7 DEF Tables

\* Listings of twins where PostgreSQL compares texts by their bytes.
LEMMA TwinOrder ==
    ASSUME collation = "C", TwinTables(lite, pg)
    PROVE  OrderAgrees
<1> DOMAIN lite = DOMAIN pg /\ \A k \in DOMAIN lite : Twins(lite[k], pg[k])
  BY DEF TwinTables
<1>1. ASSUME table = "audit" PROVE AuditOrderAgrees
  <2>1. AuditTables(lite, pg)
    BY <1>1, AuditTwin DEF AuditTables, Twins
  <2> QED
    BY <2>1, AuditLists, CostsByColumn, StatsAgree, AnalyticsAgree DEF AuditOrderAgrees
<1>2. table = "reviews" => Lite!ReviewList(lite) = Pg!ReviewList(pg)
  BY ReviewListed DEF Twins
<1>3. table = "profiles" => Lite!ListProfiles(lite) = Pg!ListProfiles(pg)
  BY ProfileListed DEF Twins
<1>4. table = "workspaces" => Lite!ListWorkspaces(lite) = Pg!ListWorkspaces(pg)
  BY WorkspaceListed DEF Twins
<1>5. table = "rules" =>
        \A ws : Lite!ListWorkspaceRules(lite, ws) = Pg!ListWorkspaceRules(pg, ws)
  BY RuleListed DEF Twins
<1>6. table = "identities" => Lite!ListIdentities(lite) = Pg!ListIdentities(pg)
  BY IdentityListed DEF Twins
<1>7. table = "tokens" => Lite!ListCapabilityTokens(lite) = Pg!ListCapabilityTokens(pg)
  BY TokenListed DEF Twins
<1> QED
  BY <1>1, <1>2, <1>3, <1>4, <1>5, <1>6, <1>7 DEF OrderAgrees

\* Twins are read alike by every query of every trait.
LEMMA TwinsAgree == StoreInv => BackendsAgree
BY TwinRows, TwinOrder DEF StoreInv, BackendsAgree

\* storage/traits.rs over sqlite.rs and postgres.rs: whatever calls are made, and in
\* whatever order, both databases hold rows of the same objects under the same keys
\* and have given the last call the same answer, until PostgreSQL has refused a row
\* for a tenant it does not know or a number that does not fit an INTEGER.
THEOREM TwinStores == StoreSpec => []StoreInv
BY StoreInit_Twins, StoreStep, PTL DEF StoreSpec

\* A server that is moved from SQLite to PostgreSQL, and whose rows PostgreSQL takes:
\* every lookup, sum, cost report and prune of the storage traits gives the same
\* result, under every collation; every listing, ranking and limit too when the
\* database compares texts by their bytes, but for the times and the order of the
\* API keys.  For any objects, filters, times and numbers of calls.
THEOREM BackendsAlwaysAgree == StoreSpec => []BackendsAgree
BY TwinStores, TwinsAgree, PTL
=============================================================================
