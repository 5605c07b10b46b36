---------------------------- MODULE AccessProofs ----------------------------
(***************************************************************************)
(* Safety of KeyCache and Identity for any number of keys, callers, agents *)
(* and tokens, and for every TTL.  Both are about something that was true  *)
(* when it was read and is used later: the inductive invariants follow the *)
(* proof of it, a row that existed, a table seen empty, a signature, from  *)
(* the read to the use.                                                    *)
(***************************************************************************)
EXTENDS KeyCache, Identity, Integers, TLAPS

-----------------------------------------------------------------------------
(* KeyCache: the inductive invariant.                                      *)

Phases == {"idle", "list", "none", "some", "lookup", "verify", "verified", "recheck",
           "freshEmpty", "freshSome", "key", "open"}
Requests == [pc : Phases, tok : RawKeys \cup {NoToken}, id : SUBSET KeyIds, at : Nat, late : BOOLEAN]

\* A row for k existed, and was not deleted more than slack before t.
Backed(k, t, slack) == \E i \in KeyIds : KeyOf[i] = k /\ Ever(i) /\ goneAt[i] + slack >= t
NoSlack == 0
FullSlack == TTL + MaxFlight

TableInv ==
    /\ openMode \in BOOLEAN
    /\ authClock \in 0..MaxAuthClock
    /\ keyRows \subseteq KeyIds /\ booting \subseteq KeyIds /\ keyRows \cap booting = {}
    /\ goneAt \in [KeyIds -> Nat]
    /\ \A i \in keyRows \cup booting : goneAt[i] = Never
    /\ lastEmpty \in 0..authClock
    /\ authReq \in [Callers -> Requests]

\* A cached key was backed at most MaxFlight before it was cached.
CacheInv == \A k \in DOMAIN keyCache : /\ keyCache[k].at \in 0..authClock
                                       /\ Backed(k, keyCache[k].at, MaxFlight)

\* The flag says "no keys" at most MaxFlight after the table was seen empty.
FlagInv == \A f \in keysFlag : /\ f.at \in 0..authClock
                               /\ ~f.value => lastEmpty + MaxFlight >= f.at

\* What a request carries from one await to the next.
Carries(q) ==
    /\ q.at <= authClock
    /\ q.pc \in InFlight => authClock - q.at <= MaxFlight
    /\ q.pc = "verified" => Backed(q.tok, q.at, NoSlack)
    /\ q.pc = "key" => Backed(q.tok, q.at, FullSlack)
    /\ q.pc \in {"none", "freshEmpty"} => lastEmpty >= q.at
    /\ q.pc = "open" => lastEmpty + TTL + MaxFlight >= q.at

\* Only open mode rechecks, and admits without a key.
Open(q) == q.pc \in {"recheck", "freshEmpty", "freshSome", "open"} => openMode

RequestInv == \A c \in Callers : Carries(authReq[c]) /\ Open(authReq[c])

KeyInv == TableInv /\ CacheInv /\ FlagInv /\ RequestInv

-----------------------------------------------------------------------------
\* A free slot carries nothing.
LEMMA IdleCarries == ASSUME authClock \in Nat PROVE Idle \in Requests /\ Carries(Idle) /\ Open(Idle)
<1>1. Idle \in Requests /\ Idle.pc = "idle" /\ Idle.at = 0
  BY DEF Idle, Requests, Phases
<1>2. Carries(Idle)
  BY <1>1 DEF Carries, InFlight
<1>3. Open(Idle)
  BY <1>1 DEF Open
<1> QED
  BY <1>1, <1>2, <1>3

\* The initial state.
LEMMA KeyInitInv == KeyInit => KeyInv
<1> SUFFICES ASSUME KeyInit PROVE KeyInv
  OBVIOUS
<1>1. Idle \in Requests
  BY IdleCarries DEF KeyInit
<1>2. Never \in Nat
  BY KeyAssumption DEF Never
<1>3. TableInv
  BY <1>1, <1>2, KeyAssumption DEF KeyInit, TableInv
<1>4. CacheInv /\ FlagInv
  BY DEF KeyInit, CacheInv, FlagInv
<1>5. RequestInv
  <2>1. \A c \in Callers : authReq[c] = Idle
    BY DEF KeyInit
  <2>2. authClock \in Nat
    BY DEF KeyInit
  <2> QED
    BY <2>1, <2>2, IdleCarries DEF RequestInv
<1> QED
  BY <1>3, <1>4, <1>5 DEF KeyInv

\* How a step may change the table: a row that ever was stays known, a deletion
\* bears the present time, and the last time the table was empty only grows.
TableGrows ==
    /\ UNCHANGED <<openMode, authClock>>
    /\ lastEmpty' \in lastEmpty..authClock
    /\ goneAt' \in [KeyIds -> Nat]
    /\ \A i \in KeyIds : Ever(i) => Ever(i)' /\ (goneAt'[i] = goneAt[i] \/ goneAt'[i] >= authClock)

\* A cached key stays backed by its row while the table only grows.
LEMMA BackedStays ==
    ASSUME KeyInv, TableGrows, NEW k, NEW t \in Nat, t <= authClock,
           NEW slack \in Nat, Backed(k, t, slack)
    PROVE  Backed(k, t, slack)'
<1>1. PICK i \in KeyIds : KeyOf[i] = k /\ Ever(i) /\ goneAt[i] + slack >= t
  BY DEF Backed
<1>2. Ever(i)' /\ goneAt'[i] + slack >= t
  BY <1>1 DEF TableGrows, KeyInv, TableInv
<1> QED
  BY <1>1, <1>2 DEF Backed

\* What a request carries survives the steps of others.
LEMMA CarriesStays ==
    ASSUME KeyInv, TableGrows, NEW q \in Requests, Carries(q) PROVE Carries(q)'
<1>1. q.at \in Nat /\ NoSlack \in Nat /\ FullSlack \in Nat
  BY KeyAssumption DEF Requests, NoSlack, FullSlack
<1>2. authClock \in Nat /\ lastEmpty \in Nat /\ lastEmpty' \in Nat /\ lastEmpty' >= lastEmpty
  BY KeyAssumption DEF KeyInv, TableInv, TableGrows
<1>3. q.pc = "verified" => Backed(q.tok, q.at, NoSlack)'
  BY <1>1, <1>2, BackedStays DEF Carries
<1>4. q.pc = "key" => Backed(q.tok, q.at, FullSlack)'
  BY <1>1, <1>2, BackedStays DEF Carries
<1>5. authClock' = authClock
  BY DEF TableGrows
<1>6. /\ q.at <= authClock'
      /\ q.pc \in InFlight => authClock' - q.at <= MaxFlight
  BY <1>5 DEF Carries
<1>7. q.pc \in {"none", "freshEmpty"} => lastEmpty' >= q.at
  <2>1. q.pc \in {"none", "freshEmpty"} => lastEmpty >= q.at
    BY DEF Carries
  <2> QED
    BY <1>1, <1>2, <2>1
<1>8. q.pc = "open" => lastEmpty' + TTL + MaxFlight >= q.at
  BY <1>1, <1>2, KeyAssumption DEF Carries
<1> QED
  BY <1>3, <1>4, <1>6, <1>7, <1>8 DEF Carries, InFlight

\* A step of caller c that leaves it with q.
LEMMA CallerMoves ==
    ASSUME KeyInv, TableGrows, UNCHANGED <<keyRows, goneAt, booting>>,
           NEW c \in Callers, NEW q \in Requests,
           authReq' = [authReq EXCEPT ![c] = q], Carries(q)', Open(q)
    PROVE  TableInv' /\ RequestInv'
<1>1. TableInv'
  BY DEF KeyInv, TableInv, TableGrows
<1>2. ASSUME NEW d \in Callers, d # c PROVE Carries(authReq[d])'
  <2>1. authReq[d] \in Requests /\ Carries(authReq[d]) /\ authReq'[d] = authReq[d]
    BY <1>2 DEF KeyInv, TableInv, RequestInv
  <2>2. PICK p \in Requests : p = authReq[d]
    BY <2>1
  <2>3. Carries(p)'
    BY <2>1, <2>2, CarriesStays
  <2> QED
    BY <2>1, <2>2, <2>3
<1>3. authReq'[c] = q
  BY DEF KeyInv, TableInv
<1>4. \A d \in Callers : Open(authReq[d])'
  BY <1>3 DEF KeyInv, TableInv, RequestInv, Open, TableGrows
<1> QED
  BY <1>1, <1>2, <1>3, <1>4 DEF RequestInv

-----------------------------------------------------------------------------
\* Insertion keeps or evicts what is there and adds an entry of the present
\* time; removal only removes.
LEMMA CacheAfterInsert ==
    ASSUME KeyInv, TableGrows, NEW k, NEW i, Backed(k, authClock, MaxFlight)', CacheInsert(k, i)
    PROVE  CacheInv'
<1>1. DOMAIN keyCache' \subseteq DOMAIN keyCache \cup {k}
  BY DEF CacheInsert, Without
<1>2. \A j \in DOMAIN keyCache' : j # k => keyCache'[j] = keyCache[j]
  BY DEF CacheInsert, Without
<1>3. k \in DOMAIN keyCache' => keyCache'[k].at = authClock \/ (k \in DOMAIN keyCache /\ keyCache'[k] = keyCache[k])
  <2>1. CASE ~CacheEnabled
    BY <2>1 DEF CacheInsert
  <2>2. CASE CacheEnabled
    <3>1. PICK rest : keyCache' = [j \in DOMAIN rest \cup {k} |->
                                     IF j = k THEN [id |-> i, at |-> authClock] ELSE rest[j]]
      BY <2>2 DEF CacheInsert
    <3>2. keyCache'[k] = [id |-> i, at |-> authClock]
      BY <3>1
    <3> QED
      BY <3>2
  <2> QED
    BY <2>1, <2>2
<1>4. authClock' = authClock /\ authClock \in Nat
  BY DEF TableGrows, KeyInv, TableInv
<1>5. ASSUME NEW j \in DOMAIN keyCache PROVE keyCache[j].at \in 0..authClock /\ Backed(j, keyCache[j].at, MaxFlight)
  BY DEF KeyInv, CacheInv
<1>6. ASSUME NEW j \in DOMAIN keyCache' PROVE (keyCache'[j].at \in 0..authClock' /\ Backed(j, keyCache[j].at, MaxFlight)')
  <2>1. CASE keyCache'[j] = keyCache[j] /\ j \in DOMAIN keyCache
    <3>1. PICK t \in 0..authClock : t = keyCache[j].at /\ Backed(j, t, MaxFlight)
      BY <1>5, <2>1
    <3>2. t \in Nat /\ t <= authClock /\ MaxFlight \in Nat
      BY <1>4, <3>1, KeyAssumption
    <3>3. Backed(j, t, MaxFlight)'
      BY <3>1, <3>2, BackedStays
    <3> QED
      BY <1>4, <2>1, <3>1, <3>3
  <2>2. CASE j = k /\ keyCache'[j].at = authClock
    <3>1. keyCache'[j].at = authClock'
      BY <1>4, <2>2
    <3> QED
      BY <1>4, <2>2, <3>1
  <2> QED
    BY <1>1, <1>2, <1>3, <2>1, <2>2
<1> QED
  BY <1>6 DEF CacheInv

\* Dropping entries of the cache disturbs none of the others.
LEMMA CacheAfterRemoval ==
    ASSUME KeyInv, TableGrows, DOMAIN keyCache' \subseteq DOMAIN keyCache,
           \A j \in DOMAIN keyCache' : keyCache'[j] = keyCache[j]
    PROVE  CacheInv'
<1>1. ASSUME NEW j \in DOMAIN keyCache' PROVE (keyCache'[j].at \in 0..authClock' /\ Backed(j, keyCache[j].at, MaxFlight)')
  <2>1. PICK t \in 0..authClock : t = keyCache[j].at /\ Backed(j, t, MaxFlight)
    BY DEF KeyInv, CacheInv
  <2>2. t \in Nat /\ t <= authClock /\ MaxFlight \in Nat
    BY <2>1, KeyAssumption DEF KeyInv, TableInv
  <2>3. Backed(j, t, MaxFlight)'
    BY <2>1, <2>2, BackedStays
  <2> QED
    BY <2>1, <2>3 DEF TableGrows
<1> QED
  BY <1>1 DEF CacheInv

\* The flag after a step.
LEMMA FlagAfterSet ==
    ASSUME KeyInv, TableGrows, NEW v \in BOOLEAN, SetKeysExist(v),
           ~v => lastEmpty' + MaxFlight >= authClock
    PROVE  FlagInv'
<1>1. \A f \in keysFlag' : f \in keysFlag \/ f = [value |-> v, at |-> authClock]
  BY DEF SetKeysExist
<1>2. authClock' = authClock /\ authClock \in Nat /\ lastEmpty \in Nat /\ lastEmpty' \in Nat /\ lastEmpty' >= lastEmpty
  BY DEF TableGrows, KeyInv, TableInv
<1>3. ASSUME NEW f \in keysFlag' PROVE f.at \in 0..authClock /\ (~f.value => lastEmpty' + MaxFlight >= f.at)
  <2>1. CASE f \in keysFlag
    BY <1>2, <2>1, KeyAssumption DEF KeyInv, FlagInv
  <2>2. CASE f = [value |-> v, at |-> authClock]
    BY <1>2, <2>2
  <2> QED
    BY <1>1, <2>1, <2>2
<1> QED
  BY <1>2, <1>3 DEF FlagInv

\* The flag that keys exist stays right while it is not written.
LEMMA FlagStays ==
    ASSUME KeyInv, TableGrows, UNCHANGED keysFlag PROVE FlagInv'
BY KeyAssumption DEF KeyInv, FlagInv, TableInv, TableGrows


-----------------------------------------------------------------------------
\* The steps of the middleware.
LEMMA CallerSteps ==
    ASSUME KeyInv, UNCHANGED openMode, NEW c \in Callers,
           \/ Arrive(c) \/ ListKeys(c) \/ KeepFlag(c) \/ Lookup(c)
           \/ VerifyRow(c) \/ Remember(c) \/ VerifyFails(c) \/ Recheck(c)
           \/ AfterRecheck(c) \/ Respond(c)
    PROVE  KeyInv'
<1> DEFINE q == authReq[c]
<1>0. /\ authClock \in Nat /\ lastEmpty \in Nat /\ lastEmpty <= authClock
      /\ goneAt \in [KeyIds -> Nat] /\ authReq \in [Callers -> Requests]
      /\ q \in Requests /\ Carries(q) /\ Open(q)
  BY KeyAssumption DEF KeyInv, TableInv, RequestInv
<1>1. UNCHANGED <<keyRows, goneAt, booting, authClock>> /\ lastEmpty' \in {lastEmpty, authClock}
  BY DEF Arrive, ListKeys, KeepFlag, Lookup, VerifyRow, Remember, VerifyFails, Recheck,
     AfterRecheck, Respond, ListSees
<1>2. TableGrows
  BY <1>0, <1>1 DEF TableGrows, Ever
<1>3. Idle \in Requests /\ Carries(Idle)' /\ Open(Idle)
  BY <1>0, <1>1, <1>2, IdleCarries, CarriesStays
\* Where c goes after it, and that nothing else changes.
<1>4. ASSUME NEW p \in Requests, authReq' = [authReq EXCEPT ![c] = p], Carries(p)', Open(p),
             CacheInv', FlagInv'
      PROVE  KeyInv'
  BY <1>1, <1>2, <1>4, CallerMoves DEF KeyInv
<1>5. UNCHANGED keysFlag => FlagInv'
  BY <1>2, FlagStays
<1>6. UNCHANGED keyCache => CacheInv'
  BY <1>2, CacheAfterRemoval
\* What AfterFlag decides.
<1>7. ASSUME NEW exist \in BOOLEAN, NEW r \in Requests, AfterFlag(c, exist, r),
             ~exist => lastEmpty' + TTL + MaxFlight >= authClock, CacheInv', FlagInv'
      PROVE  KeyInv'
  <2>1. CASE r.tok # NoToken
    <3> DEFINE p == [r EXCEPT !.pc = "lookup", !.at = 0]
    <3>1. authReq' = [authReq EXCEPT ![c] = p]
      BY <1>7, <2>1 DEF AfterFlag
    <3>2. p \in Requests /\ p.pc = "lookup" /\ p.at = 0
      BY DEF Requests, Phases
    <3> HIDE DEF p
    <3>3. Carries(p)' /\ Open(p)
      BY <1>0, <1>1, <3>2 DEF Carries, Open, InFlight
    <3> QED
      BY <1>4, <1>7, <3>1, <3>2, <3>3
  <2>2. CASE r.tok = NoToken /\ ~exist /\ openMode
    <3> DEFINE p == [Idle EXCEPT !.pc = "open", !.at = authClock]
    <3>1. authReq' = [authReq EXCEPT ![c] = p]
      BY <1>7, <2>2 DEF AfterFlag
    <3>2. p \in Requests /\ p.pc = "open" /\ p.at = authClock
      BY <1>0, <1>3 DEF Idle, Requests, Phases
    <3>3. PICK x \in Requests : x = p
      BY <3>2
    <3> HIDE DEF p
    <3>4. Carries(x)'
      BY <1>0, <1>1, <1>7, <2>2, <3>2, <3>3 DEF Carries, InFlight
    <3>5. Open(x)
      BY <2>2 DEF Open
    <3> QED
      BY <1>4, <1>7, <3>1, <3>3, <3>4, <3>5
  <2>3. CASE r.tok = NoToken /\ ~(~exist /\ openMode)
    <3>1. authReq' = [authReq EXCEPT ![c] = Idle]
      BY <1>7, <2>3 DEF AfterFlag
    <3> QED
      BY <1>3, <1>4, <1>7, <3>1
  <2> QED
    BY <2>1, <2>2, <2>3
<1>8. CASE Arrive(c)
  <2>1. CacheInv' /\ FlagInv' /\ lastEmpty' = lastEmpty
    BY <1>5, <1>6, <1>8 DEF Arrive
  <2>2. PICK tok \in RawKeys \cup {NoToken} :
         LET req == [Idle EXCEPT !.pc = "list", !.tok = tok, !.late = Revoked(tok)]
         IN IF \E v \in BOOLEAN : FlagKnown(v)
            THEN \E v \in BOOLEAN : FlagKnown(v) /\ AfterFlag(c, v, req)
            ELSE authReq' = [authReq EXCEPT ![c] = req]
    BY <1>8 DEF Arrive
  <2> DEFINE req == [Idle EXCEPT !.pc = "list", !.tok = tok, !.late = Revoked(tok)]
  <2>3. req \in Requests /\ req.pc = "list" /\ req.at = 0
    BY <1>3 DEF Idle, Requests, Phases, Revoked
  <2>4. PICK r \in Requests : r = req
    BY <2>3
  <2> HIDE DEF req
  <2>5. CASE \E v \in BOOLEAN : FlagKnown(v) /\ AfterFlag(c, v, r)
    <3>1. PICK v \in BOOLEAN : FlagKnown(v) /\ AfterFlag(c, v, r)
      BY <2>5
    <3>2. ~v => lastEmpty' + TTL + MaxFlight >= authClock
      BY <1>0, <2>1, <3>1, KeyAssumption DEF FlagKnown, KeyInv, FlagInv
    <3> QED
      BY <1>7, <2>1, <3>1, <3>2
  <2>6. CASE authReq' = [authReq EXCEPT ![c] = r]
    <3>1. Carries(r)' /\ Open(r)
      BY <1>0, <1>1, <2>3, <2>4 DEF Carries, Open, InFlight
    <3> QED
      BY <1>4, <2>1, <2>6, <3>1
  <2> QED
    BY <2>2, <2>4, <2>5, <2>6 DEF req
<1>9. ASSUME NEW ok \in BOOLEAN, NEW empty \in BOOLEAN, ListSees(ok, empty),
             NEW to \in {"none", "some", "freshEmpty", "freshSome"}, GotoAt(c, to),
             to = "none" => ~ok \/ empty, to = "freshEmpty" => empty,
             to \in {"freshEmpty", "freshSome"} => openMode, CacheInv', FlagInv'
      PROVE  KeyInv'
  <2> DEFINE p == [q EXCEPT !.pc = to, !.at = authClock]
  <2>1. authReq' = [authReq EXCEPT ![c] = p]
    BY <1>0, <1>9 DEF GotoAt
  <2>2. p \in Requests /\ p.pc = to /\ p.at = authClock
    BY <1>0, <1>9 DEF Requests, Phases
  <2>3. PICK x \in Requests : x = p
    BY <2>2
  <2> HIDE DEF p
  <2>4. to \in {"none", "freshEmpty"} => lastEmpty' = authClock
    BY <1>9 DEF ListSees
  <2>5. Carries(x)'
    BY <1>0, <1>1, <1>9, <2>2, <2>3, <2>4, KeyAssumption DEF Carries, InFlight
  <2>6. Open(x)
    BY <1>9, <2>2, <2>3 DEF Open
  <2> QED
    BY <1>4, <1>9, <2>1, <2>3, <2>5, <2>6
<1>10. CASE ListKeys(c)
  <2>1. CacheInv' /\ FlagInv'
    BY <1>5, <1>6, <1>10 DEF ListKeys
  <2>2. PICK ok \in BOOLEAN, empty \in BOOLEAN :
           ListSees(ok, empty) /\ GotoAt(c, IF ~ok \/ empty THEN "none" ELSE "some")
    BY <1>10 DEF ListKeys
  <2>3. CASE ~ok \/ empty
    BY <1>9, <2>1, <2>2, <2>3
  <2>4. CASE ~(~ok \/ empty)
    BY <1>9, <2>1, <2>2, <2>4
  <2> QED
    BY <2>3, <2>4
<1>11. CASE Recheck(c)
  <2>1. CacheInv' /\ FlagInv'
    BY <1>5, <1>6, <1>11 DEF Recheck
  <2>2. PICK ok \in BOOLEAN, empty \in BOOLEAN :
           ListSees(ok, empty) /\ GotoAt(c, IF empty THEN "freshEmpty" ELSE "freshSome")
    BY <1>11 DEF Recheck
  <2>3. openMode
    BY <1>0, <1>11 DEF Recheck, Open
  <2>4. CASE empty
    BY <1>9, <2>1, <2>2, <2>3, <2>4
  <2>5. CASE ~empty
    BY <1>9, <2>1, <2>2, <2>3, <2>5
  <2> QED
    BY <2>4, <2>5
<1>12. CASE KeepFlag(c)
  <2> DEFINE exist == q.pc = "some"
  <2>1. CacheInv'
    BY <1>6, <1>12 DEF KeepFlag
  <2>2. ~exist => lastEmpty' + MaxFlight >= authClock
    <3>1. q.pc \in {"none", "some"} /\ lastEmpty' = lastEmpty
      BY <1>12 DEF KeepFlag
    <3>2. q.at \in Nat
      BY <1>0 DEF Requests
    <3> QED
      BY <1>0, <3>1, <3>2, KeyAssumption DEF Carries, InFlight
  <2>3. PICK v \in BOOLEAN : v = exist
    OBVIOUS
  <2>4. SetKeysExist(v) /\ AfterFlag(c, v, q)
    BY <1>12, <2>3 DEF KeepFlag
  <2>5. FlagInv'
    BY <1>2, <2>2, <2>3, <2>4, FlagAfterSet
  <2>6. ~v => lastEmpty' + TTL + MaxFlight >= authClock
    <3>0. lastEmpty' \in Nat /\ authClock \in Nat
      BY <1>0, <1>12 DEF KeepFlag
    <3>1. \A x, y, m, w \in Nat : x + m >= y => x + w + m >= y
      OBVIOUS
    <3>2. lastEmpty' + MaxFlight >= authClock => lastEmpty' + TTL + MaxFlight >= authClock
      BY <3>0, <3>1, KeyAssumption
    <3> QED
      BY <2>2, <2>3, <3>2
  <2>7. PICK r \in Requests : r = q
    BY <1>0
  <2> QED
    BY <1>7, <2>1, <2>4, <2>5, <2>6, <2>7
\* Admission with a key that was backed.
<1>13. ASSUME Admit(c), Backed(q.tok, authClock, FullSlack), CacheInv', FlagInv' PROVE KeyInv'
  <2> DEFINE p == [q EXCEPT !.pc = "key", !.id = {}, !.at = authClock]
  <2>1. authReq' = [authReq EXCEPT ![c] = p]
    BY <1>0, <1>13 DEF Admit
  <2>2. p \in Requests /\ p.pc = "key" /\ p.at = authClock /\ p.tok = q.tok
    BY <1>0 DEF Requests, Phases
  <2>3. PICK x \in Requests : x = p
    BY <2>2
  <2> HIDE DEF p
  <2>4. FullSlack \in Nat
    BY KeyAssumption DEF FullSlack
  <2>5. Backed(x.tok, x.at, FullSlack)
    BY <1>13, <2>2, <2>3
  <2>6. Backed(x.tok, x.at, FullSlack)'
    BY <1>0, <1>2, <2>2, <2>3, <2>4, <2>5, BackedStays
  <2>7. Carries(x)'
    BY <1>0, <1>1, <2>2, <2>3, <2>6 DEF Carries, InFlight
  <2>8. Open(x)
    BY <2>2, <2>3 DEF Open
  <2> QED
    BY <1>4, <1>13, <2>1, <2>3, <2>7, <2>8
\* A move to a phase that carries nothing.
<1>14. ASSUME NEW to \in {"verify", "recheck"}, Goto(c, to), to = "recheck" => openMode, CacheInv', FlagInv'
       PROVE  KeyInv'
  <2> DEFINE p == [q EXCEPT !.pc = to, !.at = 0]
  <2>1. authReq' = [authReq EXCEPT ![c] = p]
    BY <1>0, <1>14 DEF Goto
  <2>2. p \in Requests /\ p.pc = to /\ p.at = 0
    BY <1>0, <1>14 DEF Requests, Phases
  <2>3. PICK x \in Requests : x = p
    BY <2>2
  <2> HIDE DEF p
  <2>4. Carries(x)'
    BY <1>0, <1>1, <1>14, <2>2, <2>3 DEF Carries, InFlight
  <2>5. Open(x)
    BY <1>14, <2>2, <2>3 DEF Open
  <2> QED
    BY <1>4, <1>14, <2>1, <2>3, <2>4, <2>5
<1>15. CASE Lookup(c)
  <2>1. CacheInv' /\ FlagInv'
    BY <1>5, <1>6, <1>15 DEF Lookup
  <2>2. CASE CacheHit(q.tok)
    <3>1. PICK t \in 0..authClock : t = keyCache[q.tok].at /\ Backed(q.tok, t, MaxFlight) /\ authClock - t <= TTL
      BY <2>2 DEF CacheHit, KeyInv, CacheInv
    <3>2. PICK i \in KeyIds : KeyOf[i] = q.tok /\ Ever(i) /\ goneAt[i] + MaxFlight >= t
      BY <3>1 DEF Backed
    <3>3. goneAt[i] + FullSlack >= authClock
      BY <1>0, <3>1, <3>2, KeyAssumption DEF FullSlack
    <3>4. Backed(q.tok, authClock, FullSlack)
      BY <3>2, <3>3 DEF Backed
    <3> QED
      BY <1>13, <1>15, <2>1, <2>2, <3>4 DEF Lookup
  <2>3. CASE ~CacheHit(q.tok)
    BY <1>14, <1>15, <2>1, <2>3 DEF Lookup
  <2> QED
    BY <2>2, <2>3
<1>16. CASE VerifyRow(c)
  <2>1. CacheInv' /\ FlagInv'
    BY <1>5, <1>6, <1>16 DEF VerifyRow
  <2>2. PICK i \in Rows(q.tok) :
          authReq' = [authReq EXCEPT ![c].pc = "verified", ![c].id = {i}, ![c].at = authClock]
    BY <1>16 DEF VerifyRow
  <2>3. i \in KeyIds /\ i \in keyRows /\ KeyOf[i] = q.tok /\ goneAt[i] = Never
    BY <2>2 DEF Rows, KeyInv, TableInv
  <2> DEFINE p == [q EXCEPT !.pc = "verified", !.id = {i}, !.at = authClock]
  <2>4. authReq' = [authReq EXCEPT ![c] = p]
    BY <1>0, <2>2
  <2>5. p \in Requests /\ p.pc = "verified" /\ p.at = authClock /\ p.tok = q.tok
    BY <1>0, <2>3 DEF Requests, Phases
  <2>6. PICK x \in Requests : x = p
    BY <2>5
  <2> HIDE DEF p
  <2>7. Backed(x.tok, x.at, NoSlack)
    <3>1. goneAt[i] + NoSlack >= authClock
      BY <1>0, <2>3, KeyAssumption DEF Never, NoSlack, KeyInv, TableInv
    <3> QED
      BY <2>3, <2>5, <2>6, <3>1 DEF Backed, Ever
  <2>8. Backed(x.tok, x.at, NoSlack)'
    BY <1>0, <1>2, <2>5, <2>6, <2>7, BackedStays DEF NoSlack
  <2>9. Carries(x)'
    BY <1>0, <1>1, <2>5, <2>6, <2>8, KeyAssumption DEF Carries, InFlight
  <2>10. Open(x)
    BY <2>5, <2>6 DEF Open
  <2> QED
    BY <1>4, <2>1, <2>4, <2>6, <2>9, <2>10
<1>17. CASE Remember(c)
  <2>1. q.at \in Nat /\ authClock - q.at <= MaxFlight /\ Backed(q.tok, q.at, NoSlack)
    BY <1>0, <1>17 DEF Remember, Carries, InFlight, Requests
  <2>2. PICK j \in KeyIds : KeyOf[j] = q.tok /\ Ever(j) /\ goneAt[j] + NoSlack >= q.at
    BY <2>1 DEF Backed
  <2>3. goneAt[j] + MaxFlight >= authClock /\ goneAt[j] + FullSlack >= authClock
    BY <1>0, <2>1, <2>2, KeyAssumption DEF NoSlack, FullSlack
  <2>4. Backed(q.tok, authClock, FullSlack) /\ Backed(q.tok, authClock, MaxFlight)
    BY <2>2, <2>3 DEF Backed
  <2>5. PICK k : k = q.tok
    OBVIOUS
  <2>6. PICK i \in q.id : CacheInsert(k, i)
    BY <1>17, <2>5 DEF Remember
  <2>7. Backed(k, authClock, MaxFlight)'
    <3>1. PICK now \in Nat : now = authClock
      BY <1>0
    <3>2. Backed(k, now, MaxFlight)'
      BY <1>0, <1>2, <2>4, <2>5, <3>1, BackedStays, KeyAssumption
    <3> QED
      BY <1>1, <3>1, <3>2
  <2>8. CacheInv'
    BY <1>2, <2>6, <2>7, CacheAfterInsert
  <2>9. FlagInv'
    BY <1>2, <1>17, FlagAfterSet DEF Remember
  <2> QED
    BY <1>13, <1>17, <2>4, <2>8, <2>9 DEF Remember
<1>18. ASSUME CacheRemove(q.tok) PROVE CacheInv'
  BY <1>2, <1>18, CacheAfterRemoval DEF CacheRemove, Without
<1>19. CASE VerifyFails(c)
  <2>1. FlagInv'
    BY <1>5, <1>19 DEF VerifyFails
  <2>2. CASE openMode
    BY <1>6, <1>14, <1>19, <2>1, <2>2 DEF VerifyFails
  <2>3. CASE ~openMode
    BY <1>3, <1>4, <1>18, <1>19, <2>1, <2>3 DEF VerifyFails, Refuse
  <2> QED
    BY <2>2, <2>3
<1>20. CASE AfterRecheck(c)
  <2>1. q.pc \in {"freshEmpty", "freshSome"}
    BY <1>20 DEF AfterRecheck
  <2>2. CASE q.pc = "freshEmpty"
    <3>1. AdmitOpen(c) /\ UNCHANGED keyCache /\ SetKeysExist(FALSE) /\ lastEmpty' = lastEmpty
      BY <1>20, <2>2 DEF AfterRecheck
    <3>2. lastEmpty + MaxFlight >= authClock /\ lastEmpty + TTL + MaxFlight >= authClock
      <4>1. q.at \in Nat
        BY <1>0 DEF Requests
      <4> QED
        BY <1>0, <2>2, <4>1, KeyAssumption DEF Carries, InFlight
    <3>3. CacheInv' /\ FlagInv'
      BY <1>2, <1>6, <3>1, <3>2, FlagAfterSet
    <3> DEFINE p == [Idle EXCEPT !.pc = "open", !.at = authClock]
    <3>4. authReq' = [authReq EXCEPT ![c] = p]
      BY <3>1 DEF AdmitOpen
    <3>5. p \in Requests /\ p.pc = "open" /\ p.at = authClock
      BY <1>0, <1>3 DEF Idle, Requests, Phases
    <3>6. PICK x \in Requests : x = p
      BY <3>5
    <3> HIDE DEF p
    <3>7. Carries(x)'
      BY <1>0, <1>1, <3>1, <3>2, <3>5, <3>6 DEF Carries, InFlight
    <3>8. openMode
      BY <1>0, <2>2 DEF Open
    <3>9. Open(x)
      BY <3>8 DEF Open
    <3> QED
      BY <1>4, <3>3, <3>4, <3>6, <3>7, <3>9
  <2>3. CASE q.pc = "freshSome"
    <3>1. Refuse(c) /\ CacheRemove(q.tok) /\ SetKeysExist(TRUE)
      BY <1>20, <2>3 DEF AfterRecheck
    <3>2. FlagInv'
      BY <1>2, <3>1, FlagAfterSet
    <3> QED
      BY <1>3, <1>4, <1>18, <3>1, <3>2 DEF Refuse
  <2> QED
    BY <2>1, <2>2, <2>3
<1>21. CASE Respond(c)
  BY <1>3, <1>4, <1>5, <1>6, <1>21 DEF Respond
<1> QED
  BY <1>8, <1>10, <1>11, <1>12, <1>15, <1>16, <1>17, <1>19, <1>20, <1>21

\* Keys are created and deleted, here and in other replicas.
LEMMA RowSteps ==
    ASSUME KeyInv, UNCHANGED openMode, NEW i \in KeyIds,
           \/ CreateApiKey(i) \/ GenKey(i) \/ BootstrapCheck(i) \/ BootstrapStore(i)
           \/ DeleteApiKey(i) \/ InvalidateCached(i) \/ DeleteElsewhere(i)
    PROVE  KeyInv'
<1>0. /\ authClock \in Nat /\ lastEmpty \in Nat /\ lastEmpty <= authClock
      /\ goneAt \in [KeyIds -> Nat] /\ authReq \in [Callers -> Requests] /\ Never \in Nat
      /\ keyRows \subseteq KeyIds /\ booting \subseteq KeyIds /\ keyRows \cap booting = {}
      /\ \A j \in keyRows \cup booting : goneAt[j] = Never
      /\ authClock < Never
  BY KeyAssumption DEF KeyInv, TableInv, Never
<1>1. UNCHANGED <<authClock, authReq>>
  BY DEF CreateApiKey, GenKey, BootstrapCheck, BootstrapStore, DeleteApiKey, InvalidateCached, DeleteElsewhere
<1>2. /\ lastEmpty' \in {lastEmpty, authClock} /\ goneAt' \in [KeyIds -> Nat]
      /\ keyRows' \subseteq KeyIds /\ booting' \subseteq KeyIds /\ keyRows' \cap booting' = {}
      /\ \A j \in keyRows' \cup booting' : goneAt'[j] = Never
      /\ \A j \in KeyIds : Ever(j) => Ever(j)' /\ (goneAt'[j] = goneAt[j] \/ goneAt'[j] >= authClock)
  <2>1. CASE DropRow(i) /\ booting' = booting
    <3>1. /\ keyRows' = keyRows \ {i} /\ i \in keyRows /\ goneAt' = [goneAt EXCEPT ![i] = authClock]
          /\ lastEmpty' \in {lastEmpty, authClock}
      BY <2>1 DEF DropRow
    <3>2. goneAt' \in [KeyIds -> Nat] /\ \A j \in KeyIds : goneAt'[j] = IF j = i THEN authClock ELSE goneAt[j]
      BY <1>0, <3>1
    <3> QED
      BY <1>0, <2>1, <3>1, <3>2 DEF Ever
  <2>2. CASE /\ goneAt' = goneAt /\ lastEmpty' = lastEmpty
             /\ \/ Unused(i) /\ keyRows' = keyRows \cup {i} /\ booting' = booting
                \/ Unused(i) /\ keyRows' = keyRows /\ booting' = booting \cup {i}
                \/ i \in booting /\ keyRows' = keyRows \cup {i} /\ booting' = booting \ {i}
                \/ keyRows' = keyRows /\ booting' = booting
    BY <1>0, <2>2 DEF Ever, Unused
  <2> QED
    BY <2>1, <2>2 DEF CreateApiKey, GenKey, BootstrapCheck, BootstrapStore, DeleteApiKey,
       InvalidateCached, DeleteElsewhere, AddRow
<1>3. TableGrows
  BY <1>0, <1>1, <1>2 DEF TableGrows
<1>4. TableInv'
  BY <1>0, <1>1, <1>2 DEF KeyInv, TableInv
<1>5. RequestInv'
  <2>1. ASSUME NEW c \in Callers PROVE Carries(authReq[c])'
    <3>1. PICK q \in Requests : q = authReq[c] /\ Carries(q)
      BY <1>0 DEF KeyInv, RequestInv
    <3>2. Carries(q)'
      BY <1>3, <3>1, CarriesStays
    <3> QED
      BY <1>1, <3>1, <3>2
  <2>2. \A c \in Callers : Open(authReq[c])'
    BY <1>1 DEF KeyInv, RequestInv, Open
  <2> QED
    BY <2>1, <2>2 DEF RequestInv
<1>6. CacheInv'
  BY <1>3, CacheAfterRemoval DEF CreateApiKey, GenKey, BootstrapCheck, BootstrapStore, DeleteApiKey,
     InvalidateCached, InvalidateKeyId, Without, DeleteElsewhere
<1>7. FlagInv'
  BY <1>3, FlagStays, FlagAfterSet DEF CreateApiKey, GenKey, BootstrapCheck, BootstrapStore,
     DeleteApiKey, InvalidateCached, DeleteElsewhere
<1> QED
  BY <1>4, <1>5, <1>6, <1>7 DEF KeyInv

\* Time passes: what is in flight is young enough to grow older by a tick.
LEMMA TickStep == ASSUME KeyInv, UNCHANGED openMode, AuthTick PROVE KeyInv'
<1>0. /\ authClock \in Nat /\ authClock' = authClock + 1 /\ lastEmpty \in Nat /\ lastEmpty <= authClock
      /\ lastEmpty' \in {lastEmpty, authClock + 1} /\ authReq \in [Callers -> Requests]
      /\ authClock + 1 \in 0..MaxAuthClock
      /\ UNCHANGED <<keyRows, goneAt, keyCache, keysFlag, authReq, booting>>
  BY KeyAssumption DEF KeyInv, TableInv, AuthTick
<1>1. \A k, t, slack : Backed(k, t, slack)' <=> Backed(k, t, slack)
  BY <1>0 DEF Backed, Ever
<1>2. TableInv'
  BY <1>0 DEF KeyInv, TableInv
<1>3. CacheInv'
  <2>1. ASSUME NEW k \in DOMAIN keyCache
        PROVE  keyCache[k].at \in 0..(authClock + 1) /\ Backed(k, keyCache[k].at, MaxFlight)'
    <3>1. PICK t \in 0..authClock : t = keyCache[k].at /\ Backed(k, t, MaxFlight)
      BY DEF KeyInv, CacheInv
    <3>2. Backed(k, t, MaxFlight)'
      BY <1>1, <3>1
    <3> QED
      BY <1>0, <3>1, <3>2
  <2> QED
    BY <1>0, <2>1 DEF CacheInv
<1>4. FlagInv'
  BY <1>0, KeyAssumption DEF KeyInv, FlagInv
<1>5. RequestInv'
  <2>1. ASSUME NEW c \in Callers PROVE Carries(authReq[c])'
    <3>1. PICK q \in Requests : q = authReq[c] /\ Carries(q)
      BY <1>0 DEF KeyInv, RequestInv
    <3>2. q.at \in Nat /\ (q.pc \in InFlight => authClock - q.at < MaxFlight)
      BY <3>1 DEF AuthTick, Requests
    <3>3. /\ q.at <= authClock'
          /\ q.pc \in InFlight => authClock' - q.at <= MaxFlight
      BY <1>0, <3>1, <3>2, KeyAssumption DEF Carries
    <3>4. /\ q.pc \in {"none", "freshEmpty"} => lastEmpty' >= q.at
          /\ q.pc = "open" => lastEmpty' + TTL + MaxFlight >= q.at
      BY <1>0, <3>1, <3>2, KeyAssumption DEF Carries
    <3>5. /\ q.pc = "verified" => Backed(q.tok, q.at, NoSlack)'
          /\ q.pc = "key" => Backed(q.tok, q.at, FullSlack)'
      BY <1>1, <3>1 DEF Carries
    <3>6. Carries(q)'
      BY <3>3, <3>4, <3>5 DEF Carries, InFlight
    <3> QED
      BY <1>0, <3>1, <3>6
  <2>2. \A c \in Callers : Open(authReq[c])'
    BY <1>0 DEF KeyInv, RequestInv, Open
  <2> QED
    BY <2>1, <2>2 DEF RequestInv
<1> QED
  BY <1>2, <1>3, <1>4, <1>5 DEF KeyInv

\* Every step keeps the inductive invariant.
LEMMA KeyInductive == KeyInv /\ [KeyNext]_keyVars => KeyInv'
<1> SUFFICES ASSUME KeyInv, [KeyNext]_keyVars PROVE KeyInv'
  OBVIOUS
<1>1. CASE KeyNext
  BY <1>1, CallerSteps, RowSteps, TickStep DEF KeyNext, KeyStep
<1>2. CASE UNCHANGED keyVars
  <2>1. \A k, t, slack : Backed(k, t, slack)' <=> Backed(k, t, slack)
    BY <1>2 DEF keyVars, Backed, Ever
  <2>2. TableInv' /\ FlagInv'
    BY <1>2 DEF keyVars, KeyInv, TableInv, FlagInv
  <2>3. CacheInv'
    BY <1>2, <2>1 DEF keyVars, KeyInv, CacheInv
  <2>4. \A c \in Callers : Carries(authReq[c])'
    BY <1>2, <2>1 DEF keyVars, KeyInv, RequestInv, Carries
  <2>5. \A c \in Callers : Open(authReq[c])'
    BY <1>2 DEF keyVars, KeyInv, RequestInv, Open
  <2> QED
    BY <2>2, <2>3, <2>4, <2>5 DEF KeyInv, RequestInv
<1> QED
  BY <1>1, <1>2

\* Every reachable state of the key table, its cache and the requests under way
\* satisfies the inductive invariant.
THEOREM KeyInvariance == KeySpec => []KeyInv
BY KeyInitInv, KeyInductive, PTL DEF KeySpec

\* A request admitted with a key was backed by a row at most TTL plus MaxFlight
\* earlier, for every TTL, cache size and number of rows for one key.
THEOREM StaleKeyBoundedTheorem == KeySpec => []StaleKeyBounded
<1>1. KeyInv => StaleKeyBounded
  <2> SUFFICES ASSUME KeyInv, NEW c \in Callers, authReq[c].pc = "key"
               PROVE  \E i \in KeyIds : /\ KeyOf[i] = authReq[c].tok /\ Ever(i)
                                        /\ goneAt[i] + TTL + MaxFlight >= authReq[c].at
    BY DEF StaleKeyBounded
  <2>1. PICK q \in Requests : q = authReq[c] /\ Carries(q)
    BY DEF KeyInv, TableInv, RequestInv
  <2>2. PICK i \in KeyIds : KeyOf[i] = q.tok /\ Ever(i) /\ goneAt[i] + FullSlack >= q.at
    BY <2>1 DEF Carries, Backed
  <2>3. goneAt[i] + TTL + MaxFlight >= q.at
    BY <2>2, KeyAssumption DEF FullSlack, KeyInv, TableInv
  <2> QED
    BY <2>1, <2>2, <2>3
<1> QED
  BY <1>1, KeyInvariance, PTL

\* A request admitted without a key saw the table empty or unreadable at most
\* TTL plus MaxFlight earlier, in open mode only.
THEOREM KeylessOnlyWhenEmptyTheorem == KeySpec => []KeylessOnlyWhenEmpty
<1>1. KeyInv => KeylessOnlyWhenEmpty
  <2> SUFFICES ASSUME KeyInv, NEW c \in Callers, authReq[c].pc = "open"
               PROVE  openMode /\ lastEmpty + TTL + MaxFlight >= authReq[c].at
    BY DEF KeylessOnlyWhenEmpty
  <2>1. openMode
    BY DEF KeyInv, RequestInv, Open
  <2>2. lastEmpty + TTL + MaxFlight >= authReq[c].at
    BY DEF KeyInv, RequestInv, Carries
  <2> QED
    BY <2>1, <2>2
<1> QED
  BY <1>1, KeyInvariance, PTL

-----------------------------------------------------------------------------
(* Identity: the inductive invariant.                                      *)

\* What an admitted read rests on; SelfReadSound says it of granted readers.
Entitled(q) ==
    /\ q.key = q.agent /\ ~q.late
    /\ q.tok \in DOMAIN minted
    /\ minted[q.tok].agent = q.agent
    /\ {"read:self", "*"} \cap minted[q.tok].caps # {}
    /\ q.at <= minted[q.tok].exp

\* A row carries the signature its token was minted with, whatever became of
\* its other columns, and stays marked once it was revoked.
SignedRow(t, row) ==
    /\ DOMAIN row = {"agent", "caps", "exp", "valid", "sig"}
    /\ t \in DOMAIN minted
    /\ row.sig.msg = TokenPayload(t, minted[t])

TokenInv ==
    /\ revokedTok \subseteq DOMAIN minted
    /\ \A t \in DOMAIN tokenRows :
         SignedRow(t, tokenRows[t]) /\ (t \in revokedTok => ~tokenRows[t].valid)

\* What a read carries from the fetch of the row to its judgement.
ReadInv(q) ==
    /\ q.pc \in {"fetch", "check"} => q.key = q.agent
    /\ q.pc = "fetch" => (q.late => q.tok \in revokedTok)
    /\ q.pc = "check" => /\ SignedRow(q.tok, q.row)
                         /\ q.row.agent = q.agent
                         /\ q.late => ~q.row.valid
    /\ q.pc = "granted" => Entitled(q)

NhiInv ==
    /\ AttestsOnce
    /\ TokenInv
    /\ DOMAIN reader = Readers
    /\ \A r \in Readers : ReadInv(reader[r])

\* What is minted or revoked stays so.
TokensGrow ==
    /\ revokedTok \subseteq revokedTok'
    /\ \A t \in DOMAIN minted : t \in DOMAIN minted' /\ minted'[t] = minted[t]

-----------------------------------------------------------------------------
\* No agent is registered and no token is out.
LEMMA NhiInitInv == NhiInit => NhiInv
<1> SUFFICES ASSUME NhiInit PROVE NhiInv
  OBVIOUS
<1>1. AttestsOnce
  BY DEF NhiInit, AttestsOnce
<1>2. TokenInv
  BY DEF NhiInit, TokenInv
<1>3. DOMAIN reader = Readers /\ \A r \in Readers : reader[r].pc = "idle"
  BY DEF NhiInit, NoReader
<1> QED
  BY <1>1, <1>2, <1>3 DEF NhiInv, ReadInv

\* What a read rests on is not lost when more is minted or revoked.
LEMMA ReadInvStays == ASSUME TokensGrow, NEW q, ReadInv(q) PROVE ReadInv(q)'
<1>1. ASSUME NEW t, NEW row, SignedRow(t, row) PROVE SignedRow(t, row)'
  BY <1>1 DEF SignedRow, TokenPayload, TokensGrow
<1>2. Entitled(q) => Entitled(q)'
  BY DEF Entitled, TokensGrow
<1> QED
  BY <1>1, <1>2 DEF ReadInv, TokensGrow

\* A step of reader r that leaves it with q, and the others alone.
LEMMA ReaderMoves ==
    ASSUME NhiInv, TokensGrow, NEW r \in Readers, NEW q,
           reader' = [reader EXCEPT ![r] = q], ReadInv(q)'
    PROVE  DOMAIN reader' = Readers /\ \A s \in Readers : ReadInv(reader[s])'
<1>1. DOMAIN reader' = Readers /\ \A s \in Readers : reader'[s] = IF s = r THEN q ELSE reader[s]
  BY DEF NhiInv
<1>2. ASSUME NEW s \in Readers PROVE ReadInv(reader[s])'
  <2>1. CASE s = r
    BY <1>1, <2>1
  <2>2. CASE s # r
    <3>1. PICK p : p = reader[s] /\ ReadInv(p)
      BY DEF NhiInv
    <3>2. ReadInv(p)'
      BY <3>1, ReadInvStays
    <3> QED
      BY <1>1, <2>2, <3>1, <3>2
  <2> QED
    BY <2>1, <2>2
<1> QED
  BY <1>1, <1>2

\* Readers that do not move keep what they carry.
LEMMA ReadersStay ==
    ASSUME NhiInv, TokensGrow, UNCHANGED reader
    PROVE  DOMAIN reader' = Readers /\ \A s \in Readers : ReadInv(reader[s])'
<1>1. ASSUME NEW s \in Readers PROVE ReadInv(reader[s])'
  <2>1. PICK p : p = reader[s] /\ ReadInv(p)
    BY DEF NhiInv
  <2>2. ReadInv(p)'
    BY <2>1, ReadInvStays
  <2> QED
    BY <2>1, <2>2
<1> QED
  BY <1>1 DEF NhiInv

\* Only the attestation of a live challenge changes what it counts.
LEMMA AttestsOnceStep == ASSUME NhiInv, [NhiNext]_nhiVars PROVE AttestsOnce'
<1>0. /\ \A x, y \in attested : x[1] = y[1] => x = y
      /\ \A x \in attested : x[3] <= x[4] + ChallengeTtl
      /\ \A x \in attested : x[1] \notin DOMAIN pending
  BY DEF NhiInv, AttestsOnce
<1>1. CASE attested' = attested /\ DOMAIN pending' \subseteq DOMAIN pending
  BY <1>0, <1>1 DEF AttestsOnce
<1>2. ASSUME NEW h \in Challenges, NEW a \in Agents, CreateChallenge(h, a) PROVE AttestsOnce'
  <2>1. attested' = attested /\ DOMAIN pending' = DOMAIN pending \cup {h} /\ \A x \in attested : x[1] # h
    BY <1>2 DEF CreateChallenge, Put
  <2> QED
    BY <1>0, <2>1 DEF AttestsOnce
<1>3. ASSUME NEW h \in Challenges, NEW a \in Agents, NEW b \in Agents, VerifyAttestation(h, a, b)
      PROVE  AttestsOnce'
  <2> DEFINE x == <<h, a, nhiClock, pending[h].made>>
  <2>1. /\ h \in DOMAIN pending /\ nhiClock <= pending[h].made + ChallengeTtl
        /\ DOMAIN pending' = DOMAIN pending \ {h} /\ attested' = attested \cup {x}
    BY <1>3 DEF VerifyAttestation, AttestationOk, ConsumeChallenge, Drop
  <2>2. x[1] = h /\ x[3] = nhiClock /\ x[4] = pending[h].made
    OBVIOUS
  <2>3. PICK new : new = x
    OBVIOUS
  <2>4. new[1] = h /\ new[3] <= new[4] + ChallengeTtl /\ attested' = attested \cup {new}
    BY <2>1, <2>2, <2>3
  <2> HIDE DEF x
  <2> QED
    BY <1>0, <2>1, <2>4 DEF AttestsOnce
<1>4. CASE PruneChallenges
  BY <1>1, <1>4 DEF PruneChallenges, Drop
<1>5. CASE IdentityStep
  BY <1>1, <1>5 DEF IdentityStep, RegisterIdentity, EnsureIdentity, StoreIdentity, NhiRestart, NhiTick
<1>6. CASE TokenStep
  BY <1>1, <1>6 DEF TokenStep, IssueToken, RevokeToken, CorruptRow, PruneTokens, SelfRead,
     FetchToken, JudgeToken, FinishRead
<1>7. CASE UNCHANGED nhiVars
  BY <1>1, <1>7 DEF nhiVars
<1> QED
  BY <1>2, <1>3, <1>4, <1>5, <1>6, <1>7 DEF NhiNext, ChallengeStep

\* The steps of tokens and reads.
LEMMA TokenSteps ==
    ASSUME NhiInv, TokenStep
    PROVE  TokenInv' /\ DOMAIN reader' = Readers /\ \A s \in Readers : ReadInv(reader[s])'
<1>0. /\ revokedTok \subseteq DOMAIN minted
      /\ \A t \in DOMAIN tokenRows :
           SignedRow(t, tokenRows[t]) /\ (t \in revokedTok => ~tokenRows[t].valid)
  BY DEF NhiInv, TokenInv
<1>1. ASSUME TokensGrow, NEW t, NEW row, SignedRow(t, row) PROVE SignedRow(t, row)'
  BY <1>1 DEF SignedRow, TokenPayload, TokensGrow
<1>2. ASSUME NEW t \in Tokens, NEW a \in Agents, NEW caps \in CapLists, IssueToken(t, a, caps)
      PROVE  TokenInv' /\ DOMAIN reader' = Readers /\ \A s \in Readers : ReadInv(reader[s])'
  <2> DEFINE bare == [agent |-> a, caps |-> caps, exp |-> nhiClock + TokenTtl]
             row == [agent |-> a, caps |-> caps, exp |-> bare.exp, valid |-> TRUE,
                     sig |-> Mac(registry[a], TokenPayload(t, bare))]
  <2>1. /\ t \notin DOMAIN minted /\ UNCHANGED <<reader, revokedTok>>
        /\ DOMAIN tokenRows' = DOMAIN tokenRows \cup {t} /\ DOMAIN minted' = DOMAIN minted \cup {t}
        /\ tokenRows'[t] = row /\ minted'[t] = bare
        /\ \A u \in DOMAIN tokenRows : u # t => tokenRows'[u] = tokenRows[u]
        /\ \A u \in DOMAIN minted : minted'[u] = minted[u]
    BY <1>2 DEF IssueToken, Put
  <2>2. TokensGrow
    BY <2>1 DEF TokensGrow
  <2>3. SignedRow(t, tokenRows[t])'
    BY <2>1 DEF SignedRow, Mac
  <2>4. ASSUME NEW u \in DOMAIN tokenRows PROVE SignedRow(u, tokenRows[u])'
    <3>1. PICK v : v = tokenRows[u] /\ SignedRow(u, v)
      BY <1>0
    <3>2. SignedRow(u, v)'
      BY <1>1, <2>2, <3>1
    <3> QED
      BY <2>1, <2>3, <3>1, <3>2
  <2>5. t \notin revokedTok
    BY <1>0, <2>1
  <2>6. TokenInv'
    BY <1>0, <2>1, <2>3, <2>4, <2>5 DEF TokenInv
  <2> QED
    BY <2>1, <2>2, <2>6, ReadersStay
\* A step that leaves what was minted, and changes rows only where it says.
<1>3. ASSUME NEW t \in DOMAIN tokenRows, NEW row, tokenRows' = [tokenRows EXCEPT ![t] = row],
             DOMAIN row = DOMAIN tokenRows[t], row.sig = tokenRows[t].sig,
             revokedTok' \subseteq revokedTok \cup {t}, revokedTok \subseteq revokedTok',
             t \in revokedTok' => ~row.valid, UNCHANGED <<minted, reader>>
      PROVE  TokenInv' /\ DOMAIN reader' = Readers /\ \A s \in Readers : ReadInv(reader[s])'
  <2>1. /\ DOMAIN tokenRows' = DOMAIN tokenRows
        /\ \A u \in DOMAIN tokenRows : tokenRows'[u] = IF u = t THEN row ELSE tokenRows[u]
    BY <1>3
  <2>2. SignedRow(t, row)
    BY <1>0, <1>3 DEF SignedRow
  <2>3. \A u, v : SignedRow(u, v) => SignedRow(u, v)'
    BY <1>3 DEF SignedRow, TokenPayload
  <2>4. ASSUME NEW u \in DOMAIN tokenRows
        PROVE  SignedRow(u, tokenRows[u])' /\ (u \in revokedTok' => ~tokenRows'[u].valid)
    <3>1. CASE u = t
      BY <1>3, <2>1, <2>2, <2>3, <3>1
    <3>2. CASE u # t
      BY <1>0, <1>3, <2>1, <2>3, <3>2
    <3> QED
      BY <3>1, <3>2
  <2>5. revokedTok' \subseteq DOMAIN minted'
    BY <1>0, <1>3 DEF SignedRow
  <2>6. TokenInv'
    BY <2>1, <2>4, <2>5 DEF TokenInv
  <2>7. TokensGrow
    BY <1>3 DEF TokensGrow
  <2> QED
    BY <1>3, <2>6, <2>7, ReadersStay
<1>4. ASSUME NEW t \in Tokens, RevokeToken(t)
      PROVE  TokenInv' /\ DOMAIN reader' = Readers /\ \A s \in Readers : ReadInv(reader[s])'
  <2> DEFINE row == [tokenRows[t] EXCEPT !.valid = FALSE]
  <2>1. t \in DOMAIN tokenRows /\ tokenRows' = [tokenRows EXCEPT ![t] = row]
    BY <1>4 DEF RevokeToken, Revoke
  <2>2. DOMAIN tokenRows[t] = {"agent", "caps", "exp", "valid", "sig"}
    BY <1>0, <2>1 DEF SignedRow
  <2>3. DOMAIN row = DOMAIN tokenRows[t] /\ row.sig = tokenRows[t].sig /\ ~row.valid
    BY <2>2
  <2>4. PICK v : v = row
    OBVIOUS
  <2> HIDE DEF row
  <2>5. revokedTok' = revokedTok \cup {t} /\ UNCHANGED <<minted, reader>>
    BY <1>4 DEF RevokeToken
  <2> QED
    BY <1>3, <2>1, <2>3, <2>4, <2>5
<1>5. ASSUME NEW t \in Tokens, CorruptRow(t)
      PROVE  TokenInv' /\ DOMAIN reader' = Readers /\ \A s \in Readers : ReadInv(reader[s])'
  <2>1. t \in DOMAIN tokenRows /\ UNCHANGED <<minted, reader, revokedTok>>
    BY <1>5 DEF CorruptRow
  <2>2. PICK row \in {[tokenRows[t] EXCEPT !.caps = {"*"}], [tokenRows[t] EXCEPT !.exp = MaxNhiClock]}
                     \cup {[tokenRows[t] EXCEPT !.agent = a] : a \in Agents} :
          tokenRows' = [tokenRows EXCEPT ![t] = row]
    BY <1>5 DEF CorruptRow
  <2>3. DOMAIN tokenRows[t] = {"agent", "caps", "exp", "valid", "sig"}
    BY <1>0, <2>1 DEF SignedRow
  <2>4. DOMAIN row = DOMAIN tokenRows[t] /\ row.sig = tokenRows[t].sig /\ row.valid = tokenRows[t].valid
    BY <2>2, <2>3
  <2> QED
    BY <1>0, <1>3, <2>1, <2>2, <2>4
<1>6. ASSUME PruneTokens
      PROVE  TokenInv' /\ DOMAIN reader' = Readers /\ \A s \in Readers : ReadInv(reader[s])'
  <2>1. /\ DOMAIN tokenRows' \subseteq DOMAIN tokenRows /\ UNCHANGED <<minted, reader, revokedTok>>
        /\ \A u \in DOMAIN tokenRows' : tokenRows'[u] = tokenRows[u]
    BY <1>6 DEF PruneTokens, Drop
  <2>2. \A u, v : SignedRow(u, v) => SignedRow(u, v)'
    BY <2>1 DEF SignedRow, TokenPayload
  <2>3. \A u \in DOMAIN tokenRows' : SignedRow(u, tokenRows[u])'
    BY <1>0, <2>1, <2>2
  <2>4. TokenInv'
    BY <1>0, <2>1, <2>3 DEF TokenInv
  <2>5. TokensGrow
    BY <2>1 DEF TokensGrow
  <2> QED
    BY <2>1, <2>4, <2>5, ReadersStay
\* The reads: no token and no row changes.
<1>7. ASSUME NEW r \in Readers, NEW q, reader' = [reader EXCEPT ![r] = q], ReadInv(q),
             UNCHANGED <<tokenRows, minted, revokedTok>>
      PROVE  TokenInv' /\ DOMAIN reader' = Readers /\ \A s \in Readers : ReadInv(reader[s])'
  <2>1. TokensGrow
    BY <1>7 DEF TokensGrow
  <2>2. TokenInv'
    BY <1>0, <1>7 DEF TokenInv, SignedRow, TokenPayload
  <2> QED
    BY <1>7, <2>1, <2>2, ReadInvStays, ReaderMoves
<1>8. ReadInv(NoReader)
  BY DEF ReadInv, NoReader
<1>9. ASSUME NEW r \in Readers, NEW k \in Agents, NEW a \in Agents, NEW t \in Tokens, SelfRead(r, k, a, t)
      PROVE  TokenInv' /\ DOMAIN reader' = Readers /\ \A s \in Readers : ReadInv(reader[s])'
  <2> DEFINE q == [pc |-> "fetch", key |-> k, agent |-> a, tok |-> t, late |-> t \in revokedTok]
  <2>1. reader' = [reader EXCEPT ![r] = q] /\ k = a /\ UNCHANGED <<tokenRows, minted, revokedTok>>
    BY <1>9 DEF SelfRead
  <2>2. ReadInv(q)
    BY <2>1 DEF ReadInv
  <2>3. PICK v : v = q
    OBVIOUS
  <2> HIDE DEF q
  <2> QED
    BY <1>7, <2>1, <2>2, <2>3
<1>10. ASSUME NEW r \in Readers, FetchToken(r)
       PROVE  TokenInv' /\ DOMAIN reader' = Readers /\ \A s \in Readers : ReadInv(reader[s])'
  <2>0. PICK p : p = reader[r] /\ ReadInv(p) /\ p.pc = "fetch"
    BY <1>10 DEF NhiInv, FetchToken
  <2> DEFINE q == [pc |-> "check", key |-> p.key, agent |-> p.agent, tok |-> p.tok, late |-> p.late,
                   row |-> tokenRows[p.tok]]
  <2>1. /\ UNCHANGED <<tokenRows, minted, revokedTok>>
        /\ \/ reader' = [reader EXCEPT ![r] = NoReader]
           \/ /\ reader' = [reader EXCEPT ![r] = q]
              /\ p.tok \in DOMAIN tokenRows /\ tokenRows[p.tok].agent = p.agent
    BY <1>10, <2>0 DEF FetchToken
  <2>2. ASSUME p.tok \in DOMAIN tokenRows, tokenRows[p.tok].agent = p.agent PROVE ReadInv(q)
    <3>1. SignedRow(p.tok, tokenRows[p.tok]) /\ (p.late => ~tokenRows[p.tok].valid) /\ p.key = p.agent
      BY <1>0, <2>0, <2>2 DEF ReadInv
    <3> QED
      BY <2>2, <3>1 DEF ReadInv
  <2>3. PICK v : v = q
    OBVIOUS
  <2> HIDE DEF q
  <2> QED
    BY <1>7, <1>8, <2>1, <2>2, <2>3
<1>11. ASSUME NEW r \in Readers, JudgeToken(r)
       PROVE  TokenInv' /\ DOMAIN reader' = Readers /\ \A s \in Readers : ReadInv(reader[s])'
  <2>0. PICK p : p = reader[r] /\ ReadInv(p) /\ p.pc = "check"
    BY <1>11 DEF NhiInv, JudgeToken
  <2> DEFINE q == [pc |-> "granted", key |-> p.key, agent |-> p.agent, tok |-> p.tok, late |-> p.late,
                   at |-> nhiClock]
  <2>1. /\ UNCHANGED <<tokenRows, minted, revokedTok>>
        /\ \/ reader' = [reader EXCEPT ![r] = NoReader]
           \/ reader' = [reader EXCEPT ![r] = q] /\ TokenGrants(p.tok, p.row, "read:self")
    BY <1>11, <2>0 DEF JudgeToken
  <2>2. ASSUME TokenGrants(p.tok, p.row, "read:self") PROVE ReadInv(q)
    <3>1. /\ SignedRow(p.tok, p.row) /\ p.row.agent = p.agent /\ (p.late => ~p.row.valid)
          /\ p.key = p.agent
      BY <2>0 DEF ReadInv
    <3>2. /\ p.row.valid /\ nhiClock <= p.row.exp /\ {"read:self", "*"} \cap p.row.caps # {}
          /\ p.row.sig.msg = TokenPayload(p.tok, p.row)
      BY <2>2 DEF TokenGrants, VerifyTokenSignature, Mac
    <3>3. TokenPayload(p.tok, p.row) = TokenPayload(p.tok, minted[p.tok]) /\ p.tok \in DOMAIN minted
      BY <3>1, <3>2 DEF SignedRow
    <3>4. p.row.agent = minted[p.tok].agent /\ p.row.caps = minted[p.tok].caps /\ p.row.exp = minted[p.tok].exp
      BY <3>3 DEF TokenPayload
    <3>5. Entitled(q)
      BY <3>1, <3>2, <3>3, <3>4 DEF Entitled
    <3> QED
      BY <3>5 DEF ReadInv
  <2>3. PICK v : v = q
    OBVIOUS
  <2> HIDE DEF q
  <2> QED
    BY <1>7, <1>8, <2>1, <2>2, <2>3
<1>12. ASSUME NEW r \in Readers, FinishRead(r)
       PROVE  TokenInv' /\ DOMAIN reader' = Readers /\ \A s \in Readers : ReadInv(reader[s])'
  BY <1>7, <1>8, <1>12 DEF FinishRead
<1> QED
  BY <1>2, <1>4, <1>5, <1>6, <1>9, <1>10, <1>11, <1>12 DEF TokenStep

\* Every step keeps the inductive invariant.
LEMMA NhiInductive == NhiInv /\ [NhiNext]_nhiVars => NhiInv'
<1> SUFFICES ASSUME NhiInv, [NhiNext]_nhiVars PROVE NhiInv'
  OBVIOUS
<1>1. AttestsOnce'
  BY AttestsOnceStep
<1>2. CASE TokenStep
  BY <1>1, <1>2, TokenSteps DEF NhiInv
<1>3. CASE UNCHANGED <<tokenRows, minted, revokedTok>>
           /\ (UNCHANGED reader \/ reader' = [r \in Readers |-> NoReader])
  <2>1. TokensGrow
    BY <1>3 DEF TokensGrow
  <2>2. TokenInv'
    BY <1>3 DEF NhiInv, TokenInv, SignedRow, TokenPayload
  <2>3. CASE UNCHANGED reader
    BY <1>1, <2>1, <2>2, <2>3, ReadersStay DEF NhiInv
  <2>4. CASE reader' = [r \in Readers |-> NoReader]
    BY <1>1, <2>2, <2>4 DEF NhiInv, ReadInv, NoReader
  <2> QED
    BY <1>3, <2>3, <2>4
<1>4. CASE IdentityStep
  BY <1>3, <1>4 DEF IdentityStep, RegisterIdentity, EnsureIdentity, StoreIdentity, NhiRestart, NhiTick
<1>5. CASE ChallengeStep
  BY <1>3, <1>5 DEF ChallengeStep, CreateChallenge, VerifyAttestation, PruneChallenges
<1>6. CASE UNCHANGED nhiVars
  BY <1>3, <1>6 DEF nhiVars
<1> QED
  BY <1>2, <1>4, <1>5, <1>6 DEF NhiNext

\* The inductive invariant of identities, challenges and tokens.
THEOREM NhiInvariance == NhiSpec => []NhiInv
BY NhiInitInv, NhiInductive, PTL DEF NhiSpec

\* A granted self-read rests on a token minted for that agent and capability,
\* unexpired and not revoked when the request came, whatever was written over
\* the row and however often the process restarted.
THEOREM SelfReadSoundTheorem == NhiSpec => []SelfReadSound
<1>1. NhiInv => SelfReadSound
  BY DEF NhiInv, ReadInv, Entitled, SelfReadSound
<1> QED
  BY <1>1, NhiInvariance, PTL

\* A challenge attests once and in time.
THEOREM AttestsOnceTheorem == NhiSpec => []AttestsOnce
<1>1. NhiInv => AttestsOnce
  BY DEF NhiInv
<1> QED
  BY <1>1, NhiInvariance, PTL
=============================================================================
