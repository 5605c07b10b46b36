------------------------------ MODULE KeyCache ------------------------------
(***************************************************************************)
(* Authentication: the API key rows, the per-process AuthCache in front of *)
(* them and the middleware every protected route runs                      *)
(* (auth/middleware.rs, auth/cache.rs, auth/api_keys.rs, the key handlers   *)
(* of server/create_server.rs and the key commands of main.rs).            *)
(*                                                                         *)
(* A step of a request ends where the middleware awaits the database, so   *)
(* what was read before an await is used after it.  Raw keys are model     *)
(* values; a row has an id and verifies one raw key, and two rows may      *)
(* verify the same one (two replicas registering the bootstrap key).       *)
(***************************************************************************)
EXTENDS Naturals, FiniteSets

CONSTANTS
    RawKeys,        \* raw keys a client can present
    KeyIds,         \* ids of rows of the key table (never reused: UUIDs)
    KeyOf,          \* the raw key a row's Argon2 hash verifies
    BootKey,        \* the raw key of IAGA_SENTINEL_BOOTSTRAP_API_KEY
    Callers,        \* request slots
    TTL,            \* IAGA_SENTINEL_AUTH_CACHE_TTL_MS, in ticks; 0 disables
    MaxEntries,     \* MAX_ENTRIES
    MaxFlight,      \* ticks between an answer of the database and its use
    MaxAuthClock,   \* bound on the clock
    NoToken         \* the request carries no bearer token

ASSUME KeyAssumption ==
    /\ KeyOf \in [KeyIds -> RawKeys]
    /\ BootKey \in RawKeys /\ NoToken \notin RawKeys
    /\ TTL \in Nat /\ MaxFlight \in Nat /\ MaxAuthClock \in Nat
    /\ MaxEntries \in Nat \ {0}

VARIABLES
    openMode,    \* IAGA_SENTINEL_OPEN_MODE = "true", fixed for the process
    keyRows,     \* ids in the key table
    goneAt,      \* when a row was deleted (Never: it was not)
    keyCache,    \* AuthCache.entries: raw key -> [id, at]
    keysFlag,    \* AuthCache.keys_exist: {} or {[value, at]}
    authClock,
    authReq,     \* the request of every caller slot
    revoking,    \* ids whose row this process deleted and not yet invalidated
    revokedIds,  \* ids this process has deleted and invalidated
    lastEmpty,   \* when the table was last empty or could not be listed
    booting      \* ids a starting replica is about to register

keyVars == <<openMode, keyRows, goneAt, keyCache, keysFlag, authClock, authReq,
             revoking, revokedIds, lastEmpty, booting>>

Never == MaxAuthClock + 1
Idle == [pc |-> "idle", tok |-> NoToken, id |-> {}, at |-> 0, late |-> FALSE]

KeyInit ==
    /\ openMode \in BOOLEAN
    /\ keyRows = {} /\ keyCache = <<>> /\ keysFlag = {} /\ authClock = 0
    /\ goneAt = [i \in KeyIds |-> Never]
    /\ authReq = [c \in Callers |-> Idle]
    /\ revoking = {} /\ revokedIds = {} /\ booting = {} /\ lastEmpty = 0

-----------------------------------------------------------------------------
(* AuthCache.                                                              *)

CacheEnabled == TTL # 0

\* Mutant: the TTL of an entry is never looked at.
CacheHitForever(k) == CacheEnabled /\ k \in DOMAIN keyCache

\* lookup: present and not older than the TTL.
CacheHit(k) ==
    /\ CacheEnabled /\ k \in DOMAIN keyCache
    /\ authClock - keyCache[k].at <= TTL

\* The entries that may be evicted: the oldest, any of them on a tie.
Oldest == {k \in DOMAIN keyCache :
              \A j \in DOMAIN keyCache : keyCache[k].at <= keyCache[j].at}
Without(f, K) == [k \in DOMAIN f \ K |-> f[k]]

\* insert: at MAX_ENTRIES the oldest entry goes first, even when k itself is
\* already present and no room is needed.
CacheInsert(k, i) ==
    IF ~CacheEnabled THEN keyCache' = keyCache
    ELSE \E victim \in IF Cardinality(DOMAIN keyCache) >= MaxEntries
                       THEN {{o} : o \in Oldest} ELSE {{}} :
           LET rest == Without(keyCache, victim)
           IN keyCache' = [j \in DOMAIN rest \cup {k} |->
                              IF j = k THEN [id |-> i, at |-> authClock]
                              ELSE rest[j]]

CacheRemove(k) == keyCache' = Without(keyCache, {k})
InvalidateKeyId(i) ==
    keyCache' = Without(keyCache, {k \in DOMAIN keyCache : keyCache[k].id = i})

\* Mutant: the flag is kept until it is overwritten.
FlagForever(v) == CacheEnabled /\ \E f \in keysFlag : f.value = v

\* keys_exist: the flag while it is not older than the TTL.
FlagKnown(v) == CacheEnabled /\ \E f \in keysFlag :
                    f.value = v /\ authClock - f.at <= TTL
SetKeysExist(v) ==
    keysFlag' = IF CacheEnabled THEN {[value |-> v, at |-> authClock]}
                ELSE keysFlag

-----------------------------------------------------------------------------
(* The database.                                                           *)

Rows(k) == {i \in keyRows : KeyOf[i] = k}

\* A read of the whole table: list_keys.  `ok = FALSE` is a failed query.
ListSees(ok, empty) ==
    /\ empty = (ok /\ keyRows = {})
    /\ lastEmpty' = IF ok /\ keyRows # {} THEN lastEmpty ELSE authClock

-----------------------------------------------------------------------------
(* auth_middleware.                                                        *)

Goto(c, pc) == authReq' = [authReq EXCEPT ![c].pc = pc, ![c].at = 0]
GotoAt(c, pc) == authReq' = [authReq EXCEPT ![c].pc = pc, ![c].at = authClock]
Admit(c) == authReq' = [authReq EXCEPT ![c].pc = "key", ![c].id = {},
                                       ![c].at = authClock]
AdmitOpen(c) == authReq' = [authReq EXCEPT ![c] =
                               [Idle EXCEPT !.pc = "open", !.at = authClock]]
Refuse(c) == authReq' = [authReq EXCEPT ![c] = Idle]

\* What follows the keys_exist flag: without a key configured and without a
\* token, open mode admits as admin; any other request needs a token.
AfterFlag(c, exist, req) ==
    authReq' = [authReq EXCEPT ![c] =
        IF req.tok # NoToken THEN [req EXCEPT !.pc = "lookup", !.at = 0]
        ELSE IF ~exist /\ openMode
             THEN [Idle EXCEPT !.pc = "open", !.at = authClock]
             ELSE Idle]

\* Every row of this raw key was deleted and invalidated by this process.
Revoked(k) == k \in RawKeys /\ {i \in KeyIds : KeyOf[i] = k} \subseteq revokedIds

\* A request arrives and finds the cached flag, or must list the keys.
Arrive(c) ==
    /\ authReq[c].pc = "idle"
    /\ \E tok \in RawKeys \cup {NoToken} :
         LET req == [Idle EXCEPT !.pc = "list", !.tok = tok,
                                 !.late = Revoked(tok)]
         IN IF \E v \in BOOLEAN : FlagKnown(v)
            THEN \E v \in BOOLEAN : FlagKnown(v) /\ AfterFlag(c, v, req)
            ELSE authReq' = [authReq EXCEPT ![c] = req]
    /\ UNCHANGED <<keyRows, goneAt, keyCache, keysFlag, authClock, revoking,
                   revokedIds, lastEmpty, booting>>

\* list_keys().await.unwrap_or_default(): a failed query counts as no keys.
ListKeys(c) ==
    /\ authReq[c].pc = "list"
    /\ \E ok, empty \in BOOLEAN :
         /\ ListSees(ok, empty)
         /\ GotoAt(c, IF ~ok \/ empty THEN "none" ELSE "some")
    /\ UNCHANGED <<keyRows, goneAt, keyCache, keysFlag, authClock, revoking,
                   revokedIds, booting>>

\* set_keys_exist(exist) with the answer, whatever happened meanwhile.
KeepFlag(c) ==
    /\ authReq[c].pc \in {"none", "some"}
    /\ LET exist == authReq[c].pc = "some"
       IN /\ SetKeysExist(exist)
          /\ AfterFlag(c, exist, authReq[c])
    /\ UNCHANGED <<keyRows, goneAt, keyCache, authClock, revoking, revokedIds,
                   lastEmpty, booting>>

\* The hot path: a key that verified within the TTL is not verified again.
Lookup(c) ==
    /\ authReq[c].pc = "lookup"
    /\ IF CacheHit(authReq[c].tok) THEN Admit(c) ELSE Goto(c, "verify")
    /\ UNCHANGED <<keyRows, goneAt, keyCache, keysFlag, authClock, revoking,
                   revokedIds, lastEmpty, booting>>

\* verify_raw_key_scoped: some row whose hash verifies the token, if any.
VerifyRow(c) ==
    /\ authReq[c].pc = "verify"
    /\ \E i \in Rows(authReq[c].tok) :
         authReq' = [authReq EXCEPT ![c].pc = "verified", ![c].id = {i},
                                    ![c].at = authClock]
    /\ UNCHANGED <<keyRows, goneAt, keyCache, keysFlag, authClock, revoking,
                   revokedIds, lastEmpty, booting>>

\* ... and the request goes on with it: cached, then admitted.
Remember(c) ==
    /\ authReq[c].pc = "verified"
    /\ \E i \in authReq[c].id : CacheInsert(authReq[c].tok, i)
    /\ SetKeysExist(TRUE)
    /\ Admit(c)
    /\ UNCHANGED <<keyRows, goneAt, authClock, revoking, revokedIds, lastEmpty,
                   booting>>

\* No row, or the query failed.  Open mode rechecks whether any key exists.
VerifyFails(c) ==
    /\ authReq[c].pc = "verify"
    /\ IF openMode THEN Goto(c, "recheck") /\ UNCHANGED keyCache
       ELSE Refuse(c) /\ CacheRemove(authReq[c].tok)
    /\ UNCHANGED <<keyRows, goneAt, keysFlag, authClock, revoking, revokedIds,
                   lastEmpty, booting>>

\* The fresh recheck: here a failed query counts as "keys exist".
Recheck(c) ==
    /\ authReq[c].pc = "recheck"
    /\ \E ok, empty \in BOOLEAN :
         /\ ListSees(ok, empty)
         /\ GotoAt(c, IF empty THEN "freshEmpty" ELSE "freshSome")
    /\ UNCHANGED <<keyRows, goneAt, keyCache, keysFlag, authClock, revoking,
                   revokedIds, booting>>

AfterRecheck(c) ==
    /\ authReq[c].pc \in {"freshEmpty", "freshSome"}
    /\ LET empty == authReq[c].pc = "freshEmpty"
       IN /\ SetKeysExist(~empty)
          /\ IF empty THEN AdmitOpen(c) /\ UNCHANGED keyCache
             ELSE Refuse(c) /\ CacheRemove(authReq[c].tok)
    /\ UNCHANGED <<keyRows, goneAt, authClock, revoking, revokedIds, lastEmpty,
                   booting>>

\* The response is sent; the slot is free again.
Respond(c) ==
    /\ authReq[c].pc \in {"open", "key"}
    /\ authReq' = [authReq EXCEPT ![c] = Idle]
    /\ UNCHANGED <<keyRows, goneAt, keyCache, keysFlag, authClock, revoking,
                   revokedIds, lastEmpty, booting>>

-----------------------------------------------------------------------------
(* Creation and deletion of keys.                                          *)

Unused(i) == i \notin keyRows \cup booting /\ goneAt[i] = Never
AddRow(i) == keyRows' = keyRows \cup {i}

\* create_api_key_handler: the row, then the flag of this process.
CreateApiKey(i) ==
    /\ Unused(i) /\ AddRow(i) /\ SetKeysExist(TRUE)
    /\ UNCHANGED <<goneAt, keyCache, authClock, authReq, revoking, revokedIds,
                   lastEmpty, booting>>

\* iaga gen-key: the row only; it runs in a process of its own.
GenKey(i) ==
    /\ Unused(i) /\ AddRow(i)
    /\ UNCHANGED <<goneAt, keyCache, keysFlag, authClock, authReq, revoking,
                   revokedIds, lastEmpty, booting>>

\* bootstrap_api_key: a starting replica finds no row for the key ...
BootstrapCheck(i) ==
    /\ Unused(i) /\ KeyOf[i] = BootKey /\ Rows(BootKey) = {}
    /\ booting' = booting \cup {i}
    /\ UNCHANGED <<keyRows, goneAt, keyCache, keysFlag, authClock, authReq,
                   revoking, revokedIds, lastEmpty>>

\* ... and stores one, whether or not another replica did so meanwhile.
BootstrapStore(i) ==
    /\ i \in booting
    /\ booting' = booting \ {i}
    /\ AddRow(i)
    /\ UNCHANGED <<goneAt, keyCache, keysFlag, authClock, authReq, revoking,
                   revokedIds, lastEmpty>>

DropRow(i) ==
    /\ i \in keyRows
    /\ keyRows' = keyRows \ {i}
    /\ goneAt' = [goneAt EXCEPT ![i] = authClock]
    /\ lastEmpty' = IF keyRows = {i} THEN authClock ELSE lastEmpty

\* delete_api_key_handler: the row goes first ...
DeleteApiKey(i) ==
    /\ DropRow(i)
    /\ revoking' = revoking \cup {i}
    /\ UNCHANGED <<keyCache, keysFlag, authClock, authReq, revokedIds, booting>>

\* ... then the cached entries of that id, and the handler answers.
InvalidateCached(i) ==
    /\ i \in revoking
    /\ revoking' = revoking \ {i}
    /\ revokedIds' = revokedIds \cup {i}
    /\ InvalidateKeyId(i)
    /\ UNCHANGED <<keyRows, goneAt, keysFlag, authClock, authReq, lastEmpty,
                   booting>>

\* The same handler in another replica: this process is not told.
DeleteElsewhere(i) ==
    /\ DropRow(i)
    /\ UNCHANGED <<keyCache, keysFlag, authClock, authReq, revoking,
                   revokedIds, booting>>

\* Time passes; an answer of the database is used within MaxFlight.
InFlight == {"none", "some", "verified", "freshEmpty", "freshSome"}
AuthTick ==
    /\ authClock < MaxAuthClock
    /\ \A c \in Callers : authReq[c].pc \in InFlight =>
                             authClock - authReq[c].at < MaxFlight
    /\ authClock' = authClock + 1
    /\ lastEmpty' = IF keyRows = {} THEN authClock + 1 ELSE lastEmpty
    /\ UNCHANGED <<keyRows, goneAt, keyCache, keysFlag, authReq, revoking,
                   revokedIds, booting>>

KeyStep ==
    \/ \E c \in Callers :
         \/ Arrive(c) \/ ListKeys(c) \/ KeepFlag(c) \/ Lookup(c)
         \/ VerifyRow(c) \/ Remember(c) \/ VerifyFails(c) \/ Recheck(c)
         \/ AfterRecheck(c) \/ Respond(c)
    \/ \E i \in KeyIds :
         \/ CreateApiKey(i) \/ GenKey(i) \/ BootstrapCheck(i)
         \/ BootstrapStore(i) \/ DeleteApiKey(i) \/ InvalidateCached(i)
         \/ DeleteElsewhere(i)
    \/ AuthTick

KeyNext == KeyStep /\ UNCHANGED openMode

KeySpec == KeyInit /\ [][KeyNext]_keyVars

-----------------------------------------------------------------------------
(* Properties.                                                             *)

Ever(i) == i \in keyRows \/ goneAt[i] # Never

\* A request admitted with a key was admitted because a row for that key
\* existed at most TTL (age of the cache entry) plus MaxFlight (age of the
\* answer when it was cached) earlier: eviction, invalidation, refresh and a
\* second row for the same key never stretch it.
StaleKeyBounded ==
    \A c \in Callers : authReq[c].pc = "key" =>
        \E i \in KeyIds :
            /\ KeyOf[i] = authReq[c].tok /\ Ever(i)
            /\ goneAt[i] + TTL + MaxFlight >= authReq[c].at

\* A request admitted without a verified key (as admin, in open mode) saw the
\* key table empty or unreadable at most TTL plus MaxFlight earlier, although
\* a listing that started before a key was created may overwrite the flag the
\* creation set.
KeylessOnlyWhenEmpty ==
    \A c \in Callers : authReq[c].pc = "open" =>
        openMode /\ lastEmpty + TTL + MaxFlight >= authReq[c].at

\* The comment on invalidate_key_id: a deletion by this process takes effect
\* at once, so a request that arrives after every row of its key was deleted
\* and invalidated here is not admitted with it.
DeletionImmediate ==
    \A c \in Callers : ~(authReq[c].pc = "key" /\ authReq[c].late)
=============================================================================
