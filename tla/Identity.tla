------------------------------ MODULE Identity ------------------------------
(***************************************************************************)
(* Non-human identities (layer 3): the in-memory registry and its write-    *)
(* behind rows, challenges, and capability tokens, which authorize an       *)
(* agent-scoped key to read its own records                                *)
(* (modules/nhi/crypto_identity.rs, auth/middleware.rs, the /v1/nhi         *)
(* handlers, NhiStore).                                                    *)
(*                                                                         *)
(* An HMAC is the pair of its key and its message: it verifies under that   *)
(* key for that message only.  The master seed is the environment's or, if  *)
(* that is unset, new in every process.                                     *)
(***************************************************************************)
EXTENDS Naturals, FiniteSets

CONSTANTS
    Agents,         \* agent ids
    Tokens,         \* ids of capability tokens (UUIDs: each minted once)
    Challenges,     \* ids of challenges (UUIDs: each issued once)
    Readers,        \* request slots for reads of an agent's own records
    CapLists,       \* lists of capabilities an admin asks for, as sets
    ChallengeTtl,   \* 60 seconds, in ticks
    TokenTtl,       \* ttlSeconds of the tokens, in ticks
    MaxNhiClock,    \* bound on the clock
    MaxBoots,       \* bound on restarts
    MaxIdWrites     \* bound on identity writes under way

ASSUME NhiAssumption ==
    /\ \A caps \in CapLists : caps \subseteq {"read:self", "*", "other"}
    /\ ChallengeTtl \in Nat \ {0} /\ TokenTtl \in Nat \ {0}
    /\ MaxNhiClock \in Nat /\ MaxBoots \in Nat /\ MaxIdWrites \in Nat

VARIABLES
    fixedSeed,   \* IAGA_SENTINEL_NHI_MASTER_SEED is set
    boots,       \* number of restarts: names the process
    registry,    \* IDENTITIES: agent -> secret
    idRows,      \* nhi_identities: agent -> secret
    idWrites,    \* store_identity calls under way: [agent, secret]
    tokenRows,   \* capability_tokens
    minted,      \* what each token was minted as (ghost)
    revokedTok,  \* tokens whose revocation was acknowledged (ghost)
    pending,     \* CHALLENGES: challenge -> [agent, made]
    attested,    \* successful attestations: <<challenge, agent, at, made>>
    reader,      \* the request of every reader slot
    nhiClock

nhiVars == <<fixedSeed, boots, registry, idRows, idWrites, tokenRows, minted,
             revokedTok, pending, attested, reader, nhiClock>>

NoReader == [pc |-> "idle"]

NhiInit ==
    /\ fixedSeed \in BOOLEAN /\ boots = 0 /\ nhiClock = 0
    /\ registry = <<>> /\ idRows = <<>> /\ idWrites = {}
    /\ tokenRows = <<>> /\ minted = <<>> /\ revokedTok = {}
    /\ pending = <<>> /\ attested = {}
    /\ reader = [r \in Readers |-> NoReader]

-----------------------------------------------------------------------------
(* Keys and signatures.                                                    *)

\* derive_keypair: HMAC of the agent id under the process's seed.
Derive(a) == <<IF fixedSeed THEN 0 ELSE boots, a>>
\* A hydrated identity whose secret could not be read gets the empty key.
EmptyKey == <<"empty">>

Mac(key, msg) == [key |-> key, msg |-> msg]
Put(f, k, v) == [x \in DOMAIN f \cup {k} |-> IF x = k THEN v ELSE f[x]]
Drop(f, K) == [x \in DOMAIN f \ K |-> f[x]]

\* The fields the signature of a token covers.  The code joins the capabilities
\* with a comma it does not escape, so ["a,b"] and ["a", "b"] sign alike; the
\* names NhiAssumption admits hold no comma, and for them the text determines
\* the list.
TokenPayload(t, row) == <<t, row.agent, row.caps, row.exp>>

\* Mutant: the row is trusted, as before the signature was checked.
SignatureUnchecked(t, row) == row.agent \in DOMAIN registry

\* verify_token_signature: fails closed when the agent is not registered.
VerifyTokenSignature(t, row) ==
    /\ row.agent \in DOMAIN registry
    /\ row.sig = Mac(registry[row.agent], TokenPayload(t, row))

\* token_grants: not revoked, intact, not expired, and the capability listed.
TokenGrants(t, row, cap) ==
    /\ row.valid
    /\ VerifyTokenSignature(t, row)
    /\ nhiClock <= row.exp
    /\ {cap, "*"} \cap row.caps # {}

-----------------------------------------------------------------------------
(* Identities.                                                             *)

\* register_identity replaces what is there with a key derived afresh.
Register(a) ==
    /\ Cardinality(idWrites) < MaxIdWrites
    /\ registry' = Put(registry, a, Derive(a))
    /\ idWrites' = idWrites \cup {[agent |-> a, secret |-> Derive(a)]}

\* register_identity_handler (admin): memory first, then the row.
RegisterIdentity(a) ==
    /\ Register(a)
    /\ UNCHANGED <<fixedSeed, boots, idRows, tokenRows, minted, revokedTok,
                   pending, attested, reader, nhiClock>>

\* Layer 3 of the pipeline: an unknown agent is registered on first sight and
\* its row written behind.
EnsureIdentity(a) ==
    /\ a \notin DOMAIN registry
    /\ Register(a)
    /\ UNCHANGED <<fixedSeed, boots, idRows, tokenRows, minted, revokedTok,
                   pending, attested, reader, nhiClock>>

\* store_identity: an upsert, which may fail and is then only logged (or
\* answered to the admin); the registry keeps the identity either way.
StoreIdentity(w) ==
    /\ w \in idWrites
    /\ idWrites' = idWrites \ {w}
    /\ idRows' \in {idRows, Put(idRows, w.agent, w.secret)}
    /\ UNCHANGED <<fixedSeed, boots, registry, tokenRows, minted, revokedTok,
                   pending, attested, reader, nhiClock>>

\* A restart: memory is gone and cmd_serve hydrates the registry from the
\* rows.  The list may fail, and so may the read of one secret.
NhiRestart ==
    /\ boots < MaxBoots
    /\ boots' = boots + 1
    /\ \E listed \in {DOMAIN idRows, {}} : \E lost \in SUBSET listed :
         registry' = [a \in listed |-> IF a \in lost THEN EmptyKey ELSE idRows[a]]
    /\ pending' = <<>> /\ idWrites' = {}
    /\ reader' = [r \in Readers |-> NoReader]
    /\ UNCHANGED <<fixedSeed, idRows, tokenRows, minted, revokedTok, attested,
                   nhiClock>>

-----------------------------------------------------------------------------
(* Attestation.                                                            *)

\* create_challenge: only for a registered agent.
CreateChallenge(h, a) ==
    /\ h \notin DOMAIN pending /\ \A x \in attested : x[1] # h
    /\ a \in DOMAIN registry
    /\ pending' = Put(pending, h, [agent |-> a, made |-> nhiClock])
    /\ UNCHANGED <<fixedSeed, boots, registry, idRows, idWrites, tokenRows,
                   minted, revokedTok, attested, reader, nhiClock>>

\* What the lock is held across: the challenge exists, is the caller's, has
\* not expired, and the nonce is signed with the agent's key.
AttestationOk(h, a, sig) ==
    /\ h \in DOMAIN pending
    /\ pending[h].agent = a
    /\ nhiClock <= pending[h].made + ChallengeTtl
    /\ a \in DOMAIN registry /\ sig = Mac(registry[a], h)

\* Mutant: the challenge stays.
KeepChallenge(h) == pending' = pending

\* A challenge is consumed by the attestation that succeeds, and only by it.
ConsumeChallenge(h) == pending' = Drop(pending, {h})

\* verify_attestation for agent a, signed by b with the key b was given: the
\* caller may be an admin, so only the signature ties the answer to a.
VerifyAttestation(h, a, b) ==
    /\ \E sig \in {Mac(Derive(b), h), Mac(EmptyKey, h)} :
         /\ AttestationOk(h, a, sig)
         /\ ConsumeChallenge(h)
         /\ attested' = attested \cup {<<h, a, nhiClock, pending[h].made>>}
    /\ UNCHANGED <<fixedSeed, boots, registry, idRows, idWrites, tokenRows,
                   minted, revokedTok, reader, nhiClock>>

\* prune_expired_challenges: 60 seconds after they were made.
PruneChallenges ==
    /\ pending' = Drop(pending, {h \in DOMAIN pending :
                                   nhiClock - pending[h].made >= ChallengeTtl})
    /\ pending' # pending
    /\ UNCHANGED <<fixedSeed, boots, registry, idRows, idWrites, tokenRows,
                   minted, revokedTok, attested, reader, nhiClock>>

-----------------------------------------------------------------------------
(* Capability tokens.                                                      *)

\* issue_token_handler (admin): minted for a registered agent, then stored.
\* When the row cannot be stored the token is not handed out.
IssueToken(t, a, caps) ==
    /\ t \notin DOMAIN minted
    /\ a \in DOMAIN registry
    /\ LET bare == [agent |-> a, caps |-> caps, exp |-> nhiClock + TokenTtl]
           row == [agent |-> a, caps |-> caps, exp |-> bare.exp, valid |-> TRUE,
                   sig |-> Mac(registry[a], TokenPayload(t, bare))]
       IN /\ tokenRows' = Put(tokenRows, t, row)
          /\ minted' = Put(minted, t, bare)
    /\ UNCHANGED <<fixedSeed, boots, registry, idRows, idWrites, revokedTok,
                   pending, attested, reader, nhiClock>>

\* revoke_capability_token: the row is kept and marked.
Revoke(t) == tokenRows' = [tokenRows EXCEPT ![t].valid = FALSE]

RevokeToken(t) ==
    /\ t \in DOMAIN tokenRows
    /\ Revoke(t)
    /\ revokedTok' = revokedTok \cup {t}
    /\ UNCHANGED <<fixedSeed, boots, registry, idRows, idWrites, minted,
                   pending, attested, reader, nhiClock>>

\* prune_expired_capability_tokens, every cleanup interval.
PruneTokens ==
    /\ tokenRows' = Drop(tokenRows, {t \in DOMAIN tokenRows :
                                       tokenRows[t].exp < nhiClock})
    /\ tokenRows' # tokenRows
    /\ UNCHANGED <<fixedSeed, boots, registry, idRows, idWrites, minted,
                   revokedTok, pending, attested, reader, nhiClock>>

\* A row whose signed columns no longer say what was signed.
CorruptRow(t) ==
    /\ t \in DOMAIN tokenRows
    /\ \E row \in {[tokenRows[t] EXCEPT !.caps = {"*"}],
                   [tokenRows[t] EXCEPT !.exp = MaxNhiClock]}
                  \cup {[tokenRows[t] EXCEPT !.agent = a] : a \in Agents} :
         /\ row # tokenRows[t]
         /\ tokenRows' = [tokenRows EXCEPT ![t] = row]
    /\ UNCHANGED <<fixedSeed, boots, registry, idRows, idWrites, minted,
                   revokedTok, pending, attested, reader, nhiClock>>

\* A key bound to agent `key` asks for agent a's own record (analytics,
\* profile, fingerprint, rate-limit status) with token t.  authorize_agent_id
\* comes before any token is looked at.
SelfRead(r, key, a, t) ==
    /\ reader[r].pc = "idle"
    /\ key = a
    /\ reader' = [reader EXCEPT ![r] =
           [pc |-> "fetch", key |-> key, agent |-> a, tok |-> t,
            late |-> t \in revokedTok]]
    /\ UNCHANGED <<fixedSeed, boots, registry, idRows, idWrites, tokenRows,
                   minted, revokedTok, pending, attested, nhiClock>>

\* get_capability_token: no row and a row of another agent are refused alike.
FetchToken(r) ==
    /\ reader[r].pc = "fetch"
    /\ LET q == reader[r]
       IN reader' = [reader EXCEPT ![r] =
              IF q.tok \in DOMAIN tokenRows /\ tokenRows[q.tok].agent = q.agent
              THEN [pc |-> "check", key |-> q.key, agent |-> q.agent,
                    tok |-> q.tok, late |-> q.late, row |-> tokenRows[q.tok]]
              ELSE NoReader]
    /\ UNCHANGED <<fixedSeed, boots, registry, idRows, idWrites, tokenRows,
                   minted, revokedTok, pending, attested, nhiClock>>

\* The row is judged by the registry and the clock of this moment.
JudgeToken(r) ==
    /\ reader[r].pc = "check"
    /\ LET q == reader[r]
       IN reader' = [reader EXCEPT ![r] =
              IF TokenGrants(q.tok, q.row, "read:self")
              THEN [pc |-> "granted", key |-> q.key, agent |-> q.agent,
                    tok |-> q.tok, late |-> q.late, at |-> nhiClock]
              ELSE NoReader]
    /\ UNCHANGED <<fixedSeed, boots, registry, idRows, idWrites, tokenRows,
                   minted, revokedTok, pending, attested, nhiClock>>

FinishRead(r) ==
    /\ reader[r].pc = "granted"
    /\ reader' = [reader EXCEPT ![r] = NoReader]
    /\ UNCHANGED <<fixedSeed, boots, registry, idRows, idWrites, tokenRows,
                   minted, revokedTok, pending, attested, nhiClock>>

NhiTick ==
    /\ nhiClock < MaxNhiClock
    /\ nhiClock' = nhiClock + 1
    /\ UNCHANGED <<fixedSeed, boots, registry, idRows, idWrites, tokenRows,
                   minted, revokedTok, pending, attested, reader>>

IdentityStep ==
    \/ \E a \in Agents : RegisterIdentity(a) \/ EnsureIdentity(a)
    \/ \E w \in idWrites : StoreIdentity(w)
    \/ NhiRestart
    \/ NhiTick

ChallengeStep ==
    \/ \E h \in Challenges : \E a, b \in Agents :
         CreateChallenge(h, a) \/ VerifyAttestation(h, a, b)
    \/ PruneChallenges

TokenStep ==
    \/ \E t \in Tokens : \E a \in Agents, caps \in CapLists :
         IssueToken(t, a, caps)
    \/ \E t \in Tokens : RevokeToken(t) \/ CorruptRow(t)
    \/ PruneTokens
    \/ \E r \in Readers : \E k, a \in Agents, t \in Tokens : SelfRead(r, k, a, t)
    \/ \E r \in Readers : FetchToken(r) \/ JudgeToken(r) \/ FinishRead(r)

\* Challenges and tokens meet only in the registry.
NhiNext == IdentityStep \/ ChallengeStep \/ TokenStep
NhiSpec == NhiInit /\ [][NhiNext]_nhiVars

-----------------------------------------------------------------------------
(* Properties.                                                             *)

\* An agent key that reads a record reads its own, and by a token an admin
\* minted for that very agent with that very capability, unexpired, and not
\* revoked before the request arrived: corrupted rows, restarts that lose or
\* change secrets, and re-registration never widen it.
SelfReadSound ==
    \A r \in Readers : reader[r].pc = "granted" =>
        LET q == reader[r]
        IN /\ q.key = q.agent /\ ~q.late
           /\ q.tok \in DOMAIN minted
           /\ minted[q.tok].agent = q.agent
           /\ {"read:self", "*"} \cap minted[q.tok].caps # {}
           /\ q.at <= minted[q.tok].exp

\* A challenge attests once, within its lifetime, also when two verifications
\* race and when it was pruned or the process restarted meanwhile.
AttestsOnce ==
    /\ \A x, y \in attested : x[1] = y[1] => x = y
    /\ \A x \in attested : x[3] <= x[4] + ChallengeTtl
    /\ \A x \in attested : x[1] \notin DOMAIN pending
=============================================================================
