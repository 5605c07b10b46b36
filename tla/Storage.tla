------------------------------ MODULE Storage ------------------------------
(***************************************************************************)
(* The storage traits (storage/traits.rs) over both backends at once: the   *)
(* same calls are made on a SQLite and on a PostgreSQL database, one table  *)
(* at a time (no method of a trait touches two tables), and every reply and *)
(* every read is compared.                                                 *)
(***************************************************************************)
EXTENDS StoreKit

CONSTANTS
    Tenants,      \* rows of the tenants table of the PostgreSQL database
    Int4Max,      \* largest INTEGER of PostgreSQL
    LocaleLess(_, _),  \* order of texts in a database not created with collation "C"
    Objects,      \* per table, the objects the server stores
    ReadFilters,  \* filters of an export or a cost report
    StoreTimes,   \* instants at which rows are written and pruned
    MaxAge,       \* age at which sessions and taint are stale
    MaxStoreOps   \* bound on the calls

\* The tables both backends hold.
Tables == {"audit", "reviews", "profiles", "workspaces", "rules", "keys",
           "identities", "challenges", "tokens", "sessions", "taint",
           "fingerprints", "limits"}

\* rfc3339_storage: a time that is read back as text is minted in microseconds.
Micros(n) == [at |-> n, digits |-> 6]

\* The values of a u32.
U32 == 0..2 * Int4Max + 1

\* NULL is no value of a column; flags are flags and numbers u32; and the times
\* that one backend keeps as text and the other as an instant are in microseconds.
ASSUME StorageAssumption ==
    /\ Int4Max \in Nat
    /\ NoValue \notin BOOLEAN /\ NoValue # 1
    /\ \A e \in Objects["audit"] :
          e.at \in Int /\ e.usage.hit \in BOOLEAN \cup {NoValue}
    /\ \A r \in Objects["rules"] : r.enabled \in BOOLEAN
    /\ \A s \in Objects["sessions"] : s.blocked \in BOOLEAN /\ s.count \in U32
    /\ \A c \in Objects["limits"] : {c.minute, c.hour, c.burst} \subseteq U32
    /\ \A i \in Objects["identities"] : i.at = Micros(i.at.at)
    /\ \A t \in Objects["tokens"] :
          t.valid \in BOOLEAN /\ t.issued = Micros(t.issued.at) /\ t.exp = Micros(t.exp.at)

VARIABLES
    table,      \* the table the calls are about
    lite, pg,   \* its rows in SQLite and in PostgreSQL
    sameReply,  \* the last call was answered alike by both
    storeOps,
    refused,    \* PostgreSQL has refused a row for its tenant or its range
    collation   \* of the PostgreSQL database
storeVars == <<table, lite, pg, sameReply, storeOps, refused, collation>>

Lite == INSTANCE SqliteStore
Pg == INSTANCE PostgresStore

StoreInit ==
    /\ table \in Tables
    /\ lite = <<>> /\ pg = <<>> /\ sameReply = TRUE /\ storeOps = 0
    /\ refused = FALSE /\ collation \in {"C", "locale"}

\* One call, made on both backends.
Both(onLite, onPg) ==
    /\ storeOps < MaxStoreOps
    /\ storeOps' = storeOps + 1
    /\ lite' = onLite.tbl /\ pg' = onPg.tbl
    /\ sameReply' = (onLite.reply = onPg.reply)
    /\ refused' = (refused \/ onPg.reply = Refused)
    /\ UNCHANGED <<table, collation>>

AuditCalls ==
    /\ table = "audit"
    /\ \E e \in Objects["audit"] : Both(Lite!AuditAppend(lite, e), Pg!AuditAppend(pg, e))

ReviewCalls ==
    /\ table = "reviews"
    /\ \E v \in Objects["reviews"] :
         \/ Both(Lite!ReviewCreate(lite, v), Pg!ReviewCreate(pg, v))
         \/ \E s \in {"approved", "rejected"} :
              Both(Lite!ReviewUpdateStatus(lite, v.id, s),
                   Pg!ReviewUpdateStatus(pg, v.id, s))

PolicyCalls ==
    \/ /\ table = "profiles"
       /\ \E p \in Objects["profiles"] :
            \/ Both(Lite!UpsertProfile(lite, p), Pg!UpsertProfile(pg, p))
            \/ Both(Lite!DeleteProfile(lite, p.agent), Pg!DeleteProfile(pg, p.agent))
    \/ /\ table = "workspaces"
       /\ \E w \in Objects["workspaces"] :
            \/ Both(Lite!UpsertWorkspace(lite, w), Pg!UpsertWorkspace(pg, w))
            \/ Both(Lite!DeleteWorkspace(lite, w.ws), Pg!DeleteWorkspace(pg, w.ws))
    \/ /\ table = "rules"
       /\ \E r \in Objects["rules"] :
            Both(Lite!UpsertWorkspaceRule(lite, r), Pg!UpsertWorkspaceRule(pg, r))

KeyCalls ==
    /\ table = "keys"
    /\ \E k \in Objects["keys"] :
         \/ \E now \in StoreTimes :
              Both(Lite!StoreKeyScoped(lite, k, now), Pg!StoreKeyScoped(pg, k, now))
         \/ Both(Lite!DeleteApiKeyRow(lite, k.id), Pg!DeleteApiKeyRow(pg, k.id))

NhiCalls ==
    \/ /\ table = "identities"
       /\ \E i \in Objects["identities"] :
            \/ Both(Lite!StoreIdentity(lite, i), Pg!StoreIdentity(pg, i))
            \/ Both(Lite!UpdateTrust(lite, i.agent, 1), Pg!UpdateTrust(pg, i.agent, 1))
    \/ /\ table = "challenges"
       /\ \/ \E c \in Objects["challenges"] :
               \/ Both(Lite!StoreChallenge(lite, c), Pg!StoreChallenge(pg, c))
               \/ Both(Lite!DeleteChallenge(lite, c.id), Pg!DeleteChallenge(pg, c.id))
          \/ \E now \in StoreTimes : Both(Lite!PruneExpiredChallenges(lite, now),
                                          Pg!PruneExpiredChallenges(pg, now))
    \/ /\ table = "tokens"
       /\ \/ \E t \in Objects["tokens"] :
               \/ Both(Lite!StoreCapabilityToken(lite, t), Pg!StoreCapabilityToken(pg, t))
               \/ Both(Lite!RevokeCapabilityToken(lite, t.id),
                       Pg!RevokeCapabilityToken(pg, t.id))
          \/ \E now \in StoreTimes : Both(Lite!PruneExpiredCapabilityTokens(lite, now),
                                          Pg!PruneExpiredCapabilityTokens(pg, now))

SessionCalls ==
    \/ /\ table = "sessions"
       /\ \/ \E s \in Objects["sessions"] :
               \/ Both(Lite!StoreSession(lite, s), Pg!StoreSession(pg, s))
               \/ Both(Lite!DeleteSession(lite, s.id), Pg!DeleteSession(pg, s.id))
          \/ \E now \in StoreTimes : Both(Lite!PruneStaleSessions(lite, now, MaxAge),
                                          Pg!PruneStaleSessions(pg, now, MaxAge))
    \/ /\ table = "taint"
       /\ \E now \in StoreTimes :
            \/ \E s \in Objects["taint"] :
                 Both(Lite!UpdateSessionTaint(lite, s.id, s.labels, now),
                      Pg!UpdateSessionTaint(pg, s.id, s.labels, now))
            \/ Both(Lite!PruneStaleTaint(lite, now, MaxAge),
                    Pg!PruneStaleTaint(pg, now, MaxAge))
    \/ /\ table = "fingerprints"
       /\ \E f \in Objects["fingerprints"] :
            \/ Both(Lite!UpsertFingerprint(lite, f), Pg!UpsertFingerprint(pg, f))
            \/ Both(Lite!DeleteFingerprint(lite, f.agent), Pg!DeleteFingerprint(pg, f.agent))
    \/ /\ table = "limits"
       /\ \E c \in Objects["limits"] : Both(Lite!SaveConfig(lite, c), Pg!SaveConfig(pg, c))

StoreNext == \/ AuditCalls \/ ReviewCalls \/ PolicyCalls \/ KeyCalls \/ NhiCalls
             \/ SessionCalls
StoreSpec == StoreInit /\ [][StoreNext]_storeVars

-----------------------------------------------------------------------------
(* Properties.                                                             *)

\* Reads of a row both backends hold.
SameRows(OfLite(_), OfPg(_)) ==
    /\ DOMAIN lite = DOMAIN pg
    /\ \A k \in DOMAIN lite : OfLite(lite[k]) = OfPg(pg[k])

\* Reads of the audit table in an order of texts, or cut at a limit after it.
AuditOrderAgrees ==
    /\ \A n \in 1..Cardinality(DOMAIN lite) : Lite!AuditList(lite, n) = Pg!AuditList(pg, n)
    /\ \A f \in ReadFilters :
         /\ Lite!AuditListFiltered(lite, f) = Pg!AuditListFiltered(pg, f)
         /\ \A c \in {"agent_id", "model", "tool_name"} :
              Lite!CostByColumn(lite, c, f) = Pg!CostByColumn(pg, c, f)
    /\ Lite!AuditStats(lite) = Pg!AuditStats(pg)
    /\ \A a \in {e.agent : e \in Objects["audit"]} \cup {NoValue} :
         Lite!AgentAnalytics(lite, a) = Pg!AgentAnalytics(pg, a)
\* The reads no order of texts takes part in.
AuditSumsAgree ==
    /\ SameRows(Lite!IntoStored, Pg!IntoStored)
    /\ \A f \in ReadFilters :
         /\ Lite!CostSummary(lite, f) = Pg!CostSummary(pg, f)
         /\ \A u \in {"day", "hour"} : Lite!CostOverTime(lite, u, f) = Pg!CostOverTime(pg, u, f)

\* An API key shows the same on both, but for its time: PostgreSQL's falls in the
\* second that SQLite shows.
SameKey(x, y) ==
    /\ x.id = y.id /\ x.scope = y.scope /\ x.agent = y.agent
    /\ x.at = WholeSecond(y.at.at)

\* What holds under every collation: rows, lookups, sums and unordered listings.
RowsAgree ==
    CASE table = "audit" -> AuditSumsAgree
      [] table = "reviews" ->
           \A v \in Objects["reviews"] : Lite!ReviewGet(lite, v.id) = Pg!ReviewGet(pg, v.id)
      [] table = "profiles" ->
           \A p \in Objects["profiles"] :
               Lite!GetAgentProfile(lite, p.agent) = Pg!GetAgentProfile(pg, p.agent)
      [] table = "workspaces" ->
           \A w \in Objects["workspaces"] :
               Lite!GetWorkspacePolicy(lite, w.ws) = Pg!GetWorkspacePolicy(pg, w.ws)
      [] table = "rules" -> SameRows(Lite!RowToPolicyRule, Pg!RowToPolicyRule)
      [] table = "keys" ->
           /\ DOMAIN lite = DOMAIN pg
           /\ \A k \in DOMAIN lite : SameKey(Lite!IntoKey(lite[k]), Pg!IntoKey(pg[k]))
           /\ \A k \in Objects["keys"] :
                Lite!VerifyRawKeyScoped(lite, k.raw) = Pg!VerifyRawKeyScoped(pg, k.raw)
      [] table = "identities" ->
           /\ SameRows(Lite!GetIdentity, Pg!GetIdentity)
           /\ SameRows(Lite!GetSecretKey, Pg!GetSecretKey)
      [] table = "challenges" -> SameRows(Lite!GetChallenge, Pg!GetChallenge)
      [] table = "tokens" -> SameRows(Lite!GetCapabilityToken, Pg!GetCapabilityToken)
      [] table = "sessions" -> Lite!ListSessions(lite) = Pg!ListSessions(pg)
      [] table = "taint" ->
           \A s \in Objects["taint"] :
               Lite!GetSessionTaint(lite, s.id) = Pg!GetSessionTaint(pg, s.id)
      [] table = "fingerprints" -> Lite!ListFingerprints(lite) = Pg!ListFingerprints(pg)
      [] table = "limits" -> Lite!LoadConfig(lite) = Pg!LoadConfig(pg)

\* What also holds when PostgreSQL orders texts by their bytes, as SQLite does:
\* the order of the listings, and what a limit leaves of them.
OrderAgrees ==
    /\ table = "audit" => AuditOrderAgrees
    /\ table = "reviews" => Lite!ReviewList(lite) = Pg!ReviewList(pg)
    /\ table = "profiles" => Lite!ListProfiles(lite) = Pg!ListProfiles(pg)
    /\ table = "workspaces" => Lite!ListWorkspaces(lite) = Pg!ListWorkspaces(pg)
    /\ table = "rules" =>
         \A r \in Objects["rules"] :
             Lite!ListWorkspaceRules(lite, r.ws) = Pg!ListWorkspaceRules(pg, r.ws)
    /\ table = "identities" => Lite!ListIdentities(lite) = Pg!ListIdentities(pg)
    /\ table = "tokens" => Lite!ListCapabilityTokens(lite) = Pg!ListCapabilityTokens(pg)

\* For the same calls both backends reply the same and hold the same: values, sums,
\* buckets, the columns an upsert keeps and the rows a prune takes; and they list
\* in the same order when PostgreSQL compares texts by their bytes.  API keys are
\* shown with different times and are listed in an order of their own.  All of it
\* until PostgreSQL refuses a row, for a tenant it does not know or a number that
\* does not fit an INTEGER.
BackendsAgree == refused \/ (sameReply /\ RowsAgree /\ (collation = "C" => OrderAgrees))
=============================================================================
