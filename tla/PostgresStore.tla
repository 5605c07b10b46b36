---------------------------- MODULE PostgresStore ----------------------------
(***************************************************************************)
(* The PostgreSQL backend (storage/postgres.rs), twin of SqliteStore.       *)
(* Decoding is strict: a column is read as its own type or not at all, and  *)
(* `unwrap_or` then substitutes a constant.  Flags are BOOLEAN, documents   *)
(* JSONB and some times TIMESTAMPTZ, which keeps the instant and not how it *)
(* was written.                                                            *)
(***************************************************************************)
EXTENDS StoreKit

CONSTANTS
    Tenants,         \* rows of the tenants table, which no code of the server writes
    Int4Max,         \* largest INTEGER
    LocaleLess(_, _) \* order of texts under a collation other than "C"

VARIABLE collation   \* the collation of the database, given when it was created

Null == Col("NULL", NoValue)
Int4(n) == Col("INT4", n)
Int8(n) == Col("INT8", n)
Text(v) == Col("TEXT", v)
Json(v) == Col("JSONB", v)
Real(v) == Col("FLOAT8", v)
Flag(b) == Col("BOOL", b)
Timestamptz(t) == Col("TIMESTAMPTZ", t)
Opt(v, Mk(_)) == IF v = NoValue THEN Null ELSE Mk(v)
\* PostgresStorage::new sets the time zone of every connection.
SessionZone == 0
\* Casts of a projection: col::text, and to_char with six digits of seconds.
AsText(col) == Text(col.v)
ToChar(col) == Text([at |-> col.v, digits |-> 6])
GetI32(col, dflt) == TryGet(col, {"INT4"}, dflt)
GetI64(col, dflt) == TryGet(col, {"INT8"}, dflt)
GetText(col) == TryGet(col, {"TEXT"}, NoValue)
GetReal(col, dflt) == TryGet(col, {"FLOAT8"}, dflt)
GetBool(col, dflt) == TryGet(col, {"BOOL"}, dflt)

\* timestamptz::text: fractions of a second, and the offset of the session.
ZonedText(col) == Text([at |-> col.v, digits |-> 6, offset |-> SessionZone])

\* A statement, or the refusal of its row.
If(ok, tbl, stmt) == IF ok THEN stmt ELSE Done(tbl, Refused)
\* The foreign key on tenant_id, and a BIGINT parameter of an INTEGER column.
Referenced(tenant) == tenant \in Tenants \cup {NoValue}
FitsInt4(n) == n <= Int4Max
\* A u32 that is cast to i32 before it is bound wraps, and wraps back when read.
AsI32(n) == IF n <= Int4Max THEN n ELSE n - 2 * (Int4Max + 1)
AsU32(n) == IF n < 0 THEN n + 2 * (Int4Max + 1) ELSE n

\* ORDER BY text: by bytes under "C" only.
TextLess(x, y) == IF collation = "C" THEN x < y ELSE LocaleLess(x, y)

Amount(col) == IF col.v = NoValue THEN 0 ELSE col.v

-----------------------------------------------------------------------------
(* AuditStore.                                                             *)

\* append: the usage is denormalised into columns of its own; created_at is
\* the time of the decision, not of the write.
AuditRow(e) ==
    [event_id |-> Text(e.id), agent_id |-> Text(e.agent),
     tenant_id |-> Opt(e.tenant, Text), tool_name |-> Text(e.tool),
     decision |-> Text(e.decision), risk_score |-> Int4(e.risk),
     timestamp |-> Text(e.at),
     usage_json |-> IF e.usage.some THEN Text(e.usage) ELSE Null,
     cost_usd |-> Opt(e.usage.cost, Real),
     savings_usd |-> Opt(e.usage.savings, Real),
     total_tokens |-> Opt(e.usage.tokens, Int8),
     cache_hit |-> Opt(e.usage.hit, Flag),
     model |-> Opt(e.usage.model, Text),
     created_at |-> Timestamptz(e.at)]
AuditAppend(tbl, e) ==
    If(Referenced(e.tenant) /\ FitsInt4(e.risk), tbl, Insert(tbl, e.id, AuditRow(e)))

\* AuditRow::into_stored: an optional column is read tolerantly.
IntoStored(row) ==
    [id |-> GetText(row.event_id), agent |-> GetText(row.agent_id),
     tenant |-> GetText(row.tenant_id), tool |-> GetText(row.tool_name),
     decision |-> GetText(row.decision), risk |-> GetI32(row.risk_score, 0),
     at |-> GetText(row.timestamp), usage |-> GetText(row.usage_json)]

AuditOrder(x, y) == \/ x.created_at.v > y.created_at.v
                    \/ x.created_at.v = y.created_at.v /\ TextLess(y.event_id.v, x.event_id.v)

\* list: newest first, the event id breaking ties.
AuditList(tbl, limit) ==
    Limit(Select(tbl, DOMAIN tbl, AuditOrder, IntoStored), limit)

\* list_filtered: an absent filter does not restrict; the limit is capped.
AuditListFiltered(tbl, f) ==
    LET from == Boundary(f.from, FALSE)
        to == Boundary(f.to, TRUE)
        keeps(r) == /\ f.agent \in {NoValue, r.agent_id.v}
                    /\ f.decision \in {NoValue, r.decision.v}
                    /\ f.tenant \in {NoValue, r.tenant_id.v}
                    /\ InRange(Sec(r.timestamp.v), from, to)
        cap == IF f.limit < MaxExport THEN f.limit ELSE MaxExport
    IN IF Refused \in {from, to} THEN Refused
       ELSE Limit(Select(tbl, {k \in DOMAIN tbl : keeps(tbl[k])}, AuditOrder,
                         IntoStored), cap)

\* Grouped counts <<key, count>>, most frequent first.
Ranked(tbl, Of(_)) ==
    OrderBy({<<g, Cardinality(Group(tbl, DOMAIN tbl, Of, g))>> :
                g \in Groups(tbl, DOMAIN tbl, Of)},
            LAMBDA x, y : x[2] > y[2] \/ (x[2] = y[2] /\ TextLess(x[1], y[1])))

\* stats; an average is kept as its sum and count.
AuditStats(tbl) ==
    LET decision(r) == r.decision.v
        size == Cardinality(DOMAIN tbl)
    IN [total |-> size,
        avg |-> <<Sum(tbl, DOMAIN tbl, LAMBDA r : r.risk_score.v), size>>,
        decisions |-> {<<d, Cardinality(Group(tbl, DOMAIN tbl, decision, d))>> :
                          d \in Groups(tbl, DOMAIN tbl, decision)},
        agents |-> Limit(Ranked(tbl, LAMBDA r : r.agent_id.v), TopStats),
        tools |-> Limit(Ranked(tbl, LAMBDA r : r.tool_name.v), TopStats)]

\* agent_analytics: three grouped queries, folded per agent.
AgentAnalytics(tbl, agent) ==
    LET all == {k \in DOMAIN tbl : agent \in {NoValue, tbl[k].agent_id.v}}
        agentOf(r) == r.agent_id.v
        of(a) == Group(tbl, all, agentOf, a)
        totals == {<<a, Cardinality(of(a)),
                     <<Sum(tbl, of(a), LAMBDA r : r.risk_score.v), Cardinality(of(a))>>,
                     Max(Groups(tbl, of(a), LAMBDA r : r.timestamp.v))>> :
                     a \in Groups(tbl, all, agentOf)}
        counts(Of(_)) == {<<tbl[k].agent_id.v, Of(tbl[k]),
                            Cardinality(Group(tbl, of(tbl[k].agent_id.v), Of, Of(tbl[k])))>>
                             : k \in all}
    IN FoldAgentAnalytics(
           OrderBy(totals, LAMBDA x, y : x[2] > y[2] \/ (x[2] = y[2] /\ TextLess(x[1], y[1]))),
           counts(LAMBDA r : r.decision.v), counts(LAMBDA r : r.tool_name.v))

\* The rows of a cost report, and their sums.
Priced(tbl, from, to) ==
    {k \in DOMAIN tbl : InRange(Sec(tbl[k].timestamp.v), from, to)}
CostOf(tbl, S) == [net |-> Sum(tbl, S, LAMBDA r : Amount(r.cost_usd)),
                   savings |-> Sum(tbl, S, LAMBDA r : Amount(r.savings_usd)),
                   tokens |-> Sum(tbl, S, LAMBDA r : Amount(r.total_tokens))]
Hits(tbl, S) == Cardinality({k \in S : tbl[k].cache_hit.v = TRUE})
WithUsage(tbl, S) == {k \in S : tbl[k].usage_json.v # NoValue}

CostSummary(tbl, f) ==
    LET from == Boundary(f.from, FALSE)
        to == Boundary(f.to, TRUE)
        S == Priced(tbl, from, to)
    IN IF Refused \in {from, to} THEN Refused
       ELSE [cost |-> CostOf(tbl, S), hits |-> Hits(tbl, S),
             actions |-> Cardinality(WithUsage(tbl, S))]

\* cost_by_column: agent_id, model or tool_name, dearest first.
CostByColumn(tbl, column, f) ==
    LET from == Boundary(f.from, FALSE)
        to == Boundary(f.to, TRUE)
        S == WithUsage(tbl, Priced(tbl, from, to))
        of(g) == Group(tbl, S, LAMBDA r : r[column].v, g)
        groups == {[key |-> g, cost |-> CostOf(tbl, of(g)),
                    actions |-> Cardinality(of(g)), hits |-> Hits(tbl, of(g))]
                     : g \in Groups(tbl, S, LAMBDA r : r[column].v)}
    IN IF Refused \in {from, to} THEN Refused
       ELSE Limit(OrderBy(groups, LAMBDA x, y :
                      \/ x.cost.net > y.cost.net
                      \/ x.cost.net = y.cost.net /\ TextLess(x.key, y.key)), f.limit)

\* cost_over_time: date_trunc in the zone of the session, labelled as UTC.
CostOverTime(tbl, unit, f) ==
    LET from == Boundary(f.from, FALSE)
        to == Boundary(f.to, TRUE)
        S == WithUsage(tbl, Priced(tbl, from, to))
        bucket(r) == IF unit = "day" THEN DayStart(r.timestamp.v + SessionZone)
                     ELSE HourStart(r.timestamp.v + SessionZone)
    IN IF Refused \in {from, to} THEN Refused
       ELSE OrderBy({[bucket |-> b,
                      cost |-> CostOf(tbl, Group(tbl, S, bucket, b)),
                      actions |-> Cardinality(Group(tbl, S, bucket, b))]
                       : b \in Groups(tbl, S, bucket)},
                    LAMBDA x, y : x.bucket < y.bucket)

-----------------------------------------------------------------------------
(* ReviewStore.                                                            *)

ReviewRow(v) ==
    [id |-> Text(v.id), status |-> Text(v.status),
     risk_score |-> Int4(v.risk), created_at |-> Text(v.at)]
ReviewCreate(tbl, v) == If(FitsInt4(v.risk), tbl, Insert(tbl, v.id, ReviewRow(v)))
IntoReview(row) == [id |-> GetText(row.id), status |-> GetText(row.status),
                    risk |-> GetI32(row.risk_score, 0), at |-> GetText(row.created_at)]
ReviewGet(tbl, id) == IF id \in DOMAIN tbl THEN IntoReview(tbl[id])
                      ELSE "ReviewNotFound"

\* update_status: one guarded UPDATE; a resolution is final.
ReviewUpdateStatus(tbl, id, status) ==
    IF id \in DOMAIN tbl /\ tbl[id].status.v = "pending"
    THEN LET new == [tbl EXCEPT ![id].status = Text(status)]
         IN Done(new, ReviewGet(new, id))
    ELSE Done(tbl, IF id \in DOMAIN tbl THEN "InvalidRequest"
                   ELSE "ReviewNotFound")

ReviewList(tbl) ==
    Select(tbl, DOMAIN tbl, LAMBDA x, y :
             \/ x.created_at.v < y.created_at.v
             \/ x.created_at.v = y.created_at.v /\ TextLess(x.id.v, y.id.v), IntoReview)

-----------------------------------------------------------------------------
(* PolicyStore.                                                            *)

ProfileRow(p) ==
    [agent_id |-> Text(p.agent), tenant_id |-> Opt(p.tenant, Text),
     workspace_id |-> Text(p.ws),
     approved_tools |-> Json(p.tools), tool_trust |-> Real(p.trust)]
UpsertProfile(tbl, p) ==
    If(Referenced(p.tenant), tbl, Upsert(tbl, p.agent, ProfileRow(p), {}))
IntoProfile(row) ==
    [agent |-> GetText(row.agent_id), tenant |-> GetText(row.tenant_id),
     ws |-> GetText(row.workspace_id), tools |-> GetText(AsText(row.approved_tools)),
     trust |-> GetReal(row.tool_trust, 7)]
GetAgentProfile(tbl, a) == IF a \in DOMAIN tbl THEN IntoProfile(tbl[a])
                           ELSE "AgentNotFound"
ListProfiles(tbl) ==
    Select(tbl, DOMAIN tbl, LAMBDA x, y : TextLess(x.agent_id.v, y.agent_id.v), IntoProfile)

WorkspaceRow(w) ==
    [workspace_id |-> Text(w.ws), tenant_id |-> Opt(w.tenant, Text),
     tools |-> Json(w.tools), threshold_block |-> Int4(w.block),
     threshold_review |-> Int4(w.review)]
UpsertWorkspace(tbl, w) ==
    If(Referenced(w.tenant) /\ FitsInt4(w.block) /\ FitsInt4(w.review), tbl,
       Upsert(tbl, w.ws, WorkspaceRow(w), {}))
\* Mutant: the thresholds are read as i64.
IntoPolicyI64(row) ==
    [ws |-> GetText(row.workspace_id), tenant |-> GetText(row.tenant_id),
     tools |-> GetText(AsText(row.tools)),
     block |-> GetI64(row.threshold_block, 70),
     review |-> GetI64(row.threshold_review, 35)]

IntoPolicy(row) ==
    [ws |-> GetText(row.workspace_id), tenant |-> GetText(row.tenant_id),
     tools |-> GetText(AsText(row.tools)),
     block |-> GetI32(row.threshold_block, 70),
     review |-> GetI32(row.threshold_review, 35)]
GetWorkspacePolicy(tbl, w) == IF w \in DOMAIN tbl THEN IntoPolicy(tbl[w])
                              ELSE "WorkspaceNotFound"
ListWorkspaces(tbl) ==
    Select(tbl, DOMAIN tbl, LAMBDA x, y : TextLess(x.workspace_id.v, y.workspace_id.v),
         IntoPolicy)

RuleRow(r) ==
    [id |-> Text(r.id), workspace_id |-> Text(r.ws),
     priority |-> Int4(r.priority), decision |-> Text(r.decision),
     enabled |-> Flag(r.enabled)]
UpsertWorkspaceRule(tbl, r) == Upsert(tbl, r.id, RuleRow(r), {})
RowToPolicyRule(row) ==
    [id |-> GetText(row.id), priority |-> GetI32(row.priority, 0),
     decision |-> GetText(row.decision), enabled |-> GetBool(row.enabled, TRUE)]
ListWorkspaceRules(tbl, ws) ==
    Select(tbl, {k \in DOMAIN tbl : tbl[k].workspace_id.v = ws}, LAMBDA x, y :
             \/ x.priority.v < y.priority.v
             \/ x.priority.v = y.priority.v /\ TextLess(x.id.v, y.id.v), RowToPolicyRule)
DeleteProfile(tbl, a) == DeleteKey(tbl, a)
DeleteWorkspace(tbl, w) == DeleteKey(tbl, w)

-----------------------------------------------------------------------------
(* ApiKeyStore.  A raw key is [prefix, rest]: eight characters and the rest. *)

\* created_at is the default of the column, NOW().
KeyRow(k, now) ==
    [id |-> Text(k.id), key_hash |-> Text(k.raw),
     key_prefix |-> Text(k.raw.prefix), scope |-> Text(k.scope),
     agent_id |-> Opt(k.agent, Text), created_at |-> Timestamptz(now)]
StoreKeyScoped(tbl, k, now) == Insert(tbl, k.id, KeyRow(k, now))
DeleteApiKeyRow(tbl, id) == DeleteKey(tbl, id)
KeyScope(s) == IF s = "agent" THEN "agent" ELSE "admin"

\* verify_raw_key_scoped: every answer the scan of the candidates may give.
VerifyRawKeyScoped(tbl, raw) ==
    {[id |-> tbl[k].id.v, scope |-> KeyScope(tbl[k].scope.v),
      agent |-> tbl[k].agent_id.v] :
        k \in {j \in DOMAIN tbl : /\ tbl[j].key_prefix.v = raw.prefix
                                  /\ tbl[j].key_hash.v = raw}}
IntoKey(row) == [id |-> GetText(row.id), scope |-> GetText(row.scope),
                 agent |-> GetText(row.agent_id), at |-> GetText(ZonedText(row.created_at))]
\* list_keys: `created_at` names the text of the listing, which in one zone and by
\* bytes sorts as the instants do.
ListKeys(tbl) ==
    Select(tbl, DOMAIN tbl, LAMBDA x, y :
             \/ x.created_at.v > y.created_at.v
             \/ x.created_at.v = y.created_at.v /\ TextLess(y.id.v, x.id.v), IntoKey)

-----------------------------------------------------------------------------
(* NhiStore.  A time that is read back as text is [at, digits].             *)

IdentityRow(i) ==
    [agent_id |-> Text(i.agent), secret |-> Text(i.secret),
     trust_score |-> Real(i.trust), caps |-> Json(i.caps),
     created_at |-> Timestamptz(i.at.at)]
StoreIdentity(tbl, i) ==
    Upsert(tbl, i.agent, IdentityRow(i), {"created_at", "agent_id"})
UpdateTrust(tbl, a, t) ==
    Done(IF a \in DOMAIN tbl THEN [tbl EXCEPT ![a].trust_score = Real(t)] ELSE tbl,
         "ok")
GetIdentity(row) ==
    [agent |-> GetText(row.agent_id), trust |-> GetReal(row.trust_score, 0),
     caps |-> GetText(AsText(row.caps)), at |-> GetText(ToChar(row.created_at))]
GetSecretKey(row) == GetText(row.secret)
ListIdentities(tbl) ==
    Select(tbl, DOMAIN tbl, LAMBDA x, y :
             \/ x.created_at.v < y.created_at.v
             \/ x.created_at.v = y.created_at.v /\ TextLess(x.agent_id.v, y.agent_id.v),
         GetIdentity)

ChallengeRow(c) ==
    [agent_id |-> Text(c.agent), nonce |-> Text(c.nonce),
     expires_at |-> Text(c.exp)]
StoreChallenge(tbl, c) == Upsert(tbl, c.id, ChallengeRow(c), {})
GetChallenge(row) == [agent |-> GetText(row.agent_id), nonce |-> GetText(row.nonce),
                      exp |-> GetText(row.expires_at)]
DeleteChallenge(tbl, id) == DeleteKey(tbl, id)
PruneExpiredChallenges(tbl, now) ==
    DeleteWhere(tbl, LAMBDA r : r.expires_at.v < now)

TokenRow(t) ==
    [token_id |-> Text(t.id), agent_id |-> Text(t.agent),
     caps |-> Json(t.caps), issued_at |-> Timestamptz(t.issued.at),
     expires_at |-> Timestamptz(t.exp.at), valid |-> Flag(t.valid)]
\* A stored token is never rewritten but for its valid flag.
StoreCapabilityToken(tbl, t) ==
    Upsert(tbl, t.id, TokenRow(t),
           {"token_id", "agent_id", "caps", "issued_at", "expires_at"})
GetCapabilityToken(row) ==
    [id |-> GetText(row.token_id), agent |-> GetText(row.agent_id),
     caps |-> GetText(AsText(row.caps)), issued |-> GetText(ToChar(row.issued_at)),
     exp |-> GetText(ToChar(row.expires_at)), valid |-> GetBool(row.valid, FALSE)]
RevokeCapabilityToken(tbl, id) ==
    IF id \in DOMAIN tbl THEN Done([tbl EXCEPT ![id].valid = Flag(FALSE)], TRUE)
    ELSE Done(tbl, FALSE)
PruneExpiredCapabilityTokens(tbl, now) ==
    DeleteWhere(tbl, LAMBDA r : r.expires_at.v < now)
ListCapabilityTokens(tbl) ==
    Select(tbl, DOMAIN tbl, LAMBDA x, y :
             \/ x.issued_at.v > y.issued_at.v
             \/ x.issued_at.v = y.issued_at.v /\ TextLess(y.token_id.v, x.token_id.v),
         GetCapabilityToken)

-----------------------------------------------------------------------------
(* SessionStore, TaintStore, FingerprintStore, RateLimitStore.             *)

SessionRow(s) ==
    [session_id |-> Text(s.id), state |-> Text(s.state),
     blocked |-> Flag(s.blocked), block_count |-> Int4(AsI32(s.count)),
     nodes_json |-> Json(s.nodes), created_at |-> Int8(s.made),
     last_activity |-> Int8(s.last)]
StoreSession(tbl, s) ==
    Upsert(tbl, s.id, SessionRow(s), {"created_at", "session_id"})
SessionFromRow(row) ==
    [id |-> GetText(row.session_id), state |-> GetText(row.state),
     blocked |-> GetBool(row.blocked, FALSE),
     count |-> AsU32(GetI32(row.block_count, 0)),
     nodes |-> GetText(AsText(row.nodes_json)), made |-> GetI64(row.created_at, 0),
     last |-> GetI64(row.last_activity, 0)]
\* list_sessions orders by last_activity only: among equals in any order.
ListSessions(tbl) == {SessionFromRow(tbl[k]) : k \in DOMAIN tbl}
DeleteSession(tbl, id) == DeleteKey(tbl, id)
PruneStaleSessions(tbl, now, maxAge) ==
    DeleteWhere(tbl, LAMBDA r : r.last_activity.v < now - maxAge)

TaintRow(labels, now) ==
    [labels_json |-> Json(labels), updated_at |-> Timestamptz(now)]
UpdateSessionTaint(tbl, id, labels, now) ==
    Upsert(tbl, id, TaintRow(labels, now), {})
GetSessionTaint(tbl, id) == IF id \in DOMAIN tbl THEN GetText(AsText(tbl[id].labels_json))
                            ELSE {}
PruneStaleTaint(tbl, now, maxAge) ==
    DeleteWhere(tbl, LAMBDA r : r.updated_at.v < now - maxAge)

FingerprintRow(f) ==
    [agent_id |-> Text(f.agent), total |-> Int8(f.total),
     hourly |-> Json(f.hourly), avg_risk |-> Real(f.risk),
     last_seen |-> Text(f.last)]
UpsertFingerprint(tbl, f) ==
    Upsert(tbl, f.agent, FingerprintRow(f), {"agent_id"})
FingerprintFromRow(row) ==
    [agent |-> GetText(row.agent_id), total |-> GetI64(row.total, 0),
     hourly |-> GetText(AsText(row.hourly)), risk |-> GetReal(row.avg_risk, 0),
     last |-> GetText(row.last_seen)]
ListFingerprints(tbl) == {FingerprintFromRow(tbl[k]) : k \in DOMAIN tbl}
DeleteFingerprint(tbl, a) == DeleteKey(tbl, a)

LimitsRow(c) ==
    [max_per_minute |-> Int4(AsI32(c.minute)), max_per_hour |-> Int4(AsI32(c.hour)),
     burst_limit |-> Int4(AsI32(c.burst))]
SaveConfig(tbl, c) == Upsert(tbl, 1, LimitsRow(c), {})
LoadConfig(tbl) ==
    IF 1 \notin DOMAIN tbl THEN NoValue
    ELSE [minute |-> AsU32(GetI32(tbl[1].max_per_minute, 60)),
          hour |-> AsU32(GetI32(tbl[1].max_per_hour, 1000)),
          burst |-> AsU32(GetI32(tbl[1].burst_limit, 10))]
=============================================================================
