------------------------------ MODULE McpProxy ------------------------------
(***************************************************************************)
(* The MCP proxy between a client and a downstream MCP server: one loop     *)
(* that governs every tools/call, forwards what is allowed, and takes the   *)
(* next line of the downstream pipe for the answer; and the deterministic   *)
(* response cache in front of the downstream server                        *)
(* (mcp_proxy/proxy_server.rs, tool_interceptor.rs, protocol.rs,            *)
(* modules/cost/cache.rs).  The pipeline's verdict is any of its outcomes,  *)
(* an error included.                                                      *)
(***************************************************************************)
EXTENDS Naturals, Sequences, FiniteSets, TLC

CONSTANTS
    ProxyCalls,    \* the client's messages: [kind, key, read], see Kinds
    MaxProxyMsgs,  \* bound on the client's messages
    CacheTtl,      \* IAGA_SENTINEL_COST_CACHE_TTL_MS, in ticks
    CacheMax,      \* IAGA_SENTINEL_COST_CACHE_MAX_ENTRIES
    MaxProxyClock  \* bound on the clock

\* What a line of the client is: a tools/call or another request, the same
\* without an id (a notification), or not JSON-RPC at all.
Kinds == {"call", "other", "callNotification", "notification", "garbage",
          "badParams"}

ASSUME ProxyAssumption ==
    /\ \A m \in ProxyCalls : m.kind \in Kinds /\ m.read \in BOOLEAN
    /\ MaxProxyMsgs \in Nat /\ CacheTtl \in Nat /\ CacheMax \in Nat \ {0}
    /\ MaxProxyClock \in Nat

VARIABLES
    honest,     \* the downstream server answers every request once, with one
                \*  line within the cap, and sends nothing else
    pxPc,       \* where the loop is
    pxMsg,      \* the message being handled, or handled last: what it asks,
                \*  and what was done for it (verdict, audited, sent, got)
    pxCount,    \* messages read: the id of the next request
    toServer,   \* requests the downstream server has not answered
    fromServer, \* lines the downstream server has written: [re, ok]
    serverUp,
    respCache,  \* key -> [of, at]: the request the cached result answers
    tainted,    \* the session carries taint labels
    proxyClock
proxyVars == <<honest, pxPc, pxMsg, pxCount, toServer, fromServer, serverUp,
               respCache, tainted, proxyClock>>

Nobody == [id |-> 0, key |-> "none"]
Received(id, m) ==
    [id |-> id, kind |-> m.kind, key |-> m.key, read |-> m.read,
     verdict |-> "none", audited |-> FALSE, sent |-> FALSE, got |-> <<>>]
Own == [id |-> pxMsg.id, key |-> pxMsg.key]

ProxyInit ==
    /\ honest \in BOOLEAN
    /\ pxPc = "read" /\ pxCount = 0
    /\ pxMsg = Received(0, [kind |-> "garbage", key |-> "none", read |-> FALSE])
    /\ toServer = <<>> /\ fromServer = <<>> /\ serverUp = TRUE
    /\ respCache = <<>> /\ tainted = FALSE /\ proxyClock = 0

\* An answer to the client; one the proxy makes up itself (an error) answers
\* its own request.  The loop then reads the next line.
Answer(re) == /\ pxMsg' = [pxMsg EXCEPT !.got = Append(@, re)]
              /\ pxPc' = "read"

-----------------------------------------------------------------------------
\* A line from the client.
ReadClient(m) ==
    /\ pxPc = "read" /\ pxCount < MaxProxyMsgs
    /\ pxCount' = pxCount + 1
    /\ pxMsg' = Received(pxCount + 1, m)
    /\ pxPc' = CASE m.kind \in {"call", "badParams"} -> "govern"
                 [] m.kind = "other" -> "forward"
                 [] m.kind = "callNotification" -> "drop"
                 [] m.kind = "notification" -> "notify"
                 [] m.kind = "garbage" -> "read"
    /\ UNCHANGED <<toServer, fromServer, serverUp, respCache, tainted,
                   proxyClock>>

\* A tools/call without an id is dropped, and audited as a block, best effort.
DropNotification ==
    /\ pxPc = "drop" /\ pxPc' = "read"
    /\ \E stored \in BOOLEAN : pxMsg' = [pxMsg EXCEPT !.audited = stored]
    /\ UNCHANGED <<pxCount, toServer, fromServer, serverUp, respCache, tainted,
                   proxyClock>>

\* Mutant: a notification is forwarded like a request, and waited for.
NotifyAndWait ==
    /\ pxPc = "notify" /\ pxPc' = "await"
    /\ pxMsg' = [pxMsg EXCEPT !.sent = serverUp]
    /\ UNCHANGED <<pxCount, toServer, fromServer, serverUp, respCache, tainted,
                   proxyClock>>

\* Any other notification is forwarded and nothing is waited for.
ForwardNotification ==
    /\ pxPc = "notify" /\ pxPc' = "read"
    /\ pxMsg' = [pxMsg EXCEPT !.sent = serverUp]
    /\ UNCHANGED <<pxCount, toServer, fromServer, serverUp, respCache, tainted,
                   proxyClock>>

\* Parameters that do not parse are answered before anything is governed.
InvalidParams ==
    /\ pxPc = "govern" /\ pxMsg.kind = "badParams"
    /\ Answer(Own)
    /\ UNCHANGED <<pxCount, toServer, fromServer, serverUp, respCache, tainted,
                   proxyClock>>

\* Mutant: an error of the pipeline lets the call pass.
FailOpen(v) == v # "block" /\ v # "review"

\* Only Allow is forwarded; a pipeline error is a block (fail closed).
Forwards(v) == v = "allow"

\* intercept_tool_call runs the pipeline, which records a verdict unless it
\* fails; the call may leave taint on the session.
Intercept(v) ==
    /\ pxPc = "govern" /\ pxMsg.kind = "call"
    /\ tainted' \in {tainted, TRUE}
    /\ LET judged == [pxMsg EXCEPT !.verdict = v, !.audited = v # "error"]
       IN IF Forwards(v) THEN pxPc' = "cache" /\ pxMsg' = judged
          ELSE pxPc' = "read" /\ pxMsg' = [judged EXCEPT !.got = <<Own>>]
    /\ UNCHANGED <<pxCount, toServer, fromServer, serverUp, respCache,
                   proxyClock>>

\* Safe to serve from the cache: a read, in a session without taint.
Cacheable == pxMsg.kind = "call" /\ pxMsg.read /\ ~tainted
Live(k) == k \in DOMAIN respCache /\ proxyClock - respCache[k].at <= CacheTtl

CacheHitProxy ==
    /\ pxPc = "cache" /\ Cacheable /\ Live(pxMsg.key)
    /\ Answer(respCache[pxMsg.key].of)
    /\ UNCHANGED <<pxCount, toServer, fromServer, serverUp, respCache, tainted,
                   proxyClock>>

\* A miss drops an expired entry; a call that is not cacheable goes on too.
CacheMiss ==
    /\ pxPc = "cache" /\ ~(Cacheable /\ Live(pxMsg.key))
    /\ respCache' = IF Cacheable
                    THEN [k \in DOMAIN respCache \ {pxMsg.key} |-> respCache[k]]
                    ELSE respCache
    /\ pxPc' = "forward"
    /\ UNCHANGED <<pxMsg, pxCount, toServer, fromServer, serverUp, tainted,
                   proxyClock>>

\* forward_and_relay writes the request; a broken pipe is answered.
Forward ==
    /\ pxPc = "forward"
    /\ IF serverUp
       THEN /\ toServer' = Append(toServer, Own)
            /\ pxMsg' = [pxMsg EXCEPT !.sent = TRUE]
            /\ pxPc' = "await"
       ELSE Answer(Own) /\ UNCHANGED toServer
    /\ UNCHANGED <<pxCount, fromServer, serverUp, respCache, tainted,
                   proxyClock>>

\* cache::put: at capacity the oldest entry goes, unless the key is present.
CachePut(k, of) ==
    LET full == Cardinality(DOMAIN respCache) >= CacheMax
                /\ k \notin DOMAIN respCache
        oldest == CHOOSE o \in DOMAIN respCache : \A j \in DOMAIN respCache :
                      respCache[o].at <= respCache[j].at
        kept == IF full THEN DOMAIN respCache \ {oldest} ELSE DOMAIN respCache
    IN [j \in kept \cup {k} |-> IF j = k THEN [of |-> of, at |-> proxyClock]
                                ELSE respCache[j]]

\* Mutant: the key of a cached answer leaves out the arguments.
RememberedAny(of) == [j \in {m.key : m \in ProxyCalls} |->
                          [of |-> of, at |-> proxyClock]]

\* What a cacheable call that was forwarded leaves in the cache.
Remembered(of) == CachePut(pxMsg.key, of)

\* The next line is the answer, whatever it answers; a result is cached under
\* the key of the request it was taken for.
TakeAnswer ==
    /\ pxPc = "await" /\ fromServer # <<>>
    /\ LET line == Head(fromServer)
       IN /\ Answer(line.re)
          /\ respCache' = IF line.ok /\ Cacheable THEN Remembered(line.re)
                          ELSE respCache
    /\ fromServer' = Tail(fromServer)
    /\ UNCHANGED <<pxCount, toServer, serverUp, tainted, proxyClock>>

\* End of file from the server: an error to the client.
ServerClosed ==
    /\ pxPc = "await" /\ fromServer = <<>> /\ ~serverUp
    /\ Answer(Own)
    /\ UNCHANGED <<pxCount, toServer, fromServer, serverUp, respCache, tainted,
                   proxyClock>>

\* End of input, or a line over the cap: the loop ends and the server with it.
ClientCloses ==
    /\ pxPc = "read"
    /\ pxPc' = "closed" /\ serverUp' = FALSE /\ toServer' = <<>>
    /\ UNCHANGED <<pxMsg, pxCount, fromServer, respCache, tainted, proxyClock>>

\* The downstream server: answers in order, may fail a request, may exit; one
\* that is not honest also writes lines nobody asked for (a progress
\* notification, or the rest of a line over the cap), MaxUnread ahead.
MaxUnread == 1
ServerAnswers(ok) ==
    /\ serverUp /\ toServer # <<>>
    /\ fromServer' = Append(fromServer, [re |-> Head(toServer), ok |-> ok])
    /\ toServer' = Tail(toServer)
    /\ UNCHANGED <<pxPc, pxMsg, pxCount, serverUp, respCache, tainted,
                   proxyClock>>

ServerSpeaks ==
    /\ ~honest /\ serverUp /\ Len(fromServer) < MaxUnread
    /\ fromServer' = Append(fromServer, [re |-> Nobody, ok |-> FALSE])
    /\ UNCHANGED <<pxPc, pxMsg, pxCount, toServer, serverUp, respCache, tainted,
                   proxyClock>>

ServerExits ==
    /\ serverUp /\ pxPc # "closed"
    /\ serverUp' = FALSE /\ toServer' = <<>>
    /\ UNCHANGED <<pxPc, pxMsg, pxCount, fromServer, respCache, tainted,
                   proxyClock>>

ProxyTick ==
    /\ proxyClock < MaxProxyClock
    /\ proxyClock' = proxyClock + 1
    /\ UNCHANGED <<pxPc, pxMsg, pxCount, toServer, fromServer, serverUp,
                   respCache, tainted>>

ProxyLoop == \/ DropNotification \/ ForwardNotification \/ InvalidParams
             \/ (\E v \in {"allow", "review", "block", "error"} : Intercept(v))
             \/ CacheHitProxy \/ CacheMiss \/ Forward \/ TakeAnswer
             \/ ServerClosed
ProxyServer == (\E ok \in BOOLEAN : ServerAnswers(ok)) \/ ServerExits

ProxyStep ==
    \/ \E m \in ProxyCalls : ReadClient(m)
    \/ ProxyLoop \/ ProxyServer \/ ServerSpeaks \/ ProxyTick \/ ClientCloses

ProxyNext == ProxyStep /\ UNCHANGED honest

\* The loop runs, and a server with a request to answer answers or exits.
ProxyFair == WF_proxyVars(ProxyLoop /\ UNCHANGED honest)
             /\ WF_proxyVars(toServer # <<>> /\ ProxyServer /\ UNCHANGED honest)
ProxySpec == ProxyInit /\ [][ProxyNext]_proxyVars /\ ProxyFair

-----------------------------------------------------------------------------
(* Properties.                                                             *)

\* Nothing that invokes a tool reaches the downstream server unless the
\* pipeline judged this very call and allowed it: no notification, no call
\* whose pipeline failed, none that waits for a review.
NothingUngoverned ==
    pxMsg.sent => /\ pxMsg.kind \notin {"callNotification", "badParams"}
                  /\ (pxMsg.kind = "call" => pxMsg.verdict = "allow"
                                             /\ pxMsg.audited)

\* Every request gets exactly one answer and a notification none.  Behind an
\* honest server it is the answer to this request or, from the cache, to an
\* earlier call with the same key: across errors, evictions, expiry and an
\* exit of the server.
AnswersMatch ==
    /\ Len(pxMsg.got) <= 1
    /\ (pxPc = "read" /\ pxMsg.id # 0) =>
         (pxMsg.got # <<>>) = (pxMsg.kind \in {"call", "other", "badParams"})
    /\ honest => \A i \in 1..Len(pxMsg.got) :
         LET re == pxMsg.got[i]
         IN re = Own \/ (re.id \in 1..(pxMsg.id - 1) /\ re.key = pxMsg.key)

\* The loop comes back to the client after every message: a message without
\* an id does not make it wait for an answer that never comes.
ProxyReturns == (pxPc \notin {"read", "closed"}) ~> (pxPc = "read")
=============================================================================
