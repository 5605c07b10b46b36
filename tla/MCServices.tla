------------------------------ MODULE MCServices ------------------------------
(***************************************************************************)
(* The services around the pipeline: webhook delivery, the MCP proxy, the   *)
(* two storage backends, start-up with the signing key and the sandbox.     *)
(* They share no state, so their interleavings add nothing: `focus` names   *)
(* the one that runs, and the run explores each of them completely.        *)
(***************************************************************************)
EXTENDS Webhooks, McpProxy, Storage, Boot, Sandbox

VARIABLE focus

mcVars == <<focus, hookVars, proxyVars, storeVars, bootVars, sandboxVars>>

\* A component that does not run starts in one of its initial states only.
MCInit ==
    /\ focus \in {"webhooks", "proxy", "storage", "boot", "sandbox"}
    /\ HookInit /\ ProxyInit /\ StoreInit /\ BootInit /\ SandboxInit
    /\ focus # "proxy" => honest
    /\ focus # "storage" => table = "limits" /\ collation = "C"
    /\ focus # "sandbox" => limits = [max |-> 2, ttl |-> 2]
    /\ focus # "boot" => config = [file |-> "absent", policy |-> "none",
                                   demo |-> FALSE, failClosed |-> FALSE]

MCNext ==
    /\ UNCHANGED focus
    /\ \/ /\ focus = "webhooks" /\ HookNext
          /\ UNCHANGED <<proxyVars, storeVars, bootVars, sandboxVars>>
       \/ /\ focus = "proxy" /\ ProxyNext
          /\ UNCHANGED <<hookVars, storeVars, bootVars, sandboxVars>>
       \/ /\ focus = "storage" /\ StoreNext
          /\ UNCHANGED <<hookVars, proxyVars, bootVars, sandboxVars>>
       \/ /\ focus = "boot" /\ BootNext
          /\ UNCHANGED <<hookVars, proxyVars, storeVars, sandboxVars>>
       \/ /\ focus = "sandbox" /\ SandboxNext
          /\ UNCHANGED <<hookVars, proxyVars, storeVars, bootVars>>

\* The fair actions of the two components that have some are disabled for
\* ever in a behaviour in which the component does not run.
MCSpec == MCInit /\ [][MCNext]_mcVars /\ HookFair /\ ProxyFair

-----------------------------------------------------------------------------
(* The proxy: two reads with different arguments, a write, another request, *)
(* and the lines that get no answer or no verdict.                         *)

Line(kind, key, read) == [kind |-> kind, key |-> key, read |-> read]
MCProxyCalls ==
    {Line("call", "a", TRUE), Line("call", "b", TRUE), Line("call", "w", FALSE),
     Line("callNotification", "a", TRUE)}
    \cup {Line(k, "none", FALSE) :
             k \in {"other", "notification", "garbage", "badParams"}}

-----------------------------------------------------------------------------
(* Storage: what is written to each table, and the filters of the reads.    *)

NoUse == [some |-> FALSE, cost |-> NoValue, savings |-> NoValue,
          tokens |-> NoValue, hit |-> NoValue, model |-> NoValue]
Use(cost, savings, tokens, hit, model) ==
    [some |-> TRUE, cost |-> cost, savings |-> savings, tokens |-> tokens,
     hit |-> hit, model |-> model]
Event(id, agent, tenant, tool, decision, risk, at, usage) ==
    [id |-> id, agent |-> agent, tenant |-> tenant, tool |-> tool,
     decision |-> decision, risk |-> risk, at |-> at, usage |-> usage]
Profile(agent, tenant, ws, tools, trust) ==
    [agent |-> agent, tenant |-> tenant, ws |-> ws, tools |-> tools, trust |-> trust]
Token(id, agent, exp) ==
    [id |-> id, agent |-> agent, caps |-> {agent}, issued |-> Micros(1),
     exp |-> Micros(exp), valid |-> TRUE]

MCObjects == [t \in Tables |->
    CASE t = "audit" ->
           {Event(1, 1, NoValue, 1, "allow", 10, 3, NoUse),
            Event(2, 1, NoValue, 2, "block", 80, 3, Use(5, 2, 7, TRUE, 1)),
            Event(3, 2, 9, 2, "allow", 40, 9, Use(5, NoValue, NoValue, FALSE, 2)),
            Event(4, 2, 8, 1, "review", 40, 14, Use(1, 1, 1, FALSE, 1))}
      [] t = "reviews" ->
           {[id |-> n, status |-> "pending", risk |-> 40 + n, at |-> 5] : n \in 1..2}
      [] t = "profiles" ->
           {Profile(1, NoValue, 1, {1}, 9), Profile(1, 9, 2, {2}, 3),
            Profile(2, 8, 1, {}, 7)}
      [] t = "workspaces" ->
           {[ws |-> n, tenant |-> ten, tools |-> {n}, block |-> 80 + n, review |-> 40]
              : n \in 1..2, ten \in {NoValue, 9}}
           \cup {[ws |-> 1, tenant |-> NoValue, tools |-> {}, block |-> 500, review |-> 40]}
      [] t = "rules" ->
           {[id |-> n, ws |-> w, priority |-> p, decision |-> "block",
             enabled |-> p = 1] : n \in 1..2, w \in 1..2, p \in 1..2}
      [] t = "keys" ->
           {[id |-> n, raw |-> [prefix |-> 1, rest |-> r],
             scope |-> IF n = 1 THEN "admin" ELSE "agent",
             agent |-> IF n = 1 THEN NoValue ELSE 1] : n, r \in 1..2}
      [] t = "identities" ->
           {[agent |-> n, secret |-> s, trust |-> 5, caps |-> {s}, at |-> Micros(s)]
              : n, s \in 1..2}
      [] t = "challenges" ->
           {[id |-> n, agent |-> n, nonce |-> 1, exp |-> 3 + n] : n \in 1..2}
      [] t = "tokens" -> {Token(1, 1, 5), Token(1, 2, 5), Token(2, 1, 3)}
      [] t = "sessions" ->
           {[id |-> n, state |-> "idle", blocked |-> b, count |-> 600, nodes |-> <<n>>,
             made |-> l, last |-> l] : n \in 1..2, b \in BOOLEAN, l \in {2, 6}}
      [] t = "taint" ->
           {[id |-> n, labels |-> l] : n \in 1..2, l \in {{"pii"}, {"secret"}}}
      [] t = "fingerprints" ->
           {[agent |-> n, total |-> k, hourly |-> <<k>>, risk |-> k, last |-> 4]
              : n, k \in 1..2}
      [] t = "limits" ->
           {[minute |-> 61, hour |-> 700, burst |-> 11],
            [minute |-> 5, hour |-> 6, burst |-> 2]}]

\* Under a locale, texts the other way round.
MCLocaleLess(x, y) == x > y

AnyTime == [kind |-> "none"]
Ask(from, to, agent, decision, tenant, limit) ==
    [from |-> from, to |-> to, agent |-> agent, decision |-> decision,
     tenant |-> tenant, limit |-> limit]
MCFilters ==
    {Ask(AnyTime, AnyTime, NoValue, NoValue, NoValue, 9),
     Ask([kind |-> "instant", local |-> 7, offset |-> 4], [kind |-> "date", day |-> 0],
         NoValue, NoValue, NoValue, 2),
     Ask([kind |-> "date", day |-> 1], AnyTime, 2, "allow", 9, 1),
     Ask([kind |-> "garbage"], AnyTime, NoValue, NoValue, NoValue, 1)}

-----------------------------------------------------------------------------
(* The sandbox: an action of every kind, and a score on each side of and on *)
(* the thresholds.                                                         *)

MCActions ==
    {[kind |-> "shell", found |-> {1, 3}],
     [kind |-> "db_query", found |-> {"DELETE", "WHERE"}],
     [kind |-> "http", found |-> {"mutating"}],
     [kind |-> "file_write", found |-> {}], [kind |-> "email", found |-> {}]}
MCQueueLimits == {[max |-> 2, ttl |-> 2], [max |-> 0, ttl |-> 2], [max |-> 2, ttl |-> 0]}
=============================================================================
