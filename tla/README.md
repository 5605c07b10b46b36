# IAGA Sentinel in TLA+

IAGA Sentinel is a governance server for AI agents: every tool call an agent wants to
make is sent to it, goes through a pipeline of layers, gets a verdict (allow, review,
block), an audit row and a signed receipt in a hash chain, and, for a review, an entry
in a queue that a human resolves. This directory models the parts of it whose
correctness depends on interleavings, failures and merges, checks them with TLC and
proves the most important facts with TLAPS.

Paths below are relative to `src/crates/iaga-sentinel-core/src/` unless they start with
a crate name (`receipts`, `dictum` stand for `iaga-sentinel-receipts/src`,
`iaga-sentinel-dictum/src`, `verify` for `iaga-sentinel-verify/src`).

## 1. Inventory

| component | state | operations | talks to | what is hard | correct when |
|---|---|---|---|---|---|
| signed receipt logger (`pipeline/receipts.rs`, `receipts/*`) | receipts table, `append_guard`, `dropped_runs` | `record`, `get_run_json`, `list_runs_json` | database shared by replicas | check and INSERT in separate autocommit statements, retries, late INSERTs, crashes | every run verifies, one receipt per event, Ok means durable, gaps are flagged |
| pipeline persistence (`pipeline/execute_pipeline.rs`) | audit rows, receipts, review rows, events | `execute_pipeline` | stores, logger, event bus | three writes without a transaction; caller disconnects; process dies | evidence precedes every effect |
| review queue (`server/create_server.rs`, `storage/*`) | review rows | `create`, `update_status`, `review_action_handler` | logger, audit, bus | concurrent admins, late UPDATEs | one adjudication, final, and all records of it agree |
| session graph (`modules/session_graph`) | graph, automaton, strikes per session | `add_tool_call_to_session`, prune, hydrate | pipeline, write-behind | long histories, cooldowns, restart | a block holds; strikes and state agree |
| taint tracking (`modules/taint`) | labels per session and per agent | read, analyse, merge, prune, hydrate | pipeline, write-behind | read and merge are two critical sections | labels reach every later sink of the session |
| verdict merge and score (`pipeline/execute_pipeline.rs`, `modules/policy/tool_risk.rs`) | none beyond the request | twelve merges, score, bands | all layers | order of merges, integer arithmetic, thresholds nothing validates | stricter wins; no refusal without a reason; score and decision agree |
| workspace policy, rules (`modules/policy`) | policies in the database | `evaluate_policy`, `evaluate_rules` | verdict merge | order of checks | every check it makes is in the result |
| Dictum (`pipeline/dictum_overlay.rs`, `dictum/*`) | compiled program | parse, validate, infer types, `evaluate`, emit WASM | verdict merge | four components that each know the language; policies that fail to evaluate | can tighten and never relaxes; fails closed; what one component accepts means the same in the others |
| plugins (`plugins/*`) | loaded modules, bundles, manifests | `evaluate`, `reload`, attest, sign, verify | verdict merge | one of several fails; files replaced between two reads | an answer or a failure is never lost; "verified" means signed |
| rate limiter (`modules/rate_limit`) | instants per agent and tool | `check_rate`, configure, prune | pipeline | instants taken before the lock, window edges | no window exceeds its limit |
| spend store, budget (`modules/cost`, `pipeline/cost.rs`) | spend per session | price, charge, read | pipeline, Dictum | read and charge are apart; an unchecked sum | a budget is overshot by one request at most, while the counter holds the charges |
| authentication (`auth/*`) | key rows, verified-key cache, keys_exist flag | verify, cache, create, delete, bootstrap | every handler | deletion racing a verification, failed listings | a deleted key stops working within a bound |
| identities and tokens (`modules/nhi`) | identities, challenges, tokens, their rows | register, attest, mint, revoke, hydrate | pipeline, handlers | replay, expiry, restart with other secrets | a challenge is used once, a token opens its agent's records only |
| signing key and start-up (`receipts/signer.rs`, `main.rs`) | key file, stages of `cmd_serve` | `load_or_create`, gate, bind | logger | non-atomic creation, several replicas, kills | one key file is one key |
| events, webhooks (`events/*`) | broadcast channel, delivery tasks, dead letters | publish, deliver, retry, delete | handlers | lagging receivers, retries, full queues | an event is in one place, and ends somewhere |
| MCP proxy, response cache (`mcp_proxy/*`, `modules/cost/cache.rs`) | pipes to client and server, cache | intercept, forward, relay, get, put | pipeline | pairing of requests and answers, notifications | nothing is forwarded without a verdict; answers match requests |
| sandbox (`modules/sandbox`) | pending approvals | dry run, approve, reject, prune | pipeline, handlers | queue at its limit, 0 included; wall clock | an entry leaves only by ruling, expiry or overflow |
| storage (`storage/*`) | thirteen tables, two backends | the storage traits | everything | every query exists twice | the backends agree |
| export and verifier (`main.rs` `cmd_replay`, `verify/*`) | exported files | replay, export, verify | receipts table | the file is out of the system's hands | CHAIN OK means a prefix of the real chain |
| adaptive scorer, firewall, threat feed, fingerprints, secrets, schemas, telemetry, reasoning, kernel, CLI, dashboard, SDKs | mostly none | text analysis, presentation, launch | pipeline | little that interleaves | - |

The hazards behind these rows, each at its line of code and with the properties that
would catch it, are listed in `PROJECT.json`.

## 2. Modules

```
ReceiptLog            what the receipt subsystem promises (abstract)
  ^ implements        ^ extended by
ReceiptChain        Governance          verdict -> audit, receipt, queue, reply
  ReceiptRefinement   MCGovernance
  MCReceiptChain    SessionState        session graph and taint, with their database copies
  ^ extended by       MCSessionState
ReceiptRead         Verdict             the merge of all layers into one decision
  ^ extended by       MCVerdict
ChainAudit
  MCReceiptRead

KeyCache, Identity, RateLimiter, Spend, Plugins      composed by MCAdmission
Webhooks, McpProxy, Boot, Sandbox                    composed by MCServices,
Storage over SqliteStore and PostgresStore             with Storage
Dictum                                               composed with Verdict by MCVerdict
StoreKit: what both backends share

proofs: EvidenceProofs              ReceiptChain, ReceiptRefinement, ReceiptRead, ChainAudit
        GovernanceProofs            Governance, ReceiptLog
        SessionStateProofs, VerdictProofs
        AccessProofs                KeyCache, Identity
        AdmissionProofs             RateLimiter, Plugins, Spend
        DictumProofs                Dictum
        ServicesProofs              Boot, McpProxy, Webhooks, Sandbox, Storage
```

**ReceiptChain** is `SignedReceiptLogger::record` over the SQL store, in every replica
that shares the database. A task's phases are the statements of the loop: `wait`
(append_guard), `head` (head, chain_link, sign), `append` (second head read,
check_append_link), `insert`, `committed`, `backoff`. `rows` is the table. `wire` holds
INSERTs the database has not executed yet: an error, a dropped future or a crash takes
the task away and leaves its INSERT there, to be executed or lost later. `dropped` is
`dropped_runs`, in memory and gone after a crash. SHA-256 is an injective constructor;
the signature is the key's identity. Agent and session ids are sequences of tokens, so
that `run_id`'s concatenation is modelled as what it is.

**ReceiptRead** adds `get_run_json`: two queries and a counter, with writers between
them. The second query may fail where the first did not.

**ChainAudit** is evidence that leaves the system: `iaga replay` with the resolution of
its argument, its export, and `iaga-verify` on the file, with `--key`, `--expect-count`
and the exit codes. `VerifyLinks` is the walk of `verify_chain` that the read API, the
command and the verifier share. Between export and verification the file may lose,
exchange or gain receipts, be relabelled, altered under its signatures, or be written
again with another key (`Edited`). A signature is the pair of its key and the body it was made for.

**ReceiptLog** is the abstract log: one chain per run, an event enters once and at the
tail, and is acknowledged only afterwards. **ReceiptRefinement** has the
mapping (the chain of a run is its rows in the order of their seqs) and `ImplementsLog`,
that ReceiptChain implements it; **Governance** is written against it.

**Governance** is what happens to a decided verdict: audit row, receipt, review row,
events, reply, and the resolution of a review by an admin, with the boot gate for
fail-closed receipts. A statement can return an error although it executed or is going to
(`wire`), the client can go away at every await, and the process can die and boot again
with or without a logger. The rate limiter's Block takes the fast path on which a failed
audit append is only logged.

**SessionState** has the automaton, the attack signatures with their greedy scan, the
source labels and the blocking sink rules as data translated from the tables in the code.
A call goes through the four critical sections the pipeline goes through. Two detached
tasks per call write what the call saw; they end in any order or fail. `Age` stands for a
TTL passing; the cleanup task and the eviction at capacity remove aged entries. `Restart`
hydrates what the database holds, and a read that fails leaves its part of memory empty. `MAX_BLOCK_COUNT` is read
by every process anew and may be any number, 0 too, so a hydrated graph may have more strikes than the limit it now lives under.
The variable `owed`, the field of that name and `highest`, the largest limit so far, exist for the properties only.

**Verdict** is one action per merge, in the order of the code, with every signal a layer can give
chosen freely. Decisions are 0, 1, 2, as their derived order. `PolicyFloor`,
`PluginFloor`, `Adjust`, `Band`, `Fires` are the code's computations; `PolicyAsks`,
`PluginsAsk`, `Silent` and `DictumHolds` say independently, and without the code's order
of checks, what each layer asks for. `demand` is the strictest of those.

**KeyCache** is the authentication middleware. A step ends where it awaits the database,
so the answer of a verification or of a listing is used when it may be old. The cache has
its TTL, its capacity with eviction of the oldest, the `keys_exist` flag, and the
invalidation by the delete handler; another replica deletes rows without telling this process.
Failed listings count as empty, as in the code.

**Identity** has the registry, its write-behind rows, challenges and capability tokens.
An HMAC is the pair of key and message. The message of a token is a tuple, where the code joins the capabilities with a comma it does not
escape (`crypto_identity.rs:550-556`): the capabilities of the model hold no comma, and for those the text determines the list. The master seed may be new after a restart,
rows may be damaged or unreadable, and hydration takes what it finds.

**RateLimiter** takes the instant of a call before the wait for the lock, as `check_rate`
does. The instants of a key are a set, told apart by the number of their call: the code keeps them in a
vector, whose order it never uses. **Spend** has the two reads of the session's spend: the early one that a Dictum policy
sees, and the charge; `charges` is a ghost, whose running sums (`Sums`) the property compares
with the spend. The spend is a counter up to `MaxMicros` (`u64::MAX`): conversions saturate there, the sum does not. It wraps, or, in
a build with overflow checks, panics and poisons the lock (`poisoned`), after which every read gives 0 and every request
passes. The rounding of `f64` is left out: costs are whole micro-USD. **Plugins** has the reload (module, then attestation, each reading the file on its own),
`plugins verify`, signing and verification of manifests.

**Webhooks** has the bounded broadcast channel (the oldest event is dropped for a lagging
worker), a retrying task per event and hook, and the dead-letter queue with the admin's
retry and delete. Delivered means acknowledged: an attempt that times out counts as failed, though the hook may have
received it, and the retry then reaches the hook a second time (`webhooks.rs:248-291`). `fate` records, for the properties, how an event ended. **McpProxy** is the loop of the proxy, one step
per await, with the response cache; the downstream server is `honest` (answers each
request once, in order) or says whatever it likes.

**Storage** makes every call on a SQLite and a PostgreSQL database at once. The
operations are written twice, as in the code, in `SqliteStore` and `PostgresStore`;
`StoreKit` holds what they share. Time stamps keep their texts' precision and
offset, because SQLite compares texts; the integer widths of columns and decoders
are kept, because a decoder of the wrong width falls back to a default, because PostgreSQL refuses a number that does not fit an
INTEGER (`FitsInt4`), and because some `u32` are cast to `i32` and back (`AsI32`, `AsU32`). The time of an API key is not bound by the
caller: it is the default of the column, in whole seconds on SQLite (`WholeSecond`) and with microseconds and an offset on
PostgreSQL. PostgreSQL compares texts by the collation of the database, which is chosen in the initial state:
"C", which is by bytes as SQLite does, or another (`LocaleLess`). `refused` says that PostgreSQL has refused a row that
SQLite took. Each backend has
a constructor per table for the row it stores of an object (`AuditRow`, `TokenRow`, ...), and a query is a set
of keys, an order of their columns and what is shown of each row (`Select`). Every order the code
asks for ends in a column that tells rows apart; the two listings whose order does not (sessions
and fingerprints) are compared as sets.

**Dictum** is parser, validator, type inference, evaluator, context of the overlay
and WASM generator, on every program up to a number of nodes. An expression is the sequence
of its nodes in post-order, each with the distance to the nodes of its parts, so that what the code does by recursion over the tree is
a recursive function of a position. The parser has one operator per method of `parser.rs`, each given the
methods it calls. The methods are a function of the number of calls that may be open at once (`OpenCalls`, enough for
any text), the loops functions of the number of turns; so both exist for every text, and can be reasoned about. **Boot** is `cmd_serve`
stage by stage for replicas that share a key file. **Sandbox** is the dry run and the approval queue; its limits are those of
the environment, where 0 is accepted: an entry is let in before the limit is looked at again, so a queue of 0 holds one entry (`Slots`).

Components that share no state are composed by `focus`: MCAdmission, MCServices and MCVerdict
choose one of them in the initial state, the others stay where they start. A product of
independent components reaches nothing that each of them does not reach alone, so
nothing is lost.

## 3. Runs

| run | result | question |
|---|---|---|
| `receipt_chain` | 41,170 states, pass | do chains stay intact and calls end under races, failures, late INSERTs, cancellation and crashes, and is that the abstract log? |
| `receipt_read` | 1,035,747 states, pass | do the three reads of one reply agree, is a lost receipt flagged, and what does CHAIN OK mean for a file that was changed on the way? |
| `receipt_principal` | violation | does a chain belong to one agent? |
| `governance` | 122,657 states, pass | does evidence precede effects, and does exactly one adjudication win? |
| `review_error` | violation | is a committed resolution ever reported as failed? |
| `session_state` | 1,290,456 states, pass | do labels reach later sinks, and do blocks hold, with calls interleaved and limits that change at a restart? |
| `verdict` | 76,043 states, pass | does the stricter signal win, is every refusal explained, is the score in its band; and do the components of Dictum agree on every small program? |
| `plugin_error` | violation | does a plugin error escalate? |
| `admission` | 2,479,752 states, pass | are keys, identities, tokens, limits, budgets and plugins honoured when requests race with administration, restarts and replaced files? |
| `key_deletion` | violation | does a deletion take effect immediately? |
| `budget_wrap` | violation | is a session over its budget stopped, whatever was charged? |
| `services` | 472,419 states, pass | webhooks, proxy, backends, start-up, sandbox: see the properties below |

What the properties of the composed runs say: an admitted key had a row at most the TTL
earlier (`StaleKeyBounded`), and a request without a key is admitted only shortly after the
table was empty or unreadable (`KeylessOnlyWhenEmpty`); a token opens
the records of its agent only (`SelfReadSound`), a challenge attests once
(`AttestsOnce`); no window of the limiter exceeds its limit, except that the hour may come
out short by a caller's wait for the lock (`WindowBound`); as long as a session's charges fit its counter and the lock is not
poisoned, a budget is overshot by at most the request that crosses it, a Dictum limit by one request per request under way
(`BudgetBound`); what is called verified was signed (`VerifiedMeansSigned`); an
event is, for each hook, in exactly one place and leaves the bus and the tasks
(`Accounted`, `Settles`); nothing reaches the downstream server without its own Allow, each
request gets one answer and behind an honest server the right one, and the loop returns
(`NothingUngoverned`, `AnswersMatch`, `ProxyReturns`); until PostgreSQL refuses a row the backends
reply and read the same, but for the times of API keys and the order these give, and in the same order if texts collate by bytes
(`BackendsAgree`); a typed policy means the same in evaluator and WASM, a printed program
parses back, a path that loads resolves (`TypedProgramsSafe`, `ParseInverts`,
`LoadedPathsResolve`); one key file is one signing key (`OneSigningKey`); an approval
leaves the queue for a reason (`QueueLosesOnlyStale`).

Bounds.

* *receipt_chain*: three events, two in one process and one in another, all in one run.
  Siblings under the lock, rivals beyond it, and a third writer that takes the slot a
  retry wanted all occur. Two attempts instead of five, so that running out of them is
  reachable with two rivals. Two crashes. The replicas have different keys,
  because nothing in the code makes them agree; that is how `broken` replies occur.
* *receipt_read*: two processes with a key each extend one run of two receipts of the
  first and one of the second, so that a chain of one key verifies and a chain of two
  keys breaks; one crash. The auditor's commands read the table in
  single statements and depend on nothing else, so they start only where every
  `record()` has succeeded or not begun and nothing has crashed. Three changes to the
  file: fewer are not enough to remove, move and relabel. An argument of `iaga replay`
  that matches several runs is in the model, not in this instance.
* *governance*: one request and two admins with opposite answers, both boot modes, two
  crashes. Requests share nothing but the stores' tables, keyed by event id, so a second
  request adds no interaction; the interaction is between the admins and between an
  admin and the request whose row it waits for.
* *sessions*: one session (sessions share nothing), two workers, three calls, a restart,
  `MAX_BLOCK_COUNT` 0, 1 and 2 in each process, so that the recovery after a cooldown, the permanent
  block and a limit below the strikes of a hydrated graph are reached, and two kinds of call, a file with a secret and an outgoing request, which
  reach the taint-dependent transition, the attack signature and the sink rule. A call
  begins when no write is outstanding (`MaxPending` 0); the two calls under way at once
  still have up to four writes outstanding, in every order. The workers are
  interchangeable and the run has no liveness property, so symmetry is sound.
* *verdict*: all composites 0..100, the default thresholds, 40/20, 100/0, and
  pairs nothing in the code rejects (equal, swapped, zero, above 100); two plugins; Dictum
  programs of up to two policies, the least with which an earlier policy can hide a later
  one. For the language, expressions of up to five nodes, the least with two operators of different precedence and
  three operands; two requests, one with a credential in a string and one in the key of an object.
* *admission*: two requests at a time everywhere, which interleave at each await; two
  keys with one row each and a cache of one entry, so that eviction happens; a clock that
  passes one TTL; one token and one challenge, two agents, one restart; two limit
  configurations and a wait for the lock of up to one tick; a budget that two of the
  reports exceed, four charges and a counter up to `MaxMicros` 7, with reports of 0, 1 and 2 and one that saturates, so that the counter wraps, or the addition panics,
  both within the budget and after it; one plugin file with a good and a broken build, two keys, three changes of the files.
  Requests and agents are interchangeable and all properties are invariants, so
  symmetry is sound. Two rows for one raw key (two replicas
  that register the bootstrap key) are in the model, not in this instance.
* *services*: two hooks and two events with a channel and a dead-letter queue of one, so that both overflow;
  three client messages, a cache of one entry and a TTL of one tick; up to four calls per table,
  with a second of two ticks, an hour of two seconds and a day of two hours, so that
  buckets and day boundaries fall between rows; calls at the times 4 and 5, in one second, and 8 in another; an INTEGER that ends at 499 and
  thresholds and counters on both sides of that; a collation that is the opposite of the bytes' order; two replicas, two seeds, three starts; four
  executions for queues of two and of none and for a time to live of none, and a clock that steps back.

Deadlock is checked in the verdict runs, where requests follow each other for ever and an author can always start over. The other
models end when their bounded work is done, so it is not checked there.

Fairness. `RecordEnds` and `HandlerEnds` assume that tokio polls every task that is
ready, that the database answers, with a result or an error, every statement somebody waits
for, that a sleep ends and, for `append_guard`, that tokio's mutex is FIFO. Weak
fairness per task says this. Nobody has to send a request, nothing has to succeed or to
fail, and a statement that nobody waits for need never execute. `ImplementsLog` and
`ResolutionFinal` are safety and use none of it. `Settles` assumes that the webhook worker
receives while the channel holds something, and that some delivery task goes on while there is
one: each attempt has a timeout and each task a bounded number of attempts, so no more is
needed. `ProxyReturns` assumes that the proxy's loop is polled and that a downstream
server with a request to answer answers or exits. The code has no timeout on the downstream pipe, so a server that
stays silent for ever does block the proxy; the assumption is about the server, not about
the code, and the property says that the proxy never waits where no answer is due.

### What the violations show

* `receipt_principal`: agent `x` with session `y:z` and agent `x:y` with session `z`
  share the run `x:y:z`. Both events run in one process, so one key signs them and the
  chain verifies as valid, which the comment on `run_id` says cannot happen.
* `review_error`: `update_status` commits its UPDATE and then reads the row back; if that
  read fails the admin gets an error for a resolution that stands, and it is neither
  audited, receipted nor announced. The handler takes care to avoid this in the steps that
  follow and says why.
* `plugin_error`: errors are only looked at when no plugin answered.
* `key_deletion`: a request verifies a key, the admin deletes it and its cached entries, and
  then the request inserts what it verified; the key works until the TTL ends
  (`StaleKeyBounded` shows that it does end). The comments in `auth/cache.rs` and on the delete handler say "immediately".
* `budget_wrap`: a session is charged 1, then a report whose cost saturates at `u64::MAX`; the sum wraps to 0 and
  the third request passes, although the session is over any budget. The cost crate saturates on purpose, and says so; the spend store does
  not. `BudgetBound` is what does hold.

Smaller observations, without a run: under a Block minimum a composite of 69 is reported as 90 and one of 70 as 70 (`tool_risk.rs:182`),
so within a band the score does not order actions by severity; the backends differ where `BackendsAgree` makes its exceptions: API keys made within one second are
listed by id on SQLite, whose column default has whole seconds, and by time on PostgreSQL, whose `NOW()` has microseconds
(`postgres.rs:861`); a threshold above 2^31-1 is stored by SQLite and refused by the INTEGER column (`postgres.rs:743`), where the
workspace keeps the old one; and listings by text follow the collation of the PostgreSQL database; `receipts/store.rs:47` promises a
transaction around append, which the SQLite store deliberately does not use (`ChainIntact` shows
that the primary key is enough); a workspace with `thresholdReview >= thresholdBlock`
turns every Review into a Block (`Ordered` in Verdict); fail-closed receipts are
gated at boot for the serving commands only, as the comment there says; the severity of
a dry run is that of the last pattern that matched, not the highest
(`sandbox_executor.rs:185`), and its duration is an unchecked difference of wall-clock
times (`:464`); a failed dead-letter retry does not put the entry back; seeding the demo takes a failed listing for an
empty table (`main.rs:2504`); on systems other than Unix the key file is created by a plain write
(`signer.rs:247`), which `OneSigningKey` does not cover; a bare root such as `usage` loads as a path
and is Null without usage; Dictum's `in` compares structurally where `==` coerces (`eval.rs:256`); an older plugin reload
that ends later replaces the newer list; `iaga plugins verify` exits with 0 for a
module without a bundle even when a key is pinned; `iaga replay` on a machine without the key file creates a key
and then reports every chain as broken.

## 4. Proofs

Every proof is for all values of the constants, from the named assumptions of the
modules. Those that say more than that a bound is a number or a set a subset:
`ReplicaAssumption`, `RunAssumption` (an event belongs to a replica and to a run), `FreeAssumption`
(the free lock is no event), `ResolverAssumption` (a resolver has a request and a ruling),
`StrangerAssumption`, `EditsAssumption` and `BootAssumption` (markers such as "no key" or "no count"
are not keys, counts or seeds), `LimAssumption` (the windows are in order and an
hour is longer than a minute and a wait for the lock), `SpendAssumption` (at most one budget, finitely many payers, limits in whole micro-USD),
`DictumAssumption` (literals are booleans, integers without a sign, as the lexer makes them, and strings; a policy has no more nodes
than the evaluator's 10,000 steps), `StorageAssumption` (NULL is no value, a flag is a flag, and identities and
tokens carry times in microseconds, which is what `rfc3339_storage` is for: without it the two backends do differ; counters that are cast are `u32`).
Limits read from the environment are arbitrary numbers, 0 included: the strikes (`BlockCounts`, a new one at every restart), the queue and its time to live
(`QueueLimits`). Each holds in the instances: TLC evaluates it.

None of the invariants is inductive as it stands: they speak of what is visible, and
what is wrong tomorrow is on its way today. Each proof names the strengthening, shows
that it holds initially and is kept by every action (one lemma per action or group of
actions, under it one step per conjunct), and draws the properties from it.

**EvidenceProofs**, about the logger: `ChainsStayIntact`, `NoDoubleReceipt`, `AcksAreDurable`,
`LostRacesHaveARival`, `CommitsAtTheTail` and `TypeCorrect` (the types and the bound on
attempts). `IInv` adds who may have an INSERT on the wire (`WireOwner`) and who owns a
row (`RowOwner`): together they say that an event whose INSERT is outstanding has no row
and will not build another receipt, which is why retrying only after a *refused* INSERT
cannot duplicate. `PendingLinked` says that the receipt to be inserted still links a row
that is there, so that an INSERT executed arbitrarily late either extends the head it was
built on or finds its slot taken. `GuardHeld`, `RivalsOutOfReach`, `BuiltAbove` and
`BackoffBlame` carry the argument that only a writer beyond the reach of `append_guard`
can take a slot from a running task. `InsertKeepsChain` is the heart of it.

About what is built on it:

* `LoggerImplementsLog`: `Spec => ImplementsLog`. `HeightInv` says that the seqs of a run are
  exactly the numbers below its number of rows, so that the mapped chain is a function of the table. Executing an INSERT is
  the abstract append, an Ok of `record()` the abstract acknowledgement, and every other step
  leaves chain and acknowledgements alone.
* `RepliesCohere` and `GapsAreFlagged`, for the reads between which writers commit.
  `FirstRead` says of a reader that has its receipts that they are still the beginning of
  the run; `LostCounted`, that an event given up in this process was counted in
  `dropped_runs` before it ended.
* `EvidenceIsSound`, for any number of edits of an exported file. `FileInv` says that a
  signature of a key of the system in the file is one the system made (`Authentic`), and
  what a file has that nobody touched; `VerifiedInv` and `ReplayedInv` carry what the walk
  of the chain found to the moment somebody reads the exit code. A verified receipt is determined by run
  and seq, so that no induction over the file is needed.

**GovernanceProofs**: `FailClosedEvidenceTheorem`, `AuditFirstTheorem`,
`ReviewIsQueuedTheorem`, `OneAdjudicationTheorem`, `ResolutionFinalTheorem`. `IInv` says of
every phase of a handler, and of every statement that was given up and may still execute
(`Written`, `Queued`), what the rows they lead to will need: `EvidenceInv` and `AuditInv`
for the order of evidence and effects, `QueueOf` for the row an abandoned INSERT may
still create, `WinnerInv` for the one resolver whose UPDATE hit. `LogKeepsItsPromise` is about the
abstract log alone (`LogKept`, `OnlyGrows`), `GovernanceUsesTheLog` shows that every step of Governance is a step of it or leaves it
alone, and `EvidenceIsPermanent` is what Governance inherits.

**SessionStateProofs**: `TaintReachesSinkTheorem`, `StrikesConsistentTheorem`,
`BlockHoldsTheorem`. A graph is in the map, in the table or in a write that has not ended
and goes from each to the others, so `GraphInv` says the same (`Sound`) of all three, relative to the largest limit any process has had.
`TaintInv` says that what a session owes is among its labels and that what was owed when a call began is
among the labels the call inherited.

**AccessProofs**: `StaleKeyBoundedTheorem`, `KeylessOnlyWhenEmptyTheorem` (KeyCache),
`SelfReadSoundTheorem`, `AttestsOnceTheorem` (Identity). The invariants follow the proof
of a fact from the read to its use: `Backed` and `Carries` a row that existed, with the
slack of the flight and then of the cache; `FlagInv` a table seen empty; `SignedRow` and
`Entitled` a signature that only an admin's mint can have made.

**AdmissionProofs**: `LimitsHold` (RateLimiter), `VerifiedIsSigned` (Plugins), `SpendBounded` (Spend).
A stamp that some waiting caller may still count has not been pruned, since a prune uses
the instant of a caller at most `MaxWait` behind the clock; this is where the `MaxWait` in
`WindowBound` comes from, and without it the proof does not go through. For plugins, `DiskInv` says that every signature on the
disk was made by a key holder, and `ReloadOk`, `VerifyOk` and `CheckOk` say what each
loader has established with the reads it has made, whatever is on the disk by now.
For the budget, `ChargedInv` says that the spend is the last of the running sums of the charges, and
`LetInv` that once the spend is over a policy's limit no request joins those that still
believe it is within: each of them (`Stale`) spends one share of what the bound holds in
reserve, so their number times the dearest charge is all that can be added. Both are about sessions that are `Counted`; a session that once was not
never is again, because its charges only grow.

**ServicesProofs**: `OneSigningKeyTheorem` (`CreatorInv`: only the replica that created a
short key file writes it; `SeedInv`: a seed in use is the one in the file),
`NothingUngovernedTheorem` and `AnswersMatchTheorem` (`Governed`: what a phase of the loop
implies for the verdict; `HonestInv`: every line in the pipes and every entry of the cache
answers a request with that key), `AccountedTheorem` (`Unique` and `Placed`: a delivery is
in one place and in it once, through overflow of the channel and of the dead letters),
`QueueLosesOnlyStaleTheorem` (an action property), and for Storage:

* Storage: `TwinStores` and `BackendsAlwaysAgree`. `StoreInv` says that the two tables have the same keys and that the rows
  under a key are *twins*, what the two backends store of one object (`AuditTwins`, ..., per table). One lemma
  per table says which columns of twins are equal and that they decode to the same value
  (`AuditTwin`, ...); one per query, that therefore its keys, its order and what it shows are equal sets and functions
  (`AuditLists`, `CostsByColumn`, `CostsOverTime`, `AnalyticsAgree`, ...), so that sorting and summing
  give the same result and no induction over rows is needed; one per statement, that it leaves twins and
  replies alike, with the columns that an upsert keeps (`IdentityStored`, `TokenStored`, ...). The proof fails, as it should, when
  the PostgreSQL session is not in UTC or a decoder has the wrong width.

**DictumProofs**. `DraftInvariance` says that all an author can write are trees (`Tree`: every node is a leaf or
stands right after its last part, and its parts are where it says). The library's induction theorems take an operator
and cannot be used; `LeastNat` derives from `WFMin` that a set of numbers that is not empty has a least one, which is
induction for any predicate that is written as a set.

* `TypedPrograms` and `OverlayPathsResolve`. On trees the walks of evaluator, type checker and WASM generator exist
  and satisfy their recursion (`EvalUnfold`, `InferUnfold`, `EmitUnfold`), and two inductions over positions give the theorem:
  a node whose inferred type is ground evaluates to a value of that type (`TypedRuns`), and the number its code leaves
  represents that value (`CodedRuns`: booleans as 0 and 1, integers below half the width as themselves, so
  that the signed comparison and the bitwise `and`, `or` mean what the tree walk means).
* `ProgramsReadBack`: the parser returns every program from the text that has a parenthesis only where
  precedence asks for one. A text may stand anywhere among other tokens (`Placed`), as long as what follows cannot continue
  it. `Primary`, `Membership`, ..., `Disjunction` say that the method of that level reads a text to its end, and one lemma
  per level lifts a text to the next looser one (`Loosen`); `PartReads` is the step to an operand, in its parentheses
  if it binds less tightly. `ExpressionRead` is the induction over the positions of the tree: the text of a node is read at the level
  of its operator, as exactly that node's part of the tree. The loops over arguments, attributes and policies are followed
  turn by turn (`LoopAt`, `AttrsAt`, `PoliciesAt`), up to a policy (`PolicyRead`), the place of each in the whole
  text (`FlatStands`), and the program (`ProgramRead`).

**VerdictProofs**: `StricterAlwaysWins`, `RefusalsAreExplained`, `ScoresMatchDecisions`,
`VerdictTypeCorrect`, for every set of thresholds, composites in 0..100, plugins, plugin
scores and program length. The invariant `VInv` says that `minimum` equals `demand` until
the score (`MinimumIsDemand`), and afterwards that the decision covers it
(`DecisionCovers`) and, with thresholds in order, is exactly it or the composite's band
(`DecisionExact`). `PolicyAgrees`, `PluginsAgree` and `FiredIsHeld` prove that the code's
order-dependent computations equal the order-free reading of what is asked for;
`BendInBand` is the arithmetic of the adjustment.

Only model-checked, and why:

* `RecordEnds`, `HandlerEnds`, `Settles`, `ProxyReturns`: liveness under fairness is out of
  the prover's reach.
* every violation: it needs one behaviour, which TLC shows.

## 5. Not modelled

Text analysis (firewall, threat feed, secret detection, schemas, response scan, protocol envelopes) is present only as
the signals it produces; it is regular expressions over text and keeps no state. The
weights of the composite and the adaptive scorer are floating-point sums and appear as an
arbitrary score. Behavioural fingerprints are advisory; their rows are in Storage. Anomaly scores of the session graph add a
Review and no state. Labels per agent are opt-in and not modelled. The Dictum
lexer works on characters; the model starts at tokens. WASM execution, SBOM and
in-toto statements of plugins, migrations, the SSE stream, the MCP server, telemetry, offline policy verification, templates, the
kernel and reasoning crates, the dashboard and the SDKs are glue, data or
presentation. `PROJECT.json` lists every part left out, with its reason.

Of the databases, the model leaves out what depends on the characters of a text: a NUL, which PostgreSQL refuses, the normalisation of JSONB, and
time stamps in another format than the one the code writes. Whether the collation keeps two ids apart is not in question: they are compared by
bytes for equality. The resolution of a replay's argument sees at most `ListLimit` (10,000) runs; the instance has one run.

Two hazards have no property: what a restart forgets by design of the write-behind
(`main.rs:988`), which includes an older snapshot that overwrote a newer one (`execute_pipeline.rs:360`: it is consistent in itself, so `StrikesConsistent`
holds of it), and the session map that grows past its limit while nothing in it is stale
(`session_dag.rs:412`).

## 6. Plan

Every safety invariant and every safety action property that a passing run checks is stated by a theorem.
What is left is breadth: session anomalies and labels per agent, rule matching and time windows.

## 7. Running

```
tlc -config ReceiptChain.cfg MCReceiptChain     # and the other pairs in PROJECT.json
tlapm EvidenceProofs.tla                        # and the other seven *Proofs modules
```
