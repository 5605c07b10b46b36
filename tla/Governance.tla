----------------------------- MODULE Governance -----------------------------
(***************************************************************************)
(* What execute_pipeline does with a verdict once the layers have decided  *)
(* it, and what review_action_handler does with a human's answer.          *)
(*                                                                         *)
(* A request writes, in this order and with no transaction around them,    *)
(* the audit row, the signed receipt and, for a Review, the queue entry,   *)
(* then publishes and answers.  Each write can fail, or fail after it      *)
(* committed; the caller can disconnect and the process can die between    *)
(* any two of them.  The receipt is written through ReceiptLog, the        *)
(* abstract log that ReceiptChain implements; as there, a statement whose  *)
(* task no longer waits for it may still execute, whenever it likes.       *)
(***************************************************************************)
EXTENDS ReceiptLog, FiniteSets

CONSTANTS
    Requests,       \* POST /v1/inspect calls, also the event_id of each
    Resolvers,      \* POST /v1/reviews/{id} calls, also the event_id of each
    TargetOf,       \* [Resolvers -> Requests]: the review an admin resolves
    StatusOf,       \* [Resolvers -> {"approved", "rejected"}]
    MaxCrashes      \* bound: process crashes in one behaviour

ASSUME EventsAssumption == Events = Requests \cup Resolvers /\ Requests \cap Resolvers = {}
ASSUME ResolverAssumption ==
    /\ TargetOf \in [Resolvers -> Requests]
    /\ StatusOf \in [Resolvers -> {"approved", "rejected"}]
ASSUME CrashAssumption == MaxCrashes \in Nat

VARIABLES
    server,     \* "down", "up", or "refused" to start
    failClosed, \* IAGA_SENTINEL_RECEIPT_FAIL_CLOSED, an operator's boot decision
    logger,     \* state.receipts.is_some()
    pc,         \* [Events -> phase of the handler's task]
    verdict,    \* [Requests -> decision], "limited" for the rate-limit Block
    audit,      \* event ids with a row in audit_events
    wire,       \* <<table, event>>: statements given up, that may still execute
    reviews,    \* [Requests -> status in review_requests, or "none"]
    published,  \* events ever sent on the event bus
    crashes

procVars == <<server, failClosed, logger, crashes>>
vars == <<logVars, procVars, pc, verdict, audit, wire, reviews, published>>

Running == {"audit", "record", "queue", "announce", "reply", "update", "get"}
Ended == {"ok", "error", "gone"}
Verdicts == {"allow", "review", "block", "limited"}

Goto(t, phase) == pc' = [pc EXCEPT ![t] = phase]

\* The statement that the task of t may have out in its present phase.
Statement(t) ==
    CASE pc[t] = "audit" -> {<<"audit", t>>}
      [] pc[t] = "record" /\ logger /\ ~InChain(t) -> {<<"receipt", t>>}
      [] pc[t] = "queue" -> {<<"queue", t>>}
      [] pc[t] = "update" -> {<<"update", t>>}
      [] OTHER -> {}

\* The task stops waiting for its statement, which was sent or was not.
GiveUp(t) == wire' \in {wire, wire \cup Statement(t)}

Init ==
    /\ LogInit
    /\ server = "down"
    /\ failClosed \in BOOLEAN
    /\ logger = FALSE
    /\ pc = [t \in Events |-> "idle"]
    /\ verdict = [r \in Requests |-> "none"]
    /\ audit = {}
    /\ wire = {}
    /\ reviews = [r \in Requests |-> "none"]
    /\ published = {}
    /\ crashes = 0

-----------------------------------------------------------------------------
\* Mutant: serve() does not call require_receipts_or_exit.
BootUngated ==
    /\ server # "up"
    /\ \E built \in BOOLEAN : logger' = built /\ server' = "up"
    /\ UNCHANGED <<logVars, failClosed, pc, verdict, audit, wire, reviews, published, crashes>>

\* try_build_receipt_logger may return None (key file, store); with fail-closed
\* receipts require_receipts_or_exit then ends the process.
Boot ==
    /\ server # "up"
    /\ \E built \in BOOLEAN :
         /\ logger' = built
         /\ server' = IF failClosed /\ ~built THEN "refused" ELSE "up"
    /\ UNCHANGED <<logVars, failClosed, pc, verdict, audit, wire, reviews, published, crashes>>

\* An error before the verdict is settled: unknown agent, scope mismatch,
\* missing workspace policy, unreadable rules.  Nothing is written.
RefuseRequest(r) ==
    /\ server = "up"
    /\ pc[r] = "idle"
    /\ Goto(r, "error")
    /\ UNCHANGED <<logVars, procVars, verdict, audit, wire, reviews, published>>

\* The rate limiter blocks, or the layers settle a decision.
Decide(r) ==
    /\ server = "up"
    /\ pc[r] = "idle"
    /\ \E v \in Verdicts : verdict' = [verdict EXCEPT ![r] = v]
    /\ Goto(r, "audit")
    /\ UNCHANGED <<logVars, procVars, audit, wire, reviews, published>>

\* Only a request that was not rate limited stops at a failed audit append.
AuditIsFatal(t) == t \in Requests /\ verdict[t] # "limited"

\* audit_store.append returned Ok.
AuditOk(t) ==
    /\ pc[t] = "audit"
    /\ audit' = audit \cup {t}
    /\ Goto(t, "record")
    /\ UNCHANGED <<logVars, procVars, verdict, wire, reviews, published>>

\* Mutant: every failed audit append is only logged.
AuditErrorLogged(t) ==
    /\ pc[t] = "audit"
    /\ Goto(t, "record")
    /\ GiveUp(t)
    /\ UNCHANGED <<logVars, procVars, verdict, audit, reviews, published>>

\* audit_store.append returned Err; the row may be there all the same.
AuditError(t) ==
    /\ pc[t] = "audit"
    /\ Goto(t, IF AuditIsFatal(t) THEN "error" ELSE "record")
    /\ GiveUp(t)
    /\ UNCHANGED <<logVars, procVars, verdict, audit, reviews, published>>

-----------------------------------------------------------------------------
\* Where a task goes once record() has returned Ok, or there is no logger.
AfterRecord(t) ==
    IF t \in Resolvers THEN "announce"
    ELSE IF verdict[t] = "review" THEN "queue" ELSE "reply"

\* Mutant: a task without a logger waits for one.
NoLoggerWaits(t) ==
    /\ pc[t] = "record"
    /\ ~logger
    /\ UNCHANGED vars

NoLogger(t) ==
    /\ pc[t] = "record"
    /\ ~logger
    /\ Goto(t, AfterRecord(t))
    /\ UNCHANGED <<logVars, procVars, verdict, audit, wire, reviews, published>>

\* The receipt commits; record() has not heard of it yet.
ReceiptCommits(t) ==
    /\ pc[t] = "record"
    /\ logger
    /\ LogAppend(t)
    /\ UNCHANGED <<procVars, pc, verdict, audit, wire, reviews, published>>

\* record() returns Ok out of its loop.
ReceiptSigned(t) ==
    /\ pc[t] = "record"
    /\ logger
    /\ LogAck(t)
    /\ Goto(t, AfterRecord(t))
    /\ UNCHANGED <<procVars, verdict, audit, wire, reviews, published>>

\* Mutant: the pipeline ignores record()'s error, as the review handler may.
DropTolerated(t) ==
    /\ pc[t] = "record"
    /\ logger
    /\ Goto(t, AfterRecord(t))
    /\ GiveUp(t)
    /\ UNCHANGED <<logVars, procVars, verdict, audit, reviews, published>>

\* record() drops the receipt.  Fail-closed it returns Err: `?` ends a request,
\* a resolution is already committed and goes on.
ReceiptDropped(t) ==
    /\ pc[t] = "record"
    /\ logger
    /\ Goto(t, IF failClosed /\ t \in Requests THEN "error" ELSE AfterRecord(t))
    /\ GiveUp(t)
    /\ UNCHANGED <<logVars, procVars, verdict, audit, reviews, published>>

-----------------------------------------------------------------------------
\* review_store.create
QueueReview(r) ==
    /\ pc[r] = "queue"
    /\ reviews' = [reviews EXCEPT ![r] = "pending"]
    /\ Goto(r, "announce")
    /\ UNCHANGED <<logVars, procVars, verdict, audit, wire, published>>

\* Mutant: a request whose review could not be queued is answered all the same.
QueueErrorLogged(r) ==
    /\ pc[r] = "queue"
    /\ Goto(r, "reply")
    /\ UNCHANGED <<logVars, procVars, verdict, audit, wire, reviews, published>>

QueueError(r) ==
    /\ pc[r] = "queue"
    /\ Goto(r, "error")
    /\ GiveUp(r)
    /\ UNCHANGED <<logVars, procVars, verdict, audit, reviews, published>>

\* ReviewCreated goes out after the row is there for an admin to see.
AnnounceReview(r) ==
    /\ r \in Requests
    /\ pc[r] = "announce"
    /\ published' = published \cup {<<"created", r>>}
    /\ Goto(r, "reply")
    /\ UNCHANGED <<logVars, procVars, verdict, audit, wire, reviews>>

\* The handler publishes ActionGoverned and answers with the verdict.
Reply(r) ==
    /\ pc[r] = "reply"
    /\ published' = published \cup {<<"governed", r>>}
    /\ Goto(r, "ok")
    /\ UNCHANGED <<logVars, procVars, verdict, audit, wire, reviews>>

-----------------------------------------------------------------------------
\* review_action_handler is called, and update_status sends its UPDATE.
Resolve(s) ==
    /\ server = "up"
    /\ pc[s] = "idle"
    /\ Goto(s, "update")
    /\ UNCHANGED <<logVars, procVars, verdict, audit, wire, reviews, published>>

\* Mutant: update_status without `AND status = 'pending'`.
HitsAnyRow(s) == reviews[TargetOf[s]] # "none"

\* UPDATE ... WHERE id = ? AND status = 'pending'
HitsRow(s) == reviews[TargetOf[s]] = "pending"

SetStatus(s) == reviews' = [reviews EXCEPT ![TargetOf[s]] = StatusOf[s]]

\* rows_affected() = 1
UpdateStatus(s) ==
    /\ pc[s] = "update"
    /\ HitsRow(s)
    /\ SetStatus(s)
    /\ Goto(s, "get")
    /\ UNCHANGED <<logVars, procVars, verdict, audit, wire, published>>

\* No row hit: ReviewNotFound, or "a resolution is final".
RefuseResolution(s) ==
    /\ pc[s] = "update"
    /\ ~HitsRow(s)
    /\ Goto(s, "error")
    /\ UNCHANGED <<logVars, procVars, verdict, audit, wire, reviews, published>>

\* The statement returned Err, executed or not.
UpdateError(s) ==
    /\ pc[s] = "update"
    /\ Goto(s, "error")
    /\ GiveUp(s)
    /\ UNCHANGED <<logVars, procVars, verdict, audit, reviews, published>>

\* update_status ends by reading the row back.
GetReview(s) ==
    /\ pc[s] = "get"
    /\ Goto(s, "audit")
    /\ UNCHANGED <<logVars, procVars, verdict, audit, wire, reviews, published>>

GetReviewFails(s) ==
    /\ pc[s] = "get"
    /\ Goto(s, "error")
    /\ UNCHANGED <<logVars, procVars, verdict, audit, wire, reviews, published>>

\* The handler publishes ReviewResolved and answers.
AnnounceResolution(s) ==
    /\ s \in Resolvers
    /\ pc[s] = "announce"
    /\ published' = published \cup {<<"resolved", TargetOf[s], StatusOf[s]>>}
    /\ Goto(s, "ok")
    /\ UNCHANGED <<logVars, procVars, verdict, audit, wire, reviews>>

-----------------------------------------------------------------------------
\* The caller disconnects and its task is dropped at an await point.
Cancel(t) ==
    /\ pc[t] \in Running \ {"announce", "reply"}
    /\ Goto(t, "gone")
    /\ GiveUp(t)
    /\ UNCHANGED <<logVars, procVars, verdict, audit, reviews, published>>

Crash ==
    /\ server = "up"
    /\ crashes < MaxCrashes
    /\ crashes' = crashes + 1
    /\ server' = "down"
    /\ pc' = [t \in Events |-> IF pc[t] \in Running THEN "gone" ELSE pc[t]]
    /\ \E sent \in SUBSET UNION {Statement(t) : t \in Events} : wire' = wire \cup sent
    /\ UNCHANGED <<logVars, failClosed, logger, verdict, audit, reviews, published>>

\* The database executes statements that nobody waits for.
LateAudit(t) ==
    /\ audit' = audit \cup {t}
    /\ UNCHANGED <<logVars, reviews>>

LateReceipt(t) ==
    /\ LogAppend(t)
    /\ UNCHANGED <<audit, reviews>>

LateQueue(r) ==
    /\ reviews' = [reviews EXCEPT ![r] = "pending"]
    /\ UNCHANGED <<logVars, audit>>

LateUpdate(s) ==
    /\ IF HitsRow(s) THEN SetStatus(s) ELSE UNCHANGED reviews
    /\ UNCHANGED <<logVars, audit>>

LateStatement ==
    \E st \in wire :
        /\ \/ st[1] = "audit" /\ LateAudit(st[2])
           \/ st[1] = "receipt" /\ LateReceipt(st[2])
           \/ st[1] = "queue" /\ LateQueue(st[2])
           \/ st[1] = "update" /\ LateUpdate(st[2])
        /\ wire' = wire \ {st}
        /\ UNCHANGED <<procVars, pc, verdict, published>>

WriteStep(t) ==
    \/ AuditOk(t) \/ AuditError(t)
    \/ NoLogger(t) \/ ReceiptCommits(t) \/ ReceiptSigned(t) \/ ReceiptDropped(t)

RequestStep(r) ==
    WriteStep(r) \/ QueueReview(r) \/ QueueError(r) \/ AnnounceReview(r) \/ Reply(r)

ResolverStep(s) ==
    \/ UpdateStatus(s) \/ RefuseResolution(s) \/ UpdateError(s)
    \/ GetReview(s) \/ GetReviewFails(s)
    \/ WriteStep(s) \/ AnnounceResolution(s)

Next ==
    \/ Boot
    \/ Crash
    \/ \E r \in Requests : RefuseRequest(r) \/ Decide(r) \/ RequestStep(r)
    \/ \E s \in Resolvers : Resolve(s) \/ ResolverStep(s)
    \/ \E t \in Events : Cancel(t)
    \/ LateStatement

\* Every statement is answered, by a result or by an error, and tokio polls the
\* task again; nobody has to send a request and nothing has to succeed.
Fairness ==
    /\ \A r \in Requests : WF_vars(RequestStep(r))
    /\ \A s \in Resolvers : WF_vars(ResolverStep(s))

Spec == Init /\ [][Next]_vars /\ Fairness

-----------------------------------------------------------------------------
\* With fail-closed receipts no verdict reaches a caller, no ActionGoverned event
\* goes out and nothing enters the review queue without its signed receipt, in
\* whatever state the process restarted (README.md:300).
FailClosedEvidence ==
    failClosed => \A r \in Requests :
        (pc[r] = "ok" \/ <<"governed", r>> \in published \/ reviews[r] # "none") => InChain(r)

\* Whatever a request leaves behind or sends out comes after its audit row, the
\* rate-limit Block excepted: the trail is never behind the chain, the queue,
\* the bus or the caller.
AuditFirst ==
    \A r \in Requests :
        (\/ InChain(r) \/ reviews[r] # "none" \/ pc[r] = "ok" \/ <<"governed", r>> \in published)
            => r \in audit \/ verdict[r] = "limited"

\* A caller told "review" has an entry in the queue, announced, that a human
\* can resolve or has resolved, and only a Review ever gets there.
ReviewIsQueued ==
    \A r \in Requests :
        /\ (pc[r] = "ok" /\ verdict[r] = "review") =>
               reviews[r] # "none" /\ <<"created", r>> \in published
        /\ reviews[r] # "none" => verdict[r] = "review"

\* Of the admins resolving one review at most one gets past update_status, and
\* everything written or sent about the resolution says what the row says.
OneAdjudication ==
    \A r \in Requests :
        LET Won == {s \in Resolvers : /\ TargetOf[s] = r
                                      /\ \/ pc[s] \in (Running \cup {"ok"}) \ {"update"}
                                         \/ s \in audit \/ InChain(s)}
        IN  /\ Cardinality(Won) <= 1
            /\ \A s \in Won : reviews[r] = StatusOf[s]
            /\ \A st \in {"approved", "rejected"} :
                   <<"resolved", r, st>> \in published => reviews[r] = st

\* "a resolution is final" (storage/sqlite.rs:703), and an entry never leaves
\* the queue.
ResolutionFinal ==
    [][\A r \in Requests :
          /\ reviews[r] \in {"approved", "rejected"} => reviews'[r] = reviews[r]
          /\ reviews[r] # "none" => reviews'[r] # "none"]_vars

\* Every handler that started ends: it answers or its task is gone.
HandlerEnds == \A t \in Events : pc[t] \in Running ~> pc[t] \in Ended

\* "a 500 would tell the operator their resolution failed when it stands"
\* (create_server.rs:677-679): once update_status has changed the row, the
\* handler never ends in an error.
CommittedResolutionNotFailed ==
    [][\A s \in Resolvers :
          pc[s] \in Running \ {"update"} => pc'[s] # "error"]_vars
=============================================================================
