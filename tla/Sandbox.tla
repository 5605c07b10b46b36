------------------------------ MODULE Sandbox ------------------------------
(***************************************************************************)
(* Layer 5: the dry run of a risky action and the queue of actions that    *)
(* wait for a human (sandbox_executor.rs).  The queue is one map behind    *)
(* one mutex, filled by requests, emptied by administrators and by the     *)
(* cleanup task, and dated by a wall clock that may be set back.            *)
(***************************************************************************)
EXTENDS Integers, FiniteSets, FiniteSetsExt

CONSTANTS
    Executions,   \* execution ids
    Actions,      \* what the analysers see of an action
    RiskScores,
    QueueLimits,  \* what the operator may configure: [max, ttl]
    MaxWall       \* bound on the wall clock

ASSUME SandboxAssumption == QueueLimits \subseteq [max : Nat, ttl : Nat] /\ MaxWall \in Nat

VARIABLES
    pending,  \* PENDING: execution id to the time it was queued
    ruling,   \* what an administrator was told of an execution
    seen,     \* execution ids given out
    limits,   \* IAGA_SENTINEL_MAX_SANDBOX_PENDING, ..._PENDING_TTL_MS: read once
    wall
sandboxVars == <<pending, ruling, seen, limits, wall>>

SandboxInit ==
    /\ pending = <<>>
    /\ ruling = [x \in Executions |-> "none"]
    /\ seen = {}
    /\ limits \in QueueLimits
    /\ wall = 0

-----------------------------------------------------------------------------
(* The analysers.  An action is its kind and what was found in it: the rows  *)
(* of SHELL_CHECKS that match, the SQL statements, the marks of a request.   *)

ShellChecks == <<"critical", "critical", "high", "high", "high", "critical", "critical", "high">>
\* A later row overwrites the severity of an earlier one.
AnalyzeShell(rows) == IF rows = {} THEN "low" ELSE ShellChecks[Max(rows)]

AnalyzeDb(found) ==
    CASE "ALTER" \in found -> "high"
      [] "ALTER" \notin found /\ "UPDATE" \in found ->
           IF "WHERE" \in found THEN "medium" ELSE "high"
      [] {"ALTER", "UPDATE"} \cap found = {} /\ "DROP" \in found -> "critical"
      [] {"ALTER", "UPDATE", "DROP"} \cap found = {} /\ "DELETE" \in found ->
           IF "WHERE" \in found THEN "high" ELSE "critical"
      [] OTHER -> "low"

AnalyzeHttp(found) == IF {"suspicious", "large"} \cap found # {} THEN "high"
                      ELSE IF "mutating" \in found THEN "medium" ELSE "low"

Severity(a) == CASE a.kind = "shell" -> AnalyzeShell(a.found)
                 [] a.kind = "db_query" -> AnalyzeDb(a.found)
                 [] a.kind = "http" -> AnalyzeHttp(a.found)
                 [] a.kind = "email" -> "medium"
                 [] OTHER -> "low"

ShouldSandbox(a, score) ==
    \/ a.kind \in {"shell", "db_query", "email"} /\ score >= 50
    \/ score >= 65
    \/ a.kind = "file_write" /\ score >= 40
RequiresApproval(a, score) == Severity(a) \in {"high", "critical"} \/ score >= 65

-----------------------------------------------------------------------------
Age(x) == IF wall >= pending[x] THEN wall - pending[x] ELSE 0
Keeping(S) == [x \in S |-> pending[x]]
Unexpired == {x \in DOMAIN pending : Age(x) < limits.ttl}

Queued == IF Cardinality(DOMAIN pending) >= limits.max THEN Unexpired ELSE DOMAIN pending

\* Mutant: a full queue gives up its newest entry.
RoomFromNewest ==
    IF Cardinality(Queued) < limits.max \/ Queued = {} THEN {Queued}
    ELSE {Queued \ {x} : x \in {y \in Queued : \A z \in Queued : pending[y] >= pending[z]}}

\* What stays when an entry comes in: when the queue is full the expired ones
\* go, and if it still is, one of those with the earliest time, if there is one.
MakeRoom ==
    IF Cardinality(Queued) < limits.max \/ Queued = {} THEN {Queued}
    ELSE {Queued \ {x} : x \in {y \in Queued : \A z \in Queued : pending[y] <= pending[z]}}

\* Layer 5 of execute_pipeline.
SandboxExecute(x) ==
    /\ x \notin seen
    /\ seen' = seen \cup {x}
    /\ \E a \in Actions, score \in RiskScores :
         /\ ShouldSandbox(a, score)
         /\ \/ ~RequiresApproval(a, score) /\ UNCHANGED pending
            \/ /\ RequiresApproval(a, score)
               /\ \E kept \in MakeRoom :
                    pending' = [y \in kept \cup {x} |-> IF y = x THEN wall ELSE pending[y]]
    /\ UNCHANGED <<ruling, limits, wall>>

\* approve_sandbox and reject_sandbox; an unknown id is a 404.
Rule(x, how) ==
    /\ x \in DOMAIN pending
    /\ pending' = Keeping(DOMAIN pending \ {x})
    /\ ruling' = [ruling EXCEPT ![x] = how]
    /\ UNCHANGED <<seen, limits, wall>>
ApproveSandbox(x) == Rule(x, "approved")
RejectSandbox(x) == Rule(x, "rejected")

PruneStalePending ==
    /\ pending' = Keeping(Unexpired)
    /\ UNCHANGED <<ruling, seen, limits, wall>>

\* Time passes, or the clock is stepped back.
WallClock ==
    /\ wall' \in {wall + 1, wall - 1} \cap 0..MaxWall
    /\ UNCHANGED <<pending, ruling, seen, limits>>

SandboxNext ==
    \/ \E x \in Executions : SandboxExecute(x) \/ ApproveSandbox(x) \/ RejectSandbox(x)
    \/ PruneStalePending \/ WallClock
SandboxSpec == SandboxInit /\ [][SandboxNext]_sandboxVars

-----------------------------------------------------------------------------
\* An entry is let in before the limit is looked at again: 0 holds as many as 1.
Slots == IF limits.max = 0 THEN 1 ELSE limits.max

\* The time to live of an entry is over, or there is none to wait for.
Outlived(x) == wall >= pending[x] + limits.ttl \/ limits.ttl = 0

\* The approval queue holds at most MAX_PENDING entries, and one if that is 0;
\* an entry leaves it for one of three reasons only: an administrator ruled on
\* it, once and for good; it expired; or the queue was full of entries none of
\* which had expired and it was among the oldest.  A clock that is stepped back
\* expires nothing that has time to live (prune_stale_pending, sandbox_execute, approve_sandbox,
\* reject_sandbox).
QueueStep ==
    LET gone == DOMAIN pending \ DOMAIN pending'
        kept == DOMAIN pending \cap DOMAIN pending'
    IN /\ Cardinality(DOMAIN pending') <= Slots
       /\ \A x \in Executions : ruling[x] # "none" => ruling'[x] = ruling[x] /\ x \notin DOMAIN pending'
       /\ \A x \in gone :
            \/ ruling'[x] # "none"
            \/ Outlived(x)
            \/ /\ Cardinality(kept) = Slots - 1
               /\ \A y \in kept : pending[x] <= pending[y] /\ ~Outlived(y)

\* Every step of the queue is such a step: nothing a human was meant to see
\* disappears unseen for another reason (sandbox_executor.rs).
QueueLosesOnlyStale == [][QueueStep]_sandboxVars

=============================================================================
