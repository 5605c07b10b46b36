---------------------------- MODULE SessionState ----------------------------
(***************************************************************************)
(* Layers 1 and 2 of the pipeline: the session graph with its automaton    *)
(* and attack signatures, and the taint labels, with the write-behind      *)
(* copies of both and the hydration at startup.                            *)
(*                                                                         *)
(* One governed call goes through four critical sections of two different  *)
(* mutexes (SESSION_TAINTS, SESSIONS, SESSIONS, SESSION_TAINTS), so calls  *)
(* of one session interleave between them.  Each call spawns two tasks     *)
(* that write what it saw to the database; nothing orders them.            *)
(*                                                                         *)
(* Left out: the anomaly scores, which add a Review and no state, and the  *)
(* labels aggregated per agent, which are off by default.                  *)
(***************************************************************************)
EXTENDS Naturals, Sequences, FiniteSets, FiniteSetsExt

CONSTANTS
    Sessions,
    Workers,        \* tasks that govern calls, one after the other
    Inputs,         \* the calls: [action, secret, internal], see below
    BlockCounts,    \* the values an operator may give MAX_BLOCK_COUNT
    MaxCalls,       \* bound: governed calls in one behaviour
    MaxPending,     \* bound: spawned writes outstanding when a call begins
    MaxCrashes,     \* bound: restarts in one behaviour
    NoDag,          \* no entry for the session
    NoCall          \* the worker is between two calls

Actions == {"file_read", "db_query", "http", "email", "shell", "custom", "file_write"}
Labels == {"local_fs", "secret", "internal_api", "external_tool", "db_result",
           "shell_output", "network_response"}

\* secret: a secret path or content in the payload.  internal: the URL is an
\* internal host.
Calls == [action : Actions, secret : BOOLEAN, internal : BOOLEAN]

ASSUME InputAssumption == Inputs \subseteq Calls
ASSUME BoundAssumption ==
    /\ MaxCalls \in Nat /\ MaxPending \in Nat /\ MaxCrashes \in Nat
    /\ BlockCounts \subseteq Nat

VARIABLES
    dag,        \* SESSIONS: [Sessions -> graph or NoDag]
    taints,     \* SESSION_TAINTS: [Sessions -> SUBSET Labels], {} without entry
    pc,         \* [Workers -> phase]
    call,       \* [Workers -> the call under way, or NoCall]
    dbDag,      \* session_graphs
    dbTaint,    \* taint_sessions
    pending,    \* spawned writes that have not ended; equal ones count once
    aged,       \* <<store, session>>: entries older than their TTL
    owed,       \* labels that finished calls brought into the session, and that
                \* no expiry or restart took away (for the properties only)
    maxBlockCount,  \* MAX_BLOCK_COUNT, read once by each process: strikes until a
                    \* block is permanent
    highest,        \* the largest of them so far, 1 if they were all 0 (for the
                    \* properties only)
    calls, crashes

memVars == <<dag, taints, aged, owed>>
dbVars == <<dbDag, dbTaint>>
limitVars == <<maxBlockCount, highest>>
vars == <<memVars, dbVars, pc, call, pending, calls, crashes, limitVars>>

-----------------------------------------------------------------------------
\* default_transitions(), state by state.
Transitions ==
    [Idle          |-> Actions,
     Reading       |-> {"file_read", "db_query", "custom", "shell", "file_write"},
     Processing    |-> {"file_read", "file_write", "custom", "shell", "db_query", "http"},
     Writing       |-> {"file_read", "custom", "file_write"},
     NetworkEgress |-> {"file_read", "custom", "http", "shell"},
     Blocked       |-> {}]

Target(action) ==
    CASE action \in {"file_read", "db_query"} -> "Reading"
      [] action \in {"http", "email"} -> "NetworkEgress"
      [] action \in {"shell", "custom"} -> "Processing"
      [] action = "file_write" -> "Writing"

\* check_transition(): out of Reading, egress depends on the taints.
TransitionAllowed(state, action, labels) ==
    IF state = "Reading" /\ action \in {"http", "email"}
      THEN labels \cap {"local_fs", "secret", "internal_api"} = {}
      ELSE action \in Transitions[state]

\* attack_signatures().  required = {}: none required.
Signature(severity, pattern, required) ==
    [severity |-> severity, pattern |-> pattern, required |-> required]

AttackSignatures == {
    Signature("critical", <<"file_read", "http">>, {"local_fs", "secret"}),
    Signature("critical", <<"file_read", "email">>, {"secret"}),
    Signature("high", <<"db_query", "http">>, {"internal_api"}),
    Signature("critical", <<"db_query", "file_write", "http">>, {}),
    Signature("high", <<"shell", "file_read", "shell">>, {})}

\* The greedy scan of match_attack_signatures() from one start: the place where
\* each step of the pattern is found, past the end when it is not.
ScanFrom(nodes, pattern, start) ==
    LET at[k \in 0..Len(pattern)] ==
            IF k = 0 THEN start - 1
            ELSE LET here == {i \in 1..Len(nodes) : i > at[k-1] /\ nodes[i].action = pattern[k]}
                 IN  IF here = {} THEN Len(nodes) + 1 ELSE Min(here)
    IN  at

Matches(nodes, sig) ==
    \E start \in 1..Len(nodes) :
        LET at == ScanFrom(nodes, sig.pattern, start)
        IN  /\ at[Len(sig.pattern)] <= Len(nodes)
            /\ \/ sig.required = {}
               \/ sig.required \cap UNION {nodes[at[k]].taints : k \in 1..Len(sig.pattern)} # {}

Attacks(nodes) == {sig \in AttackSignatures : Matches(nodes, sig)}

-----------------------------------------------------------------------------
\* classify_source()
SourceLabels(in) ==
    (CASE in.action = "file_read" -> {"local_fs"}
       [] in.action = "db_query" -> {"db_result"}
       [] in.action = "http" ->
            {"network_response", IF in.internal THEN "internal_api" ELSE "external_tool"}
       [] in.action = "shell" -> {"shell_output"}
       [] in.action = "custom" -> {"external_tool"}
       [] OTHER -> {})
    \cup IF in.secret THEN {"secret"} ELSE {}

\* classify_sink() and the critical and high default_policies(): the labels that
\* must not reach the call.  untrusted_user, which the remaining rules are about,
\* is given to nothing.
Forbidden(in) ==
    CASE in.action = "http" -> {"local_fs", "secret", "internal_api", "db_result"}
      [] in.action = "email" -> {"secret", "internal_api"}
      [] in.action = "shell" -> {"external_tool"}
      [] OTHER -> {}

\* analyze_taint(): blocked.
TaintBlocks(in, labels) == Forbidden(in) \cap (labels \cup SourceLabels(in)) # {}

-----------------------------------------------------------------------------
NewDag == [nodes |-> <<>>, state |-> "Idle", blocked |-> FALSE, cooled |-> FALSE, strikes |-> 0]

Init ==
    /\ dag = [s \in Sessions |-> NoDag]
    /\ taints = [s \in Sessions |-> {}]
    /\ pc = [w \in Workers |-> "idle"]
    /\ call = [w \in Workers |-> NoCall]
    /\ dbDag = [s \in Sessions |-> NoDag]
    /\ dbTaint = [s \in Sessions |-> {}]
    /\ pending = {}
    /\ aged = {}
    /\ owed = [s \in Sessions |-> {}]
    /\ calls = 0
    /\ crashes = 0
    /\ maxBlockCount \in BlockCounts
    /\ highest = IF maxBlockCount > 1 THEN maxBlockCount ELSE 1

\* get_session_taint()
GetSessionTaint(w) ==
    /\ pc[w] = "idle"
    /\ calls < MaxCalls /\ Cardinality(pending) <= MaxPending
    /\ calls' = calls + 1
    /\ \E s \in Sessions, in \in Inputs :
         call' = [call EXCEPT ![w] =
            [session |-> s, input |-> in, inherited |-> taints[s],
             owed |-> owed[s], allowed |-> TRUE]]
    /\ pc' = [pc EXCEPT ![w] = "graph"]
    /\ UNCHANGED <<memVars, dbVars, pending, crashes, limitVars>>

\* Mutant: a session out of strikes cools down like any other.
NeverPermanent(g) == g.blocked /\ ~g.cooled

\* The two early returns: out of strikes, or still in the cooldown.
StillBlocked(g) == g.blocked /\ (g.strikes >= maxBlockCount \/ ~g.cooled)

\* A cooldown that is over: processing starts again, the strikes stay.
Recover(g) == IF g.blocked THEN [g EXCEPT !.blocked = FALSE, !.state = "Processing"] ELSE g

\* Mutant: a call that fails both checks strikes twice.
StrikeTwice(g, allowed, attacked) ==
    [g EXCEPT !.blocked = TRUE, !.cooled = FALSE, !.state = "Blocked",
              !.strikes = @ + (IF ~allowed /\ attacked THEN 2 ELSE 1)]

\* Blocked by the transition, by a critical chain, or by both: one strike.
Strike(g, allowed, attacked) ==
    [g EXCEPT !.blocked = TRUE, !.cooled = FALSE, !.state = "Blocked", !.strikes = @ + 1]

\* The call on an unblocked graph: the node, the transition, the signatures.
Evaluate(g, in, inherited) ==
    LET labels == inherited \cup IF g.nodes = <<>> THEN {} ELSE g.nodes[Len(g.nodes)].taints
        nodes == Append(g.nodes, [action |-> in.action, taints |-> labels])
        allowed == TransitionAllowed(g.state, in.action, labels)
        attacked == \E sig \in Attacks(nodes) : sig.severity = "critical"
        grown == [g EXCEPT !.nodes = nodes]
    IN  IF allowed /\ ~attacked THEN [grown EXCEPT !.state = Target(in.action)]
                                ELSE Strike(grown, allowed, attacked)

\* add_tool_call_to_session(), one critical section.
AddToolCall(w) ==
    /\ pc[w] = "graph"
    /\ LET s == call[w].session
           old == IF dag[s] = NoDag THEN NewDag ELSE dag[s]
           new == IF StillBlocked(old) THEN old
                  ELSE Evaluate(Recover(old), call[w].input, call[w].inherited)
       IN  /\ dag' = [dag EXCEPT ![s] = new]
           /\ aged' = aged \ {<<"dag", s>>}
           /\ call' = [call EXCEPT ![w].allowed = ~new.blocked]
    /\ pc' = [pc EXCEPT ![w] = "snapshot"]
    /\ UNCHANGED <<taints, owed, dbVars, pending, calls, crashes, limitVars>>

\* get_session() and the task that will store the clone.
SnapshotSession(w) ==
    /\ pc[w] = "snapshot"
    /\ LET s == call[w].session
       IN  pending' = IF dag[s] = NoDag THEN pending
                      ELSE pending \cup {[session |-> s, graph |-> dag[s]]}
    /\ pc' = [pc EXCEPT ![w] = "taint"]
    /\ UNCHANGED <<memVars, dbVars, call, calls, crashes, limitVars>>

Accumulated(w) == call[w].inherited \cup SourceLabels(call[w].input)

\* Mutant: the labels of the call replace those of the session.
OverwriteTaint(w) == Accumulated(w)

\* update_session_taint() merges.
MergedTaint(w) == taints[call[w].session] \cup Accumulated(w)

\* analyze_taint(), update_session_taint() and the task that will store the
\* labels of this call.
UpdateSessionTaint(w) ==
    /\ pc[w] = "taint"
    /\ LET s == call[w].session
       IN  /\ taints' = [taints EXCEPT ![s] = MergedTaint(w)]
           /\ owed' = [owed EXCEPT ![s] = @ \cup SourceLabels(call[w].input)]
           /\ aged' = aged \ {<<"taint", s>>}
           /\ pending' = pending \cup
                {[session |-> s, labels |-> Accumulated(w)]}
    /\ pc' = [pc EXCEPT ![w] =
                IF call[w].allowed /\ ~TaintBlocks(call[w].input, call[w].inherited)
                  THEN "passed" ELSE "blocked"]
    /\ UNCHANGED <<dag, dbVars, call, calls, crashes, limitVars>>

\* The rest of the pipeline, in other modules.
Finish(w) ==
    /\ pc[w] \in {"passed", "blocked"}
    /\ pc' = [pc EXCEPT ![w] = "idle"]
    /\ call' = [call EXCEPT ![w] = NoCall]
    /\ UNCHANGED <<memVars, dbVars, pending, calls, crashes, limitVars>>

-----------------------------------------------------------------------------
\* store_session() and update_session_taint() replace the row.
Persist(p) ==
    /\ p \in pending
    /\ IF "graph" \in DOMAIN p
         THEN dbDag' = [dbDag EXCEPT ![p.session] = p.graph] /\ UNCHANGED dbTaint
         ELSE dbTaint' = [dbTaint EXCEPT ![p.session] = p.labels] /\ UNCHANGED dbDag
    /\ pending' = pending \ {p}
    /\ UNCHANGED <<memVars, pc, call, calls, crashes, limitVars>>

\* An error is logged.
PersistFails(p) ==
    /\ p \in pending
    /\ pending' = pending \ {p}
    /\ UNCHANGED <<memVars, dbVars, pc, call, calls, crashes, limitVars>>

\* BLOCK_COOLDOWN_MS pass.
CooldownElapses(s) ==
    /\ dag[s] # NoDag
    /\ dag[s].blocked /\ ~dag[s].cooled
    /\ dag' = [dag EXCEPT ![s].cooled = TRUE]
    /\ UNCHANGED <<taints, aged, owed, dbVars, pc, call, pending, calls, crashes, limitVars>>

\* A TTL passes without a call: far longer than a call or a write may take.
Age(s) ==
    /\ dag[s] # NoDag \/ taints[s] # {}
    /\ \A w \in Workers : pc[w] # "idle" => call[w].session # s
    /\ \A p \in pending : p.session # s
    /\ aged' = aged \cup {<<"taint", s>>, <<"dag", s>>}
    /\ UNCHANGED <<dag, taints, owed, dbVars, pc, call, pending, calls, crashes, limitVars>>

\* The cleanup task: two sweeps in memory, two in the database.
PruneTaint(s) ==
    /\ <<"taint", s>> \in aged
    /\ taints' = [taints EXCEPT ![s] = {}]
    /\ owed' = [owed EXCEPT ![s] = {}]
    /\ aged' = aged \ {<<"taint", s>>}
    /\ UNCHANGED <<dag, dbVars, pc, call, pending, calls, crashes, limitVars>>

\* Also what happens to an aged session when add_tool_call_to_session() opens
\* another one and finds MAX_SESSIONS in the map.
PruneSession(s) ==
    /\ <<"dag", s>> \in aged
    /\ dag' = [dag EXCEPT ![s] = NoDag]
    /\ aged' = aged \ {<<"dag", s>>}
    /\ UNCHANGED <<taints, owed, dbVars, pc, call, pending, calls, crashes, limitVars>>

PruneDb(s) ==
    /\ <<"dag", s>> \in aged \/ (dag[s] = NoDag /\ taints[s] = {})
    /\ \/ dbDag[s] # NoDag /\ dbDag' = [dbDag EXCEPT ![s] = NoDag] /\ UNCHANGED dbTaint
       \/ dbTaint[s] # {} /\ dbTaint' = [dbTaint EXCEPT ![s] = {}] /\ UNCHANGED dbDag
    /\ UNCHANGED <<memVars, pc, call, pending, calls, crashes, limitVars>>

\* The process dies and starts again.  Hydration takes the graphs from the
\* database, and the labels of the sessions that have a graph there (read); a
\* read that fails is logged and leaves its part of memory empty.  The operator
\* may have changed MAX_BLOCK_COUNT.
Restart ==
    /\ crashes < MaxCrashes
    /\ crashes' = crashes + 1
    /\ dag' \in {dbDag, [s \in Sessions |-> NoDag]}
    /\ \E read \in SUBSET {s \in Sessions : dbDag[s] # NoDag} :
         taints' = [s \in Sessions |-> IF s \in read THEN dbTaint[s] ELSE {}]
    /\ owed' = [s \in Sessions |-> {}]
    /\ aged' = {}
    /\ pc' = [w \in Workers |-> "idle"]
    /\ call' = [w \in Workers |-> NoCall]
    /\ pending' = {}
    /\ maxBlockCount' \in BlockCounts
    /\ highest' = IF maxBlockCount' > highest THEN maxBlockCount' ELSE highest
    /\ UNCHANGED <<dbVars, calls>>

Next ==
    \/ \E w \in Workers :
        \/ GetSessionTaint(w) \/ AddToolCall(w) \/ SnapshotSession(w)
        \/ UpdateSessionTaint(w) \/ Finish(w)
    \/ \E p \in pending : Persist(p) \/ PersistFails(p)
    \/ \E s \in Sessions :
        CooldownElapses(s) \/ Age(s) \/ PruneTaint(s) \/ PruneSession(s) \/ PruneDb(s)
    \/ Restart

Spec == Init /\ [][Next]_vars

-----------------------------------------------------------------------------
\* What a finished call brought into the session reaches every later call of the
\* session: a call whose sink forbids one of those labels is blocked, whatever
\* other calls of the session were under way at the same time.
TaintReachesSink ==
    \A w \in Workers :
        (pc[w] = "passed") =>
            Forbidden(call[w].input) \cap (call[w].owed \cup SourceLabels(call[w].input)) = {}

\* A graph, in memory, in the database or on its way there, is blocked exactly
\* when its automaton is in Blocked and has one strike per block: never more
\* than the largest limit it lived under, and never that many and unblocked.  A
\* limit of 0 counts as 1, because the first block is already permanent; under a
\* limit that was lowered an unblocked graph still gets its next strike.
StrikesConsistent ==
    \A g \in {dag[s] : s \in Sessions} \cup {dbDag[s] : s \in Sessions}
             \cup {p.graph : p \in {q \in pending : "graph" \in DOMAIN q}} :
        g # NoDag =>
            /\ g.blocked <=> g.state = "Blocked"
            /\ g.strikes <= highest
            /\ g.strikes = highest => g.blocked
            /\ g.blocked => g.strikes > 0

\* A blocked session lets no call in before its cooldown is over, and none ever
\* once it is out of strikes; only expiry and a restart forget the block.
BlockHolds ==
    [][\A s \in Sessions :
          LET g == dag[s] IN
          /\ g # NoDag /\ dag'[s] # NoDag /\ crashes' = crashes
          /\ g.blocked /\ (~g.cooled \/ g.strikes >= maxBlockCount)
          => dag'[s].blocked /\ dag'[s].nodes = g.nodes /\ dag'[s].strikes = g.strikes]_vars
=============================================================================
