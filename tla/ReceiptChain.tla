---------------------------- MODULE ReceiptChain ----------------------------
(***************************************************************************)
(* SignedReceiptLogger::record over the SQL receipt store, with every      *)
(* replica that shares the database.                                       *)
(*                                                                         *)
(* One record() call is a task that takes its replica's append_guard, then *)
(* up to MaxAttempts times: reads the head of its run, builds and signs    *)
(* the receipt that extends it, and calls store.append, which reads the    *)
(* head again, checks the link and INSERTs in autocommit: three statements *)
(* and no transaction.  PRIMARY KEY(run_id, seq) is the only guard between *)
(* replicas.  A statement that fails, a caller that disconnects (axum      *)
(* drops the handler's future) and a crash all leave an INSERT on the wire *)
(* that the database may still execute, or lose, later.                    *)
(***************************************************************************)
EXTENDS Naturals, Sequences

CONSTANTS
    Events,         \* the events that are recorded, also their event_id
    Replicas,       \* server processes that share one database
    ReplicaOf,      \* [Events -> Replicas]: the process that governs the event
    Agent,          \* [Events -> Seq(token)]: agent_id, as a text of tokens
    Session,        \* [Events -> Seq(token)]: metadata.sessionId, <<>> if absent or empty
    KeyOf,          \* [Replicas -> key]: the signing key each process loaded
    MaxAttempts,    \* MAX_ATTEMPTS of record(): 5 in the code
    MaxCrashes,     \* bound: process crashes in one behaviour
    NoParent,       \* parent_hash = None
    NoReceipt,      \* no receipt built yet
    Free            \* append_guard not held

ASSUME ReplicaAssumption == ReplicaOf \in [Events -> Replicas]
ASSUME AttemptsAssumption == MaxAttempts \in Nat \ {0} /\ MaxCrashes \in Nat
ASSUME FreeAssumption == Free \notin Events

VARIABLES
    rows,       \* the receipts table: a set of receipts
    wire,       \* events whose INSERT was sent and not yet executed or lost
    pc,         \* [Events -> Phases]
    attempt,    \* [Events -> Nat]: appends this task lost to another writer
    built,      \* [Events -> receipt]: the receipt of the current attempt
    guard,      \* [Replicas -> Events \cup {Free}]: append_guard
    dropped,    \* [Replicas -> [Runs -> Nat]]: dropped_runs, in memory
    crashes     \* crashes so far

vars == <<rows, wire, pc, attempt, built, guard, dropped, crashes>>

-----------------------------------------------------------------------------
\* run_id(): "agent:session", or the event id when there is no session.  The
\* texts are concatenated, so the separator is one more token among the others.
RunId(e) ==
    IF Session[e] = <<>> THEN <<e>> ELSE Agent[e] \o <<":">> \o Session[e]

Runs == {RunId(e) : e \in Events}

\* SHA-256 of the canonical signing bytes, taken to be injective.
BodyHash(r) == [sha256 |-> r]

\* ORDER BY seq DESC LIMIT 1: h is the head of a run that has rows.
IsHead(h, run) ==
    /\ h \in rows
    /\ h.run = run
    /\ \A r \in rows : r.run = run => r.seq <= h.seq

EmptyRun(run) == \A r \in rows : r.run # run

\* chain_link() on the head, put in the body that event e would sign.  The
\* event stands for every field copied from it; key stands for signer_key_id
\* and for the signature, which sign() makes with that key only.
Extend(e, h) ==
    [run |-> RunId(e), seq |-> h.seq + 1, parent |-> BodyHash(h),
     event |-> e, key |-> KeyOf[ReplicaOf[e]]]

Genesis(e) ==
    [run |-> RunId(e), seq |-> 0, parent |-> NoParent,
     event |-> e, key |-> KeyOf[ReplicaOf[e]]]

\* check_append_link() against the head h, or against an empty run.
LinksHead(r, h) == r.seq = h.seq + 1 /\ r.parent = BodyHash(h)
LinksEmpty(r) == r.seq = 0 /\ r.parent = NoParent

\* Mutant: the primary key is missing from the table.
NoPrimaryKey(r) == FALSE

\* PRIMARY KEY(run_id, seq).
KeyTaken(r) == \E q \in rows : q.run = r.run /\ q.seq = r.seq

-----------------------------------------------------------------------------
\* The task holds append_guard in these phases.
Holding == {"head", "append", "insert", "committed", "backoff"}
Running == Holding \cup {"wait"}
\* done: Ok after a signed append.  lost: counted in dropped_runs.  gone: the
\* task was cancelled or its process died, nothing in memory remembers it.
Ended == {"done", "lost", "gone"}
Phases == {"idle"} \cup Running \cup Ended

Goto(e, phase) == pc' = [pc EXCEPT ![e] = phase]
Release(e) == guard' = [guard EXCEPT ![ReplicaOf[e]] = Free]

Init ==
    /\ rows = {}
    /\ wire = {}
    /\ pc = [e \in Events |-> "idle"]
    /\ attempt = [e \in Events |-> 0]
    /\ built = [e \in Events |-> NoReceipt]
    /\ guard = [p \in Replicas |-> Free]
    /\ dropped = [p \in Replicas |-> [r \in Runs |-> 0]]
    /\ crashes = 0

\* record() is called.
Record(e) ==
    /\ pc[e] = "idle"
    /\ Goto(e, "wait")
    /\ UNCHANGED <<rows, wire, attempt, built, guard, dropped, crashes>>

\* Mutant: record() takes no lock.
LockIgnored(e) ==
    /\ pc[e] = "wait"
    /\ guard' = [guard EXCEPT ![ReplicaOf[e]] = e]
    /\ Goto(e, "head")
    /\ UNCHANGED <<rows, wire, attempt, built, dropped, crashes>>

\* append_guard.lock().await
Lock(e) ==
    /\ pc[e] = "wait"
    /\ guard[ReplicaOf[e]] = Free
    /\ guard' = [guard EXCEPT ![ReplicaOf[e]] = e]
    /\ Goto(e, "head")
    /\ UNCHANGED <<rows, wire, attempt, built, dropped, crashes>>

\* store.head(), chain_link(), the body and its signature.
BuildReceipt(e) ==
    /\ pc[e] = "head"
    /\ \/ /\ EmptyRun(RunId(e))
          /\ built' = [built EXCEPT ![e] = Genesis(e)]
       \/ \E h \in rows :
            /\ IsHead(h, RunId(e))
            /\ built' = [built EXCEPT ![e] = Extend(e, h)]
    /\ Goto(e, "append")
    /\ UNCHANGED <<rows, wire, attempt, guard, dropped, crashes>>

LinkOk(e) ==
    \/ EmptyRun(RunId(e)) /\ LinksEmpty(built[e])
    \/ \E h \in rows : IsHead(h, RunId(e)) /\ LinksHead(built[e], h)

\* store.append() up to the INSERT: the second head read and check_append_link.
SendInsert(e) ==
    /\ pc[e] = "append"
    /\ LinkOk(e)
    /\ wire' = wire \cup {e}
    /\ Goto(e, "insert")
    /\ UNCHANGED <<rows, attempt, built, guard, dropped, crashes>>

\* check_append_link refuses: ChainViolation.
ChainViolation(e) ==
    /\ pc[e] = "append"
    /\ ~LinkOk(e)
    /\ Goto(e, "backoff")
    /\ UNCHANGED <<rows, wire, attempt, built, guard, dropped, crashes>>

\* The database executes the INSERT, whether or not the task still waits for it.
ExecInsert(e) ==
    /\ e \in wire
    /\ ~KeyTaken(built[e])
    /\ rows' = rows \cup {built[e]}
    /\ wire' = wire \ {e}
    /\ pc' = [pc EXCEPT ![e] = IF @ = "insert" THEN "committed" ELSE @]
    /\ UNCHANGED <<attempt, built, guard, dropped, crashes>>

\* Mutant: a unique violation is taken for "already stored".
DuplicateIsOk(e) ==
    /\ e \in wire
    /\ KeyTaken(built[e])
    /\ wire' = wire \ {e}
    /\ pc' = [pc EXCEPT ![e] = IF @ = "insert" THEN "committed" ELSE @]
    /\ UNCHANGED <<rows, attempt, built, guard, dropped, crashes>>

\* The primary key refuses the INSERT: DuplicateSeq, if the task still waits.
DuplicateSeq(e) ==
    /\ e \in wire
    /\ KeyTaken(built[e])
    /\ wire' = wire \ {e}
    /\ pc' = [pc EXCEPT ![e] = IF @ = "insert" THEN "backoff" ELSE @]
    /\ UNCHANGED <<rows, attempt, built, guard, dropped, crashes>>

\* A statement nobody waits for any more never reaches the database.
LoseInsert(e) ==
    /\ e \in wire
    /\ pc[e] # "insert"
    /\ wire' = wire \ {e}
    /\ UNCHANGED <<rows, pc, attempt, built, guard, dropped, crashes>>

\* append() returned Ok: record() returns and the guard is released.
Return(e) ==
    /\ pc[e] = "committed"
    /\ Goto(e, "done")
    /\ Release(e)
    /\ UNCHANGED <<rows, wire, attempt, built, dropped, crashes>>

\* Mutant: the guard leaks on the drop path.
DropKeepsGuard(e) ==
    /\ dropped' = [dropped EXCEPT ![ReplicaOf[e]][RunId(e)] = @ + 1]
    /\ Goto(e, "lost")
    /\ UNCHANGED guard

\* Mutant: the drop is logged and not counted.
DropUncounted(e) ==
    /\ Goto(e, "lost")
    /\ Release(e)
    /\ UNCHANGED dropped

\* The code after the loop: count the drop for the run, release the guard.
Drop(e) ==
    /\ dropped' = [dropped EXCEPT ![ReplicaOf[e]][RunId(e)] = @ + 1]
    /\ Goto(e, "lost")
    /\ Release(e)

\* The sleep after a lost race ends: the next attempt, or the drop after the last.
Retry(e) ==
    /\ pc[e] = "backoff"
    /\ attempt' = [attempt EXCEPT ![e] = @ + 1]
    /\ IF attempt[e] + 1 < MaxAttempts
         THEN Goto(e, "head") /\ UNCHANGED <<guard, dropped>>
         ELSE Drop(e)
    /\ UNCHANGED <<rows, wire, built, crashes>>

\* Mutant: every error is retried, not only a lost race.
RetryAnyError(e) ==
    /\ pc[e] \in Holding \ {"backoff"}
    /\ Goto(e, "backoff")
    /\ UNCHANGED <<rows, wire, attempt, built, guard, dropped, crashes>>

\* Any other error of head(), of signing or of append() ends the loop.  When the
\* INSERT was sent, the error says nothing of whether it committed or will.
TerminalError(e) ==
    /\ pc[e] \in Holding \ {"backoff"}
    /\ Drop(e)
    /\ UNCHANGED <<rows, wire, attempt, built, crashes>>

\* The caller disconnects: the future is dropped at an await point.
Cancel(e) ==
    /\ pc[e] \in Running
    /\ Goto(e, "gone")
    /\ IF pc[e] \in Holding THEN Release(e) ELSE UNCHANGED guard
    /\ UNCHANGED <<rows, wire, attempt, built, dropped, crashes>>

\* Process p dies and restarts: its memory is lost, the table is not.
Crash(p) ==
    /\ crashes < MaxCrashes
    /\ crashes' = crashes + 1
    /\ pc' = [e \in Events |->
                IF ReplicaOf[e] = p /\ pc[e] \in Running \cup {"lost"}
                  THEN "gone" ELSE pc[e]]
    /\ guard' = [guard EXCEPT ![p] = Free]
    /\ dropped' = [dropped EXCEPT ![p] = [r \in Runs |-> 0]]
    /\ UNCHANGED <<rows, wire, attempt, built>>

Step(e) ==
    \/ Lock(e) \/ BuildReceipt(e) \/ SendInsert(e) \/ ChainViolation(e)
    \/ ExecInsert(e) \/ DuplicateSeq(e) \/ Return(e) \/ Retry(e)

TaskNext(e) ==
    Record(e) \/ Step(e) \/ LoseInsert(e) \/ TerminalError(e) \/ Cancel(e)

Next == (\E e \in Events : TaskNext(e)) \/ (\E p \in Replicas : Crash(p))

Spec == Init /\ [][Next]_vars

\* The executor polls every task, the database answers every statement that
\* somebody waits for, the sleep of a lost race ends and tokio's mutex is FIFO.
\* No caller has to call, and nothing has to fail.
Fairness == \A e \in Events : WF_vars(pc[e] \in Running /\ Step(e))

FairSpec == Spec /\ Fairness

-----------------------------------------------------------------------------
TypeOK ==
    /\ \A r \in rows : r.run \in Runs /\ r.seq \in Nat /\ r.event \in Events
    /\ wire \subseteq Events
    /\ pc \in [Events -> Phases]
    /\ attempt \in [Events -> 0..MaxAttempts]
    /\ DOMAIN built = Events
    /\ guard \in [Replicas -> Events \cup {Free}]
    /\ dropped \in [Replicas -> [Runs -> Nat]]
    /\ crashes \in 0..MaxCrashes

\* verify_chain() on every run at every moment: the seqs of a run are 0..n-1,
\* each held by one receipt, and each receipt carries the hash of the one below.
\* The store checks the link and inserts in two statements, so this rests on
\* the primary key and on rows never changing.
ChainIntact ==
    \A r \in rows :
        /\ \A q \in rows : (q.run = r.run /\ q.seq = r.seq) => q = r
        /\ \A k \in 0..r.seq : \E q \in rows : q.run = r.run /\ q.seq = k
        /\ \/ LinksEmpty(r)
           \/ \E q \in rows : q.run = r.run /\ LinksHead(r, q)

\* An event has at most one receipt, in the chain of its own run, although the
\* loop retries and although an append that reported an error may have
\* committed or may still commit.
AtMostOnce ==
    \A r \in rows :
        /\ r.run = RunId(r.event)
        /\ \A q \in rows : q.event = r.event => q = r

\* record() returns Ok out of the loop only for an event whose receipt is in
\* the table: neither a lost race nor an unanswered INSERT counts as success.
AckedIsDurable ==
    \A e \in Events : pc[e] = "done" => \E r \in rows : r.event = e

\* An attempt is lost only to a receipt that really extended the run, one per
\* lost attempt, and one that append_guard could not have kept out: its writer
\* runs in another process, or no longer runs while its INSERT was on the wire.
RetryBlame ==
    \A e \in Events : attempt[e] > 0 =>
        \E q \in rows :
            /\ q.run = RunId(e)
            /\ q.event # e
            /\ q.seq + 1 >= attempt[e]
            /\ \/ ReplicaOf[q.event] # ReplicaOf[e]
               \/ pc[q.event] \in {"lost", "gone"}

\* Every receipt enters at the tail of its run and none is ever rewritten,
\* even when the INSERT executes long after its link was checked.
TailOnly ==
    [][/\ rows \subseteq rows'
       /\ \A r \in rows' \ rows, q \in rows : q.run = r.run => q.seq < r.seq]_vars

\* A record() call that started ends: it returns, or its task is gone.  No task
\* waits for ever on append_guard, whatever ended the task that held it.
RecordEnds == \A e \in Events : pc[e] = "wait" ~> pc[e] \in Ended
=============================================================================
