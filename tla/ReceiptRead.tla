----------------------------- MODULE ReceiptRead -----------------------------
(***************************************************************************)
(* GET /v1/receipts/{run_id} (get_run_json) beside the writers of          *)
(* ReceiptChain.  The reply is put together from three reads that nothing  *)
(* holds together: the receipts (get_run), the verification of the run,    *)
(* which selects the rows again (store.verify_chain), and this process's   *)
(* dropped_runs counter.                                                   *)
(***************************************************************************)
EXTENDS ReceiptChain, FiniteSets, SequencesExt

CONSTANTS
    Readers,    \* the replicas whose read API is called
    NoView      \* no read under way and none answered yet

ASSUME ReaderAssumption == Readers \subseteq Replicas

VARIABLE view   \* [Readers -> the reply being built, or the last one]

readVars == <<vars, view>>

-----------------------------------------------------------------------------
RowsOf(run) == {r \in rows : r.run = run}

\* get_run(): the rows of a run, ORDER BY seq ASC: the i-th has i - 1 below it.
GetRun(run) ==
    [i \in 1..Cardinality(RowsOf(run)) |->
        CHOOSE r \in RowsOf(run) :
            Cardinality({q \in RowsOf(run) : q.seq < r.seq}) = i - 1]

\* Mutant: the verifier starts at the second receipt.
VerifyFromSecond(s, signed) ==
    IF s = <<>> THEN [status |-> "empty"] ELSE
    LET broken == {i \in 2..Len(s) :
            \/ s[i].run # s[1].run
            \/ s[i].seq # i - 1
            \/ s[i].parent # BodyHash(s[i - 1])
            \/ i \notin signed}
    IN  IF broken = {} THEN [status |-> "valid", count |-> Len(s)]
                       ELSE [status |-> "broken", at |-> Min(broken)]

\* verify_chain() on the bodies s, of which those numbered in `signed` have a
\* good signature: the first receipt that is out of place, does not carry the
\* hash of its predecessor or is badly signed breaks the chain.
VerifyLinks(s, signed) ==
    IF s = <<>> THEN [status |-> "empty"] ELSE
    LET broken == {i \in 1..Len(s) :
            \/ s[i].run # s[1].run
            \/ s[i].seq # i - 1
            \/ s[i].parent # IF i = 1 THEN NoParent ELSE BodyHash(s[i - 1])
            \/ i \notin signed}
    IN  IF broken = {} THEN [status |-> "valid", count |-> Len(s)]
                       ELSE [status |-> "broken", at |-> Min(broken)]

\* ReceiptStore::verify_chain: the rows of a run against the key the process
\* loaded; UnknownRun for a run with no rows.
VerifyChain(s, vk) ==
    IF s = <<>> THEN [status |-> "error"]
                ELSE VerifyLinks(s, {i \in 1..Len(s) : s[i].key = vk})

-----------------------------------------------------------------------------
\* The first read; when it fails the reply is an error and holds nothing else,
\* which is left out.  ended records, for the properties only, which events of the
\* run this process had finished, and counted if lost, when the read began.
ReadRun(p, run) ==
    /\ view[p] = NoView
    /\ view' = [view EXCEPT ![p] =
            [run |-> run, receipts |-> GetRun(run),
             ended |-> {e \in Events : /\ ReplicaOf[e] = p
                                       /\ RunId(e) = run
                                       /\ pc[e] \in {"done", "lost"}}]]
    /\ UNCHANGED vars

\* The second read, which may fail where the first did not, and the counter.
ReadVerify(p) ==
    /\ view[p] # NoView
    /\ "verify" \notin DOMAIN view[p]
    /\ \E verify \in {VerifyChain(GetRun(view[p].run), KeyOf[p]), [status |-> "unread"]} :
         view' = [view EXCEPT ![p] =
            [run |-> @.run, receipts |-> @.receipts, ended |-> @.ended,
             verify |-> verify, droppedReceipts |-> dropped[p][@.run]]]
    /\ UNCHANGED vars

\* A crash also ends the reads of its process.
ReadCrash(p) ==
    /\ Crash(p)
    /\ view' = [q \in Readers |-> IF q = p THEN NoView ELSE view[q]]

ReadInit == Init /\ view = [p \in Readers |-> NoView]

ReadNext ==
    \/ (\E e \in Events : TaskNext(e)) /\ UNCHANGED view
    \/ \E p \in Replicas : ReadCrash(p)
    \/ \E p \in Readers, run \in Runs : ReadRun(p, run)
    \/ \E p \in Readers : ReadVerify(p)

ReadSpec == ReadInit /\ [][ReadNext]_readVars /\ Fairness

-----------------------------------------------------------------------------
Replied(p) == view[p] # NoView /\ "verify" \in DOMAIN view[p]

\* The three reads of one reply agree although writers commit between them:
\* "valid" covers every receipt of the reply, "broken" means that a receipt of
\* the run was signed with another process's key and nothing else, and the
\* unknown-run error never comes with receipts.  A failed second read says so.
ReplyCoherent ==
    \A p \in Readers : Replied(p) =>
        LET v == view[p] IN
        \/ /\ v.verify.status = "valid"
           /\ v.verify.count >= Len(v.receipts)
           /\ \A i \in 1..Len(v.receipts) : v.receipts[i].key = KeyOf[p]
        \/ /\ v.verify.status = "broken"
           /\ \E r \in rows : r.run = v.run /\ r.key # KeyOf[p]
        \/ v.verify.status = "error" /\ v.receipts = <<>>
        \/ v.verify.status = "unread"

\* An event that this process governed and finished before the read either has
\* its receipt in the reply or the reply says that the run dropped receipts
\* (issue #23): no gap between audit trail and chain goes unexplained.
GapFlagged ==
    \A p \in Readers : Replied(p) =>
        \A e \in view[p].ended :
            \/ view[p].droppedReceipts > 0
            \/ \E i \in 1..Len(view[p].receipts) : view[p].receipts[i].event = e

\* "two principals ... can't interleave into one chain that `verify_chain` would
\* report Valid" (receipts.rs:269-275): the receipts of a run that a process
\* verifies as valid all come from one agent.
PrincipalBound ==
    \A run \in Runs, p \in Replicas :
        VerifyChain(GetRun(run), KeyOf[p]).status = "valid" =>
            \A r, q \in RowsOf(run) : Agent[r.event] = Agent[q.event]
=============================================================================
