----------------------------- MODULE ReceiptLog -----------------------------
(***************************************************************************)
(* What the receipt subsystem promises its callers, with no process, no    *)
(* database and no failure in it: one append-only chain of governed events *)
(* per run.  An event enters only the chain of its own run, only at the    *)
(* tail and at most once, and a caller is told Ok for a signed receipt     *)
(* only once the event is in its chain.  ReceiptChain implements it.       *)
(***************************************************************************)
EXTENDS Naturals, Sequences

CONSTANTS
    Events,     \* governed events (one StoredAuditEvent each)
    Runs,       \* run ids
    RunOf       \* [Events -> Runs]

ASSUME RunAssumption == RunOf \in [Events -> Runs]

VARIABLES
    chain,      \* [Runs -> Seq(Events)], the chain of each run, oldest first
    acked       \* events whose record() call returned after a signed append

logVars == <<chain, acked>>

-----------------------------------------------------------------------------
InChain(e) == \E i \in 1..Len(chain[RunOf[e]]) : chain[RunOf[e]][i] = e

LogInit ==
    /\ chain = [r \in Runs |-> <<>>]
    /\ acked = {}

\* The receipt of e becomes durable.
LogAppend(e) ==
    /\ ~InChain(e)
    /\ chain' = [chain EXCEPT ![RunOf[e]] = Append(@, e)]
    /\ UNCHANGED acked

\* The caller of record() learns that the receipt of e is durable.
LogAck(e) ==
    /\ InChain(e)
    /\ acked' = acked \cup {e}
    /\ UNCHANGED chain

LogNext == \E e \in Events : LogAppend(e) \/ LogAck(e)

LogSpec == LogInit /\ [][LogNext]_logVars
=============================================================================
