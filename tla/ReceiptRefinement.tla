------------------------- MODULE ReceiptRefinement -------------------------
(***************************************************************************)
(* ReceiptChain as an implementation of ReceiptLog: the chain of a run is  *)
(* the events of its rows by seq, and a caller knows of its receipt once   *)
(* its record() call has returned out of the append loop.                  *)
(***************************************************************************)
EXTENDS ReceiptChain, FiniteSets

Height(run) == Cardinality({r \in rows : r.run = run})

ChainOf(run) ==
    [i \in 1..Height(run) |->
        (CHOOSE r \in rows : r.run = run /\ r.seq = i - 1).event]

Log == INSTANCE ReceiptLog WITH
    RunOf <- [e \in Events |-> RunId(e)],
    chain <- [r \in Runs |-> ChainOf(r)],
    acked <- {e \in Events : pc[e] = "done"}

\* The replicated, failing logger implements the one-chain-per-run log: an
\* event enters its chain once, at the tail, before its caller hears Ok.
ImplementsLog == Log!LogSpec
=============================================================================
