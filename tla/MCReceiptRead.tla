---------------------------- MODULE MCReceiptRead ----------------------------
(***************************************************************************)
(* The readers of a chain beside its writers: a1 and a2 extend it from one  *)
(* process, b1 from another with another key.  The read API is called at    *)
(* every moment.  The commands of the auditor depend on the table alone,    *)
(* and every table arises without a fault, so they are explored from the    *)
(* states in which every record() call has succeeded or not begun.         *)
(***************************************************************************)
EXTENDS ChainAudit

CONSTANTS a1, a2, b1, A, B

MCEvents == {a1, a2, b1}
MCReplicas == {A, B}
MCReplicaOf == [e \in MCEvents |-> IF e = b1 THEN B ELSE A]
MCKeyOf == [p \in MCReplicas |-> p]
MCReaders == {A}
MCAgent == [e \in MCEvents |-> <<"bot">>]
MCSession == [e \in MCEvents |-> <<"s">>]
MCOtherRuns == {<<"bot", ":", "t">>}

Quiet == /\ \A e \in Events : pc[e] \in {"idle", "done"}
         /\ crashes = 0
         /\ \A p \in Readers : view[p] = NoView

\* A behaviour ends with the first answer after the export.
Asked == report \in {NoReport, [tool |-> "export", exit |-> 0]}

MCNext ==
    \/ /\ report = NoReport /\ file = NoFile
       /\ ReadNext
       /\ UNCHANGED <<file, edits, report>>
    \/ Quiet /\ Asked /\ AuditStep

MCSpec == AuditInit /\ [][MCNext]_auditVars /\ Fairness
=============================================================================
