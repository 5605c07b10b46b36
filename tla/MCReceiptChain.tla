--------------------------- MODULE MCReceiptChain ---------------------------
(***************************************************************************)
(* Two replicas, a1 and a2 in one process and b1 in the other, all in one  *)
(* run: the guard serialises the first two, only the primary key stands    *)
(* between them and the third.                                             *)
(***************************************************************************)
EXTENDS ReceiptRead, ReceiptRefinement

CONSTANTS a1, a2, b1, A, B

MCEvents == {a1, a2, b1}
MCReplicas == {A, B}
MCReplicaOf == [e \in MCEvents |-> IF e = b1 THEN B ELSE A]
\* Each process generated its own key: nothing in the code makes them agree.
MCKeyOf == [p \in MCReplicas |-> p]
\* One session of one agent.
SharedAgent == [e \in MCEvents |-> <<"bot">>]
SharedSession == [e \in MCEvents |-> <<"s">>]
\* Agent "x" in session "y:z" and agent "x:y" in session "z", a1 and a2, in one
\* process and so under one key.
ColonAgent == [e \in MCEvents |-> IF e = a2 THEN <<"x", ":", "y">> ELSE <<"x">>]
ColonSession == [e \in MCEvents |-> IF e = a2 THEN <<"z">> ELSE <<"y", ":", "z">>]
=============================================================================
