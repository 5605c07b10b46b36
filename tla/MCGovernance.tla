---------------------------- MODULE MCGovernance ----------------------------
(***************************************************************************)
(* One request and two admins who resolve its review in opposite ways.     *)
(***************************************************************************)
EXTENDS Governance

CONSTANTS r1, s1, s2

MCRequests == {r1}
MCResolvers == {s1, s2}
MCEvents == MCRequests \cup MCResolvers
\* Resolutions carry no session: each is a run of its own.
MCRuns == {"session", s1, s2}
MCRunOf == [e \in MCEvents |-> IF e \in MCRequests THEN "session" ELSE e]
MCTargetOf == [s \in MCResolvers |-> r1]
MCStatusOf == [s \in MCResolvers |-> IF s = s1 THEN "approved" ELSE "rejected"]
=============================================================================
