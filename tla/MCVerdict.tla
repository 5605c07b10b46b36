----------------------------- MODULE MCVerdict -----------------------------
(***************************************************************************)
(* The merge of all layers, and the language that policies of one of them   *)
(* are written in.  They share no state: `focus` names the one that runs,   *)
(* and a run explores each of those in Focuses completely.                 *)
(***************************************************************************)
EXTENDS Verdict, Dictum

CONSTANTS p1, p2, Focuses

VARIABLE focus

mcVars == <<focus, vars, dictumVars>>

MCInit ==
    /\ focus \in Focuses
    /\ Init /\ DictumInit
    /\ focus = "dictum" => thresholds = [block |-> 70, review |-> 35]

\* Of the instance: the author begins another program.
StartOver == draft # <<>> /\ draft' = <<>>

MCNext ==
    /\ UNCHANGED focus
    /\ \/ focus = "verdict" /\ Next /\ UNCHANGED dictumVars
       \/ focus = "dictum" /\ (DictumNext \/ StartOver) /\ UNCHANGED vars

MCSpec == MCInit /\ [][MCNext]_mcVars

-----------------------------------------------------------------------------
(* The merge: every composite, the default thresholds, two templates' and   *)
(* the ones nothing validates: equal, swapped, zero and above 100.         *)

T(block, review) == [block |-> block, review |-> review]
MCThresholds == {T(70, 35), T(40, 20), T(100, 0), T(50, 50), T(35, 70), T(120, 110), T(0, 0)}
MCDefaults == {T(70, 35)}
MCComposites == 0..100
MCPlugins == {p1, p2}
MCPluginScores == {0, 35, 70}

-----------------------------------------------------------------------------
(* Dictum: literals, a path that resolves, one into the payload, and one    *)
(* below a scalar; two requests, with and without a budget.                *)

MCLeaves ==
    {<<"lit", v, <<>>>> : v \in {<<"Bool", TRUE>>, <<"Int", 1>>, <<"Str", <<1, 2>>>>}}
    \cup {<<"path", segs, <<>>>> : segs \in
             {<<"risk", "score">>, <<"action", "payload", "d">>, <<"risk", "score", "x">>}}
Inspected(payload, list, risk, spent) ==
    [payload |-> Obj([d |-> payload]), allowlist |-> list, score |-> risk,
     ml |-> {}, spent |-> spent, limit |-> spent]
MCRequests ==
    {Inspected(<<"Str", <<1, Secret>>>>, <<<<"Str", <<1>>>>>>, 1, {}),
     Inspected(<<"List", <<<<"Int", 1>>, Obj([key |-> <<"Float", 3>>])>>>>, <<>>, 0, {3})}
=============================================================================
