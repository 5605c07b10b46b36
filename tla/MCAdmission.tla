----------------------------- MODULE MCAdmission -----------------------------
(***************************************************************************)
(* What is admitted before a verdict: the caller's API key, the agent's     *)
(* identity and tokens, the call under the rate limit and the budget, and   *)
(* the plugins that will inspect it.  They share no state, so their         *)
(* interleavings add nothing: `focus` names the one that runs, and a run    *)
(* explores each of them completely.                                       *)
(***************************************************************************)
EXTENDS KeyCache, Identity, RateLimiter, Spend, Plugins, TLC

CONSTANTS k1, k2, i1, i2, c1, c2, a1, a2

VARIABLE focus

Focuses == {"keys", "challenges", "tokens", "limiter", "spend",
            "plugins", "manifests"}
mcVars == <<focus, keyVars, nhiVars, limVars, spendVars, pluginVars>>

\* A component that does not run starts in one of its initial states only.
MCInit ==
    /\ focus \in Focuses
    /\ KeyInit /\ NhiInit /\ LimInit /\ SpendInit /\ PluginInit
    /\ focus # "keys" => ~openMode
    /\ focus \notin {"challenges", "tokens"} => ~fixedSeed
    /\ focus # "spend" => ~overflowChecks

\* Challenges and tokens meet only in the registry of identities.
NhiPart == \/ IdentityStep
           \/ focus = "challenges" /\ ChallengeStep
           \/ focus = "tokens" /\ TokenStep

\* Bundles and manifests meet only in the plugin file.
PluginPart == \/ DeployStep
              \/ focus = "plugins" /\ AttestStep
              \/ focus = "manifests" /\ ManifestStep

MCNext ==
    /\ UNCHANGED focus
    /\ \/ /\ focus = "keys" /\ KeyNext
          /\ UNCHANGED <<nhiVars, limVars, spendVars, pluginVars>>
       \/ /\ focus \in {"challenges", "tokens"} /\ NhiPart
          /\ UNCHANGED <<keyVars, limVars, spendVars, pluginVars>>
       \/ /\ focus = "limiter" /\ LimNext
          /\ UNCHANGED <<keyVars, nhiVars, spendVars, pluginVars>>
       \/ /\ focus = "spend" /\ SpendNext
          /\ UNCHANGED <<keyVars, nhiVars, limVars, pluginVars>>
       \/ /\ focus \in {"plugins", "manifests"} /\ PluginPart
          /\ UNCHANGED <<keyVars, nhiVars, limVars, spendVars>>

MCSpec == MCInit /\ [][MCNext]_mcVars

MCKeyOf == (i1 :> k1) @@ (i2 :> k2)
MCCapLists == {{"read:self"}, {"other"}}

MCDefaultConfig == [burst |-> 1, minute |-> 2, hour |-> 2]
MCConfigs == {MCDefaultConfig, [burst |-> 2, minute |-> 2, hour |-> 3]}

\* A report with its cost, one below zero, one whose cost no u64 holds, one
\* priced by a known rate, one without a price.
MCRates == {[input |-> 1, output |-> 2]}
MCReports ==
    {[usd |-> {2}, rate |-> {}, prompt |-> 0, completion |-> 0],
     [usd |-> {-1}, rate |-> MCRates, prompt |-> 1, completion |-> 0],
     [usd |-> {9}, rate |-> {}, prompt |-> 0, completion |-> 0],
     [usd |-> {}, rate |-> MCRates, prompt |-> 1, completion |-> 0],
     [usd |-> {}, rate |-> {}, prompt |-> 1, completion |-> 1]}

MCSymmetry == Permutations({c1, c2}) \cup Permutations({a1, a2})
=============================================================================
