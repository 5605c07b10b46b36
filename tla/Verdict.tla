------------------------------ MODULE Verdict ------------------------------
(***************************************************************************)
(* How execute_pipeline turns the signals of its layers into one decision. *)
(*                                                                         *)
(* The layers are merged one after the other into minimum_decision, some   *)
(* by assignment and some only "unless it is already Block"; a workspace   *)
(* rule may also lower it.  score_tool_risk_with_thresholds then computes  *)
(* a score, bends it to the minimum and takes the stricter of the minimum  *)
(* and the score's band.  The Dictum overlay and the session budget come   *)
(* last.  One action per merge, in the code's order; every signal a layer  *)
(* can give is chosen freely, and the composite is any value in 0..100.    *)
(***************************************************************************)
EXTENDS Naturals, Sequences

CONSTANTS
    Thresholds,     \* workspace policies: records [block, review], not validated
    Composites,     \* weighted sums of the layer scores, rounded and capped
    Plugins,        \* the WASM plugins that may be loaded
    PluginScores,   \* risk_score of a plugin's output
    MaxPolicies,    \* bound: length of the Dictum program
    NoTool,         \* the tool is not registered in the workspace
    Faulted,         \* a plugin returned an error
    Unloaded        \* a plugin is not loaded

ASSUME ScoreAssumption ==
    /\ Composites \subseteq 0..100 /\ PluginScores \subseteq Nat /\ MaxPolicies \in Nat
    /\ \A t \in Thresholds : t.block \in Nat /\ t.review \in Nat

ASSUME PluginAssumption ==
    /\ Faulted # Unloaded
    /\ Faulted \notin [hint : 0..2, score : PluginScores]
    /\ Unloaded \notin [hint : 0..2, score : PluginScores]

VARIABLES
    stage,          \* the next merge
    thresholds,     \* of the request's workspace
    minimum,        \* minimum_decision
    raw,            \* the composite
    score,          \* risk.score
    decision,       \* decision
    demand,         \* the strictest thing a layer asked for (for the properties)
    pluginFailed    \* some plugin returned an error (for the properties)

vars == <<stage, thresholds, minimum, raw, score, decision, demand, pluginFailed>>

\* GovernanceDecision is Ord: Allow < Review < Block.
Allow == 0
Review == 1
Block == 2
Decisions == {Allow, Review, Block}

Stricter(a, b) == IF a >= b THEN a ELSE b

\* `if minimum_decision != Block { minimum_decision = Review }`
ToReview(m) == IF m # Block THEN Review ELSE m

\* The thresholds, for the composite and for a plugin's own score.
Band(s) ==
    IF s >= thresholds.block THEN Block
    ELSE IF s >= thresholds.review THEN Review ELSE Allow

Init ==
    /\ stage = "policy"
    /\ thresholds \in Thresholds
    /\ minimum = Allow /\ decision = Allow /\ demand = Allow
    /\ raw = 0 /\ score = 0
    /\ pluginFailed = FALSE

\* A layer whose merge leaves minimum_decision at m and that asked for d.
Merge(from, to, m, d) ==
    /\ stage = from
    /\ stage' = to
    /\ minimum' = m
    /\ demand' = Stricter(demand, d)
    /\ UNCHANGED <<thresholds, raw, score, decision>>

-----------------------------------------------------------------------------
\* What evaluate_policy looks at.  tool is the tool's entry.
ToolPolicies == [action : BOOLEAN, human : BOOLEAN, max : Decisions]
PolicyFacts ==
    [protocol : BOOLEAN, tool : ToolPolicies \cup {NoTool}, approved : BOOLEAN,
     baseline : BOOLEAN, hosts : {"allowed", "outside", "hidden"}, undeclared : BOOLEAN]

\* The checks of evaluate_policy in its order.
PolicyFloor(f) ==
    LET m1 == IF f.protocol THEN Allow ELSE Block
        m2 == IF f.tool = NoTool \/ ~f.tool.action THEN Block ELSE m1
        m3 == IF f.tool # NoTool /\ f.tool.human THEN ToReview(m2) ELSE m2
        m4 == IF f.tool # NoTool /\ f.tool.max > m3 THEN f.tool.max ELSE m3
        m5 == IF f.approved THEN m4 ELSE Block
        m6 == IF ~f.baseline /\ m5 = Allow THEN Review ELSE m5
        m7 == IF f.hosts = "allowed" THEN m6 ELSE Block
    IN  IF f.undeclared /\ m7 = Allow THEN Review ELSE m7

\* What the workspace's policy asks for, check by check.
PolicyAsks(f) ==
    IF \/ ~f.protocol \/ ~f.approved \/ f.hosts # "allowed"
       \/ f.tool = NoTool \/ ~f.tool.action \/ f.tool.max = Block
      THEN Block
    ELSE IF ~f.baseline \/ f.undeclared \/ f.tool.human \/ f.tool.max = Review
      THEN Review
    ELSE Allow

EvaluatePolicy ==
    /\ \E f \in PolicyFacts : Merge("policy", "rule", PolicyFloor(f), PolicyAsks(f))
    /\ UNCHANGED pluginFailed

\* The match on the workspace rule's decision.
RuleFloor(m, rule) ==
    CASE rule = Block -> Block
      [] rule = Review -> ToReview(m)
      [] rule = Allow -> IF m = Review THEN Allow ELSE m

\* An Allow rule waives a Review the policy asked for, and nothing else.
ApplyRule ==
    /\ stage = "rule"
    /\ stage' = "firewall"
    /\ \/ UNCHANGED <<minimum, demand>>
       \/ \E rule \in Decisions :
            /\ minimum' = RuleFloor(minimum, rule)
            /\ demand' = IF rule = Allow /\ demand = Review THEN Allow ELSE Stricter(demand, rule)
    /\ UNCHANGED <<thresholds, raw, score, decision, pluginFailed>>

Firewall ==
    /\ \/ Merge("firewall", "threat", Block, Block)
       \/ Merge("firewall", "threat", minimum, Allow)
    /\ UNCHANGED pluginFailed

\* severities: those of the matched indicators.
ThreatIntel ==
    /\ \E severities \in SUBSET {"critical", "high", "medium"} :
         CASE "critical" \in severities -> Merge("threat", "taint", Block, Block)
           [] "critical" \notin severities /\ "high" \in severities ->
                Merge("threat", "taint", ToReview(minimum), Review)
           [] OTHER -> Merge("threat", "taint", minimum, Allow)
    /\ UNCHANGED pluginFailed

Taint ==
    /\ \/ Merge("taint", "plugins", Block, Block)
       \/ Merge("taint", "plugins", minimum, Allow)
    /\ UNCHANGED pluginFailed

-----------------------------------------------------------------------------
\* PluginRegistry::evaluate: what a plugin answers, its hint as a decision.
Outputs == [hint : Decisions, score : PluginScores]
Answers == Outputs \cup {Faulted, Unloaded}

\* The plugin branch: hints and the highest score of the outputs; the errors
\* only when there is no output.
PluginFloor(m, answers) ==
    LET outputs == {answers[p] : p \in Plugins} \ {Faulted, Unloaded}
        hinted == IF \E o \in outputs : o.hint = Block THEN Block
                  ELSE IF \E o \in outputs : o.hint = Review THEN ToReview(m) ELSE m
    IN  IF outputs # {}
          THEN IF \E o \in outputs : o.score >= thresholds.block THEN Block
               ELSE IF \E o \in outputs : o.score >= thresholds.review THEN ToReview(hinted)
               ELSE hinted
          ELSE IF \E p \in Plugins : answers[p] = Faulted THEN ToReview(m) ELSE m

\* What one plugin asks for; one that failed asks only if none answered.
Asks(answer, answers) ==
    IF answer \in Outputs
      THEN Stricter(answer.hint, Band(answer.score))
      ELSE IF answer = Faulted /\ \A p \in Plugins : answers[p] \notin Outputs
             THEN Review ELSE Allow

\* d is the strictest of what the plugins ask for, Allow if none is loaded.
PluginsAsk(answers, d) ==
    /\ \A p \in Plugins : Asks(answers[p], answers) <= d
    /\ d = Allow \/ \E p \in Plugins : Asks(answers[p], answers) = d

ConsultPlugins ==
    \E answers \in [Plugins -> Answers] :
        /\ \E d \in Decisions : PluginsAsk(answers, d)
                /\ Merge("plugins", "session", PluginFloor(minimum, answers), d)
        /\ pluginFailed' = (\E p \in Plugins : answers[p] = Faulted)

\* odd: an attack signature matched or anomaly_score >= 50.
SessionGraph ==
    /\ \E odd, allowed \in BOOLEAN :
         Merge("session", "adaptive",
               IF ~allowed THEN Block ELSE IF odd THEN ToReview(minimum) ELSE minimum,
               IF ~allowed THEN Block ELSE IF odd THEN Review ELSE Allow)
    /\ UNCHANGED pluginFailed

Adaptive ==
    /\ \/ Merge("adaptive", "secrets", Block, Block)
       \/ Merge("adaptive", "secrets", ToReview(minimum), Review)
       \/ Merge("adaptive", "secrets", minimum, Allow)
    /\ UNCHANGED pluginFailed

\* A denied secret, then an invalid schema.
SecretsAndSchema ==
    /\ \E denied, valid \in BOOLEAN :
         IF denied \/ ~valid THEN Merge("secrets", "score", Block, Block)
                             ELSE Merge("secrets", "score", minimum, Allow)
    /\ UNCHANGED pluginFailed

-----------------------------------------------------------------------------
SaturatingSub(a, b) == IF a > b THEN a - b ELSE 0

\* The floor plus the composite's share of the headroom above it.
Bend(s, floor, headroom) ==
    LET share == (s * headroom) \div 100
    IN  floor + IF share < headroom THEN share ELSE headroom

Capped(s) == IF s < 100 THEN s ELSE 100

\* Mutant: a Review is lifted to the Block threshold.
AdjustReviewAsBlock(s, m) ==
    IF m # Allow /\ s < thresholds.block
      THEN Capped(Bend(s, thresholds.block, SaturatingSub(100, thresholds.block)))
    ELSE s

\* Mutant: the composite is the score.
AdjustNothing(s, m) == s

\* The decision-aware adjustment and the cap at 100.
Adjust(s, m) ==
    IF m = Block /\ s < thresholds.block
      THEN Capped(Bend(s, thresholds.block, SaturatingSub(100, thresholds.block)))
    ELSE IF m = Review /\ s < thresholds.review
      THEN Capped(Bend(s, thresholds.review, SaturatingSub(thresholds.block, thresholds.review)))
    ELSE s

\* score_tool_risk_with_thresholds
ScoreToolRisk ==
    /\ stage = "score"
    /\ stage' = "dictum"
    /\ raw' \in Composites
    /\ score' = Adjust(raw', minimum)
    /\ decision' = Stricter(minimum, Band(score'))
    /\ UNCHANGED <<thresholds, minimum, demand, pluginFailed>>

-----------------------------------------------------------------------------
\* A compiled Dictum policy and what its `when` evaluates to on this request.
DictumPolicies == [verdict : Decisions, when : {"true", "false", "error"}]

\* Mutant: a policy whose `when` errors does not fire.
FiresOnTrue(p) == p.when = "true"

\* evaluate_program_traced: a truthy `when` fires, an error fires the policies
\* that could tighten.
Fires(p) == p.when = "true" \/ (p.when = "error" /\ p.verdict # Allow)

\* The overlay fires v: the verdict of the first policy that fires.
FirstFired(program, v) ==
    \E i \in 1..Len(program) :
        /\ Fires(program[i]) /\ v = program[i].verdict
        /\ \A j \in 1..(i - 1) : ~Fires(program[j])

\* What an operator relies on: the first policy that is not silent holds the
\* action to its verdict, and only one that says no, or that cannot be evaluated
\* and could at most allow, is silent.
Silent(p) == p.when = "false" \/ (p.when = "error" /\ p.verdict = Allow)
DictumHolds(program, v) ==
    \E i \in 1..Len(program) :
        /\ ~Silent(program[i]) /\ program[i].verdict = v
        /\ \A j \in 1..(i - 1) : Silent(program[j])

\* overlay.evaluate and merge_decisions.  The empty program also stands for a
\* host without an overlay.
Dictum ==
    /\ stage = "dictum"
    /\ stage' = "budget"
    /\ \E n \in 0..MaxPolicies : \E program \in [1..n -> DictumPolicies] :
         /\ \/ \E v \in Decisions : FirstFired(program, v) /\ decision' = Stricter(decision, v)
            \/ (\A i \in 1..n : ~Fires(program[i])) /\ UNCHANGED decision
         /\ \/ \E v \in Decisions : DictumHolds(program, v) /\ demand' = Stricter(demand, v)
            \/ (\A v \in Decisions : ~DictumHolds(program, v)) /\ UNCHANGED demand
    /\ UNCHANGED <<thresholds, minimum, raw, score, pluginFailed>>

\* spend_store::check_and_add refused, or did not.
Budget ==
    /\ stage = "budget"
    /\ stage' = "done"
    /\ \/ decision' = Block /\ demand' = Block
       \/ UNCHANGED <<decision, demand>>
    /\ UNCHANGED <<thresholds, minimum, raw, score, pluginFailed>>

\* The next request, of any workspace.
NextRequest ==
    /\ stage = "done"
    /\ stage' = "policy"
    /\ thresholds' \in Thresholds
    /\ minimum' = Allow /\ decision' = Allow /\ demand' = Allow
    /\ raw' = 0 /\ score' = 0
    /\ pluginFailed' = FALSE

Next ==
    \/ EvaluatePolicy \/ ApplyRule \/ Firewall \/ ThreatIntel \/ Taint \/ ConsultPlugins
    \/ SessionGraph \/ Adaptive \/ SecretsAndSchema \/ ScoreToolRisk \/ Dictum \/ Budget
    \/ NextRequest

Spec == Init /\ [][Next]_vars

-----------------------------------------------------------------------------
Stages == {"policy", "rule", "firewall", "threat", "taint", "plugins", "session",
           "adaptive", "secrets", "score", "dictum", "budget", "done"}

TypeOK ==
    /\ stage \in Stages
    /\ thresholds \in Thresholds
    /\ minimum \in Decisions /\ decision \in Decisions /\ demand \in Decisions
    /\ raw \in 0..100 /\ score \in 0..100
    /\ pluginFailed \in BOOLEAN

\* With review = block, or the two swapped, an action held to Review scores in
\* the Block band and is blocked; nothing validates the pair.
Ordered == thresholds.review < thresholds.block /\ thresholds.block <= 100

\* Stricter wins, whatever the thresholds: no layer that runs later, no score
\* and no Dictum verdict relaxes what an earlier layer, a Dictum policy or one
\* that failed to evaluate, or the budget asked for.
StricterWins == stage = "done" => decision >= demand

\* Nor is an action held back for nothing: with thresholds in order a decision
\* is exactly the strictest thing asked for or the band of the composite, so
\* bending the score to a minimum never moves the verdict.
NoUnexplainedRefusal ==
    stage = "done" /\ Ordered => decision = Stricter(demand, Band(raw))

\* The score a caller reads is in the band of the risk decision beside it
\* (tool_risk.rs:174-177), and never below the composite: bending lifts, it does not hide.
ScoreInBand ==
    stage = "dictum" /\ Ordered => Band(score) = decision /\ score >= raw

\* "A plugin error escalates to review." (core/types.rs:435-436)
PluginErrorEscalates == stage = "done" /\ pluginFailed => decision # Allow
=============================================================================
