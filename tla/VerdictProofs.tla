---------------------------- MODULE VerdictProofs ----------------------------
(***************************************************************************)
(* Proofs about Verdict for all thresholds, composites, plugins and Dictum *)
(* programs.  The invariant is stronger than the properties: before the    *)
(* score minimum_decision IS the strictest thing asked for, although each  *)
(* layer merges in its own way; afterwards the decision is that, or the    *)
(* band of the composite.                                                  *)
(***************************************************************************)
EXTENDS Verdict, TLAPS

Scored == {"dictum", "budget", "done"}

MinimumIsDemand == stage \notin Scored => minimum = demand
DecisionCovers == stage \in Scored => decision >= demand
DecisionExact == stage \in Scored /\ Ordered => decision = Stricter(demand, Band(raw))

FreshRequest == stage = "policy" => demand = Allow

VInv ==
    /\ TypeOK /\ FreshRequest /\ MinimumIsDemand
    /\ DecisionCovers /\ DecisionExact /\ ScoreInBand

-----------------------------------------------------------------------------
(* The checks of evaluate_policy, each aware of what the earlier ones left,  *)
(* amount to the strictest of the checks.                                    *)
LEMMA PolicyAgrees ==
    ASSUME NEW f \in PolicyFacts
    PROVE  PolicyFloor(f) = PolicyAsks(f) /\ PolicyAsks(f) \in Decisions
<1>1. CASE f.tool = NoTool
  BY <1>1 DEF PolicyFloor, PolicyAsks, PolicyFacts, ToReview, Decisions, Allow, Review, Block
<1>2. CASE f.tool # NoTool
  <2>1. f.tool \in ToolPolicies
    BY <1>2 DEF PolicyFacts
  <2>2. f.tool.max \in 0..2 /\ f.tool.action \in BOOLEAN /\ f.tool.human \in BOOLEAN
    BY <2>1 DEF ToolPolicies, Decisions, Allow, Review, Block
  <2> QED BY <1>2, <2>2
       DEF PolicyFloor, PolicyAsks, PolicyFacts, ToReview, Decisions, Allow, Review, Block
<1> QED BY <1>1, <1>2

(* The plugin branch amounts to the strictest of what the plugins ask for.   *)
LEMMA PluginsAgree ==
    ASSUME NEW answers \in [Plugins -> Answers], NEW d \in Decisions, NEW m \in Decisions,
           thresholds.block \in Nat, thresholds.review \in Nat,
           PluginsAsk(answers, d)
    PROVE  PluginFloor(m, answers) = Stricter(m, d)
<1> DEFINE outputs == {answers[p] : p \in Plugins} \ {Faulted, Unloaded}
<1>0. Faulted # Unloaded /\ Faulted \notin Outputs /\ Unloaded \notin Outputs
  BY PluginAssumption DEF Outputs, Decisions, Allow, Review, Block
<1>1. \A p \in Plugins : answers[p] \in Outputs \/ answers[p] = Faulted \/ answers[p] = Unloaded
  <2>1. \A p \in Plugins : answers[p] \in Answers
    OBVIOUS
  <2> QED BY <2>1, Zenon DEF Answers
<1>2. \A o : o \in outputs <=> o \in Outputs /\ \E p \in Plugins : answers[p] = o
  BY <1>0, <1>1
<1>3. ASSUME NEW o \in Outputs PROVE o.hint \in 0..2 /\ o.score \in Nat
  <2>1. o.hint \in Decisions /\ o.score \in PluginScores
    BY DEF Outputs
  <2>2. o.hint \in 0..2
    BY <2>1 DEF Decisions, Allow, Review, Block
  <2>3. PluginScores \subseteq Nat
    BY ScoreAssumption
  <2> QED BY <2>1, <2>2, <2>3
<1>4. CASE outputs # {}
  <2>1. \A p \in Plugins : answers[p] \notin Outputs => Asks(answers[p], answers) = Allow
    BY <1>4, <1>2 DEF Asks
  <2>2. \A o \in outputs : Stricter(o.hint, Band(o.score)) <= d
    BY <1>2 DEF PluginsAsk, Asks
  <2>3. d = Allow \/ \E o \in outputs : Stricter(o.hint, Band(o.score)) = d
    BY <1>2, <2>1 DEF PluginsAsk, Asks
  <2>4. \A o \in outputs : o.hint \in 0..2 /\ o.score \in Nat
    BY <1>2, <1>3
  <2>5. PluginFloor(m, answers) =
          IF \E o \in outputs : o.score >= thresholds.block THEN Block
          ELSE LET hinted == IF \E o \in outputs : o.hint = Block THEN Block
                             ELSE IF \E o \in outputs : o.hint = Review THEN ToReview(m) ELSE m
               IN  IF \E o \in outputs : o.score >= thresholds.review THEN ToReview(hinted)
                   ELSE hinted
    BY <1>4 DEF PluginFloor
  <2> HIDE DEF outputs
  <2>6. CASE d = Block
    <3>1. PICK o \in outputs : Stricter(o.hint, Band(o.score)) = Block
      BY <2>3, <2>6 DEF Allow, Block
    <3>2. o.hint = Block \/ o.score >= thresholds.block
      BY <3>1, <2>4 DEF Stricter, Band, Allow, Review, Block
    <3> QED BY <3>2, <2>5, <2>6 DEF Stricter, ToReview, Decisions, Allow, Review, Block
  <2>7. CASE d = Review
    <3>1. PICK o \in outputs : Stricter(o.hint, Band(o.score)) = Review
      BY <2>3, <2>7 DEF Allow, Review
    <3>2. o.hint = Review \/ o.score >= thresholds.review
      BY <3>1, <2>4 DEF Stricter, Band, Allow, Review, Block
    <3>3. \A q \in outputs : q.hint # Block /\ ~(q.score >= thresholds.block)
      BY <2>2, <2>4, <2>7 DEF Stricter, Band, Allow, Review, Block
    <3> QED BY <3>2, <3>3, <2>5, <2>7 DEF Stricter, ToReview, Decisions, Allow, Review, Block
  <2>8. CASE d = Allow
    <3>1. \A q \in outputs : /\ q.hint # Block /\ ~(q.score >= thresholds.block)
                             /\ q.hint # Review /\ ~(q.score >= thresholds.review)
      BY <2>2, <2>4, <2>8 DEF Stricter, Band, Allow, Review, Block
    <3> QED BY <3>1, <2>5, <2>8 DEF Stricter, Decisions, Allow, Review, Block
  <2> QED BY <2>6, <2>7, <2>8 DEF Decisions
<1>5. CASE outputs = {}
  <2>1. \A p \in Plugins : answers[p] \notin Outputs
    BY <1>5, <1>2
  <2>2. \A p \in Plugins :
          Asks(answers[p], answers) = IF answers[p] = Faulted THEN Review ELSE Allow
    BY <2>1 DEF Asks
  <2>3. PluginFloor(m, answers) =
          IF \E p \in Plugins : answers[p] = Faulted THEN ToReview(m) ELSE m
    BY <1>5 DEF PluginFloor
  <2>4. d = IF \E p \in Plugins : answers[p] = Faulted THEN Review ELSE Allow
    BY <2>2 DEF PluginsAsk, Decisions, Allow, Review, Block
  <2> QED BY <2>3, <2>4 DEF Stricter, ToReview, Decisions, Allow, Review, Block
<1> QED BY <1>4, <1>5

(* Firing on an error is exactly what keeps a policy from being silent.      *)
LEMMA FiredIsHeld ==
    ASSUME NEW n \in Nat, NEW program \in [1..n -> DictumPolicies], NEW v \in Decisions
    PROVE  /\ FirstFired(program, v) <=> DictumHolds(program, v)
           /\ (\A i \in 1..n : ~Fires(program[i])) => ~DictumHolds(program, v)
           /\ \A w \in Decisions : FirstFired(program, v) /\ FirstFired(program, w) => v = w
<1>1. \A i \in 1..n : Fires(program[i]) <=> ~Silent(program[i])
  BY DEF Fires, Silent, DictumPolicies
<1>2. Len(program) = n
  OBVIOUS
<1>3. \A i \in 1..n : \A j \in 1..(i - 1) : j \in 1..n
  OBVIOUS
<1>4. FirstFired(program, v) <=> DictumHolds(program, v)
  BY <1>1, <1>2, <1>3 DEF FirstFired, DictumHolds
<1>5. (\A i \in 1..n : ~Fires(program[i])) => ~DictumHolds(program, v)
  BY <1>1, <1>2 DEF DictumHolds
<1>6. ASSUME NEW w \in Decisions, FirstFired(program, v), FirstFired(program, w)
      PROVE  v = w
  <2>1. PICK i \in 1..n : /\ Fires(program[i]) /\ v = program[i].verdict
                          /\ \A j \in 1..(i - 1) : ~Fires(program[j])
    BY <1>6, <1>2 DEF FirstFired
  <2>2. PICK k \in 1..n : /\ Fires(program[k]) /\ w = program[k].verdict
                          /\ \A j \in 1..(k - 1) : ~Fires(program[j])
    BY <1>6, <1>2 DEF FirstFired
  <2>3. ~(i < k) /\ ~(k < i)
    BY <2>1, <2>2
  <2> QED BY <2>1, <2>2, <2>3
<1> QED BY <1>4, <1>5, <1>6

(* Bending a Review into its band stops short of the Block threshold.        *)
LEMMA BendInBand ==
    ASSUME NEW s \in 0..100, NEW lo \in Nat, NEW hi \in Nat, lo < hi, hi <= 100, s < lo
    PROVE  Bend(s, lo, hi - lo) \in lo..(hi - 1)
<1> DEFINE h == hi - lo
<1>1. h \in 1..100
  OBVIOUS
<1> HIDE DEF h
<1>2. s * h \in Nat /\ s * h <= 99 * h
  BY <1>1
<1>3. (s * h) \div 100 \in Nat /\ (s * h) \div 100 < h
  BY <1>1, <1>2
<1>4. Bend(s, lo, h) = lo + (s * h) \div 100
  BY <1>3 DEF Bend
<1> QED BY <1>1, <1>3, <1>4 DEF h

\* A bent threshold is a natural number at or above its floor.
LEMMA BendIsNat ==
    ASSUME NEW s \in 0..100, NEW floor \in Nat, NEW h \in Nat
    PROVE  Bend(s, floor, h) \in Nat /\ Bend(s, floor, h) >= floor
<1>1. s * h \in Nat
  OBVIOUS
<1>2. (s * h) \div 100 \in Nat
  BY <1>1
<1> QED BY <1>2 DEF Bend

(* The adjustment keeps the score in 0..100 and, with thresholds in order,   *)
(* lands in the band that the stricter of minimum and composite calls for.   *)
LEMMA AdjustNeutral ==
    ASSUME NEW s \in 0..100, NEW m \in Decisions,
           thresholds.block \in Nat, thresholds.review \in Nat
    PROVE  /\ Adjust(s, m) \in 0..100
           /\ Ordered => /\ Band(Adjust(s, m)) = Stricter(m, Band(s))
                         /\ Adjust(s, m) >= s
<1> DEFINE tb == thresholds.block
           tr == thresholds.review
<1> USE DEF Decisions, Allow, Review, Block
<1>1. CASE m = Block /\ s < tb
  <2> DEFINE h == SaturatingSub(100, tb)
             b == Bend(s, tb, h)
  <2>1. h \in Nat
    BY DEF SaturatingSub
  <2>2. b \in Nat /\ b >= tb
    BY <2>1, BendIsNat
  <2>3. Adjust(s, m) = Capped(b)
    BY <1>1 DEF Adjust
  <2> HIDE DEF b
  <2> QED BY <1>1, <2>2, <2>3 DEF Capped, Band, Stricter, Ordered
<1>2. CASE m = Review /\ s < tr
  <2> DEFINE h == SaturatingSub(tb, tr)
             b == Bend(s, tr, h)
  <2>1. h \in Nat
    BY DEF SaturatingSub
  <2>2. b \in Nat /\ b >= tr
    BY <2>1, BendIsNat
  <2>3. Ordered => b < tb
    <3> SUFFICES ASSUME Ordered PROVE b < tb
      OBVIOUS
    <3>1. tr < tb /\ tb <= 100
      BY DEF Ordered
    <3>2. h = tb - tr
      BY <3>1 DEF SaturatingSub
    <3>3. b \in tr..(tb - 1)
      BY <1>2, <3>1, <3>2, BendInBand
    <3> QED BY <3>3
  <2>4. Adjust(s, m) = Capped(b)
    BY <1>2 DEF Adjust
  <2> HIDE DEF b
  <2> QED BY <1>2, <2>2, <2>3, <2>4 DEF Capped, Band, Stricter, Ordered
<1>3. CASE ~(m = Block /\ s < tb) /\ ~(m = Review /\ s < tr)
  BY <1>3 DEF Adjust, Band, Stricter, Ordered
<1> QED BY <1>1, <1>2, <1>3

-----------------------------------------------------------------------------
\* Thresholds are natural numbers.
LEMMA ThresholdsNat ==
    ASSUME TypeOK PROVE thresholds.block \in Nat /\ thresholds.review \in Nat
BY ScoreAssumption DEF TypeOK

(* What a layer that merges correctly gives: the minimum stays the demand.   *)
LEMMA MergeStep ==
    ASSUME VInv, NEW from \in Stages \ Scored, NEW to \in Stages \ (Scored \cup {"policy"}),
           NEW d \in Decisions, NEW m, m = Stricter(minimum, d),
           Merge(from, to, m, d), pluginFailed' \in BOOLEAN
    PROVE  VInv'
BY DEF VInv, TypeOK, FreshRequest, MinimumIsDemand, DecisionCovers, DecisionExact,
       ScoreInBand, Merge, Stricter, Scored, Stages, Decisions, Allow, Review, Block

\* No request has been judged.
LEMMA VInvInit == Init => VInv
<1> SUFFICES ASSUME Init PROVE VInv
  OBVIOUS
<1>1. pluginFailed \in BOOLEAN
  BY Zenon DEF Init
<1> QED BY <1>1
     DEF Init, VInv, TypeOK, FreshRequest, MinimumIsDemand, DecisionCovers, DecisionExact,
         ScoreInBand, Scored, Stages, Decisions, Allow, Review, Block

(* The score: the minimum, which is the demand, or the band of the composite. *)
LEMMA ScoreStep == VInv /\ ScoreToolRisk => VInv'
<1> SUFFICES ASSUME VInv, ScoreToolRisk PROVE VInv'
  OBVIOUS
<1> USE DEF Decisions, Allow, Review, Block
<1>1. thresholds.block \in Nat /\ thresholds.review \in Nat
  BY ThresholdsNat DEF VInv
<1>2. raw' \in 0..100 /\ minimum \in Decisions /\ minimum = demand
  BY ScoreAssumption DEF VInv, TypeOK, MinimumIsDemand, Scored, ScoreToolRisk
<1>3. /\ Adjust(raw', minimum) \in 0..100
      /\ Ordered => /\ Band(Adjust(raw', minimum)) = Stricter(minimum, Band(raw'))
                    /\ Adjust(raw', minimum) >= raw'
  BY <1>1, <1>2, AdjustNeutral
<1>4. \A x \in Nat : Band(x) \in Decisions
  BY DEF Band
<1>5. /\ stage' = "dictum" /\ score' = Adjust(raw', minimum)
      /\ decision' = Stricter(minimum, Band(score'))
      /\ thresholds' = thresholds /\ minimum' = minimum /\ demand' = demand
      /\ pluginFailed' = pluginFailed
  BY DEF ScoreToolRisk
<1>6. decision' \in Decisions /\ decision' >= demand
  BY <1>2, <1>3, <1>4, <1>5 DEF Stricter
<1>7. TypeOK'
  BY <1>2, <1>3, <1>5, <1>6 DEF VInv, TypeOK, Stages
<1>8. Ordered' <=> Ordered
  BY <1>5 DEF Ordered
<1>9. Ordered => Band(score)' = decision' /\ decision' = Stricter(demand', Band(raw)')
  <2> SUFFICES ASSUME Ordered
               PROVE  Band(score)' = decision' /\ decision' = Stricter(demand', Band(raw)')
    OBVIOUS
  <2>1. Band(score)' = Band(score') /\ Band(raw)' = Band(raw')
    BY <1>5 DEF Band
  <2>2. Band(score') = Stricter(minimum, Band(raw'))
    BY <1>3, <1>5
  <2>3. Band(raw') \in Decisions
    BY <1>2, <1>4
  <2> QED BY <1>2, <1>5, <2>1, <2>2, <2>3 DEF Stricter
<1> QED BY <1>3, <1>5, <1>6, <1>7, <1>8, <1>9
     DEF VInv, FreshRequest, MinimumIsDemand, DecisionCovers, DecisionExact, ScoreInBand, Scored

(* The overlay tightens by exactly what the program holds the action to.     *)
LEMMA DictumStep == VInv /\ Dictum => VInv'
<1> SUFFICES ASSUME VInv, Dictum PROVE VInv'
  OBVIOUS
<1> USE DEF Decisions, Allow, Review, Block
<1>1. PICK n \in 0..MaxPolicies : \E program \in [1..n -> DictumPolicies] :
         /\ \/ \E v \in Decisions : FirstFired(program, v) /\ decision' = Stricter(decision, v)
            \/ (\A i \in 1..n : ~Fires(program[i])) /\ UNCHANGED decision
         /\ \/ \E v \in Decisions : DictumHolds(program, v) /\ demand' = Stricter(demand, v)
            \/ (\A v \in Decisions : ~DictumHolds(program, v)) /\ UNCHANGED demand
  BY DEF Dictum
<1>2. PICK program \in [1..n -> DictumPolicies] :
         /\ \/ \E v \in Decisions : FirstFired(program, v) /\ decision' = Stricter(decision, v)
            \/ (\A i \in 1..n : ~Fires(program[i])) /\ UNCHANGED decision
         /\ \/ \E v \in Decisions : DictumHolds(program, v) /\ demand' = Stricter(demand, v)
            \/ (\A v \in Decisions : ~DictumHolds(program, v)) /\ UNCHANGED demand
  BY <1>1
<1>3. n \in Nat
  BY ScoreAssumption
<1>4. \A v \in Decisions :
        /\ FirstFired(program, v) <=> DictumHolds(program, v)
        /\ (\A i \in 1..n : ~Fires(program[i])) => ~DictumHolds(program, v)
        /\ \A w \in Decisions : FirstFired(program, v) /\ FirstFired(program, w) => v = w
  BY <1>3, FiredIsHeld
<1>5. \/ \E v \in Decisions : decision' = Stricter(decision, v) /\ demand' = Stricter(demand, v)
      \/ decision' = decision /\ demand' = demand
  BY <1>2, <1>4, Zenon
<1>6. PICK v \in Decisions : decision' = Stricter(decision, v) /\ demand' = Stricter(demand, v)
  <2>1. decision \in Decisions /\ demand \in Decisions
    BY DEF VInv, TypeOK
  <2> QED BY <1>5, <2>1 DEF Stricter
<1>7. /\ stage = "dictum" /\ stage' = "budget"
      /\ thresholds' = thresholds /\ minimum' = minimum /\ raw' = raw /\ score' = score
      /\ pluginFailed' = pluginFailed
  BY DEF Dictum
<1>8. TypeOK'
  BY <1>6, <1>7 DEF VInv, TypeOK, Stages, Stricter
<1>9. (Ordered' <=> Ordered) /\ Band(raw)' = Band(raw) /\ Band(raw) \in Decisions
  BY <1>7 DEF Ordered, Band
<1>10. decision' >= demand' /\ (Ordered => decision' = Stricter(demand', Band(raw)))
  BY <1>6, <1>7, <1>9 DEF VInv, TypeOK, DecisionCovers, DecisionExact, Scored, Stricter
<1> QED BY <1>7, <1>8, <1>9, <1>10
     DEF VInv, FreshRequest, MinimumIsDemand, DecisionCovers, DecisionExact, ScoreInBand, Scored

\* The budget may only raise the decision.
LEMMA BudgetStep == VInv /\ Budget => VInv'
<1> SUFFICES ASSUME VInv, Budget PROVE VInv'
  OBVIOUS
<1> USE DEF Decisions, Allow, Review, Block
<1>1. /\ stage = "budget" /\ stage' = "done"
      /\ thresholds' = thresholds /\ minimum' = minimum /\ raw' = raw /\ score' = score
      /\ pluginFailed' = pluginFailed
      /\ \/ decision' = Block /\ demand' = Block
         \/ decision' = decision /\ demand' = demand
  BY DEF Budget
<1>2. TypeOK'
  BY <1>1 DEF VInv, TypeOK, Stages
<1>3. (Ordered' <=> Ordered) /\ Band(raw)' = Band(raw) /\ Band(raw) \in Decisions
  BY <1>1 DEF Ordered, Band
<1>4. decision' >= demand' /\ (Ordered => decision' = Stricter(demand', Band(raw)))
  BY <1>1, <1>3 DEF VInv, TypeOK, DecisionCovers, DecisionExact, Scored, Stricter
<1> QED BY <1>1, <1>2, <1>3, <1>4
     DEF VInv, FreshRequest, MinimumIsDemand, DecisionCovers, DecisionExact, ScoreInBand, Scored

\* The next request starts from nothing.
LEMMA NextRequestStep == VInv /\ NextRequest => VInv'
<1> SUFFICES ASSUME NextRequest PROVE VInv'
  OBVIOUS
<1>1. pluginFailed' \in BOOLEAN
  BY Zenon DEF NextRequest
<1> QED BY <1>1
     DEF NextRequest, VInv, TypeOK, FreshRequest, MinimumIsDemand, DecisionCovers, DecisionExact,
         ScoreInBand, Scored, Stages, Decisions, Allow, Review, Block

(* One case per layer: each merge is the maximum of the minimum and its ask. *)
LEMMA LayerStep ==
    ASSUME VInv,
           \/ EvaluatePolicy \/ ApplyRule \/ Firewall \/ ThreatIntel \/ Taint
           \/ ConsultPlugins \/ SessionGraph \/ Adaptive \/ SecretsAndSchema
    PROVE  VInv'
<1> USE DEF Decisions, Allow, Review, Block
<1>0. minimum \in Decisions /\ demand \in Decisions /\ pluginFailed \in BOOLEAN
  BY DEF VInv, TypeOK
<1> DEFINE Ask(from, to, d) ==
        d \in Decisions /\ Merge(from, to, Stricter(minimum, d), d) /\ pluginFailed' \in BOOLEAN
<1>1. CASE EvaluatePolicy
  <2>1. PICK f \in PolicyFacts :
          Merge("policy", "rule", PolicyFloor(f), PolicyAsks(f)) /\ pluginFailed' = pluginFailed
    BY <1>1 DEF EvaluatePolicy
  <2>2. minimum = Allow
    BY <2>1 DEF Merge, VInv, FreshRequest, MinimumIsDemand, Scored
  <2>3. PolicyFloor(f) = PolicyAsks(f) /\ PolicyAsks(f) \in Decisions
    BY PolicyAgrees
  <2>4. PolicyFloor(f) = Stricter(minimum, PolicyAsks(f))
    BY <2>2, <2>3 DEF Stricter
  <2> HIDE DEF Decisions, Allow, Review, Block
  <2> QED BY <1>0, <2>1, <2>3, <2>4, MergeStep DEF Stages, Scored
<1>2. CASE ApplyRule
  <2>1. /\ stage = "rule" /\ stage' = "firewall" /\ thresholds' = thresholds
        /\ raw' = raw /\ score' = score /\ decision' = decision /\ pluginFailed' = pluginFailed
    BY <1>2 DEF ApplyRule
  <2>2. minimum = demand
    BY <2>1 DEF VInv, MinimumIsDemand, Scored
  <2>3. minimum' = demand' /\ minimum' \in Decisions
    BY <1>0, <1>2, <2>2 DEF ApplyRule, RuleFloor, ToReview, Stricter
  <2> QED BY <2>1, <2>3 DEF VInv, TypeOK, FreshRequest, MinimumIsDemand, DecisionCovers,
             DecisionExact, ScoreInBand, Scored, Stages
<1>3. CASE Firewall
  <2>1. \E d \in Decisions : Ask("firewall", "threat", d)
    BY <1>0, <1>3 DEF Firewall, Stricter
  <2> HIDE DEF Decisions, Allow, Review, Block
  <2> QED BY <2>1, MergeStep DEF Stages, Scored
<1>4. CASE ThreatIntel
  <2>1. \E d \in Decisions : Ask("threat", "taint", d)
    BY <1>0, <1>4 DEF ThreatIntel, Stricter, ToReview
  <2> HIDE DEF Decisions, Allow, Review, Block
  <2> QED BY <2>1, MergeStep DEF Stages, Scored
<1>5. CASE Taint
  <2>1. \E d \in Decisions : Ask("taint", "plugins", d)
    BY <1>0, <1>5 DEF Taint, Stricter
  <2> HIDE DEF Decisions, Allow, Review, Block
  <2> QED BY <2>1, MergeStep DEF Stages, Scored
<1>6. CASE ConsultPlugins
  <2>1. PICK answers \in [Plugins -> Answers] :
          /\ \E d \in Decisions : PluginsAsk(answers, d)
                  /\ Merge("plugins", "session", PluginFloor(minimum, answers), d)
          /\ pluginFailed' = (\E p \in Plugins : answers[p] = Faulted)
    BY <1>6 DEF ConsultPlugins
  <2>2. PICK d \in Decisions :
          PluginsAsk(answers, d) /\ Merge("plugins", "session", PluginFloor(minimum, answers), d)
    BY <2>1
  <2>3. PluginFloor(minimum, answers) = Stricter(minimum, d)
    BY <1>0, <2>2, PluginsAgree, ThresholdsNat DEF VInv
  <2>4. pluginFailed' \in BOOLEAN
    BY <2>1
  <2> HIDE DEF Decisions, Allow, Review, Block
  <2> QED BY <2>2, <2>3, <2>4, MergeStep DEF Stages, Scored
<1>7. CASE SessionGraph
  <2>1. \E d \in Decisions : Ask("session", "adaptive", d)
    BY <1>0, <1>7 DEF SessionGraph, Stricter, ToReview
  <2> HIDE DEF Decisions, Allow, Review, Block
  <2> QED BY <2>1, MergeStep DEF Stages, Scored
<1>8. CASE Adaptive
  <2>1. \E d \in Decisions : Ask("adaptive", "secrets", d)
    BY <1>0, <1>8 DEF Adaptive, Stricter, ToReview
  <2> HIDE DEF Decisions, Allow, Review, Block
  <2> QED BY <2>1, MergeStep DEF Stages, Scored
<1>9. CASE SecretsAndSchema
  <2>1. \E d \in Decisions : Ask("secrets", "score", d)
    BY <1>0, <1>9 DEF SecretsAndSchema, Stricter
  <2> HIDE DEF Decisions, Allow, Review, Block
  <2> QED BY <2>1, MergeStep DEF Stages, Scored
<1> QED BY <1>1, <1>2, <1>3, <1>4, <1>5, <1>6, <1>7, <1>8, <1>9

\* Every step keeps the invariant.
LEMMA VInvStep == VInv /\ [Next]_vars => VInv'
<1> SUFFICES ASSUME VInv, [Next]_vars PROVE VInv'
  OBVIOUS
<1>1. CASE UNCHANGED vars
  BY <1>1 DEF vars, VInv, TypeOK, FreshRequest, MinimumIsDemand, DecisionCovers, DecisionExact,
     ScoreInBand, Ordered, Band
<1>2. CASE Next
  BY <1>2, LayerStep, ScoreStep, DictumStep, BudgetStep, NextRequestStep DEF Next
<1> QED BY <1>1, <1>2

\* The invariant holds in every reachable state.
LEMMA VInvariance == Spec => []VInv
BY VInvInit, VInvStep, PTL DEF Spec

-----------------------------------------------------------------------------
\* The score stays in 0..100 for any thresholds, validated or not, and the
\* decision is always one of the three.
THEOREM VerdictTypeCorrect == Spec => []TypeOK
<1>1. VInv => TypeOK
  BY DEF VInv
<1> QED BY <1>1, VInvariance, PTL

\* For every workspace, set of plugins and Dictum program the final decision is
\* at least as strict as everything that was asked for.
THEOREM StricterAlwaysWins == Spec => []StricterWins
<1>1. VInv => StricterWins
  BY DEF VInv, DecisionCovers, StricterWins, Scored
<1> QED BY <1>1, VInvariance, PTL

\* For thresholds in order the decision is exactly the strictest ask or the band
\* of the composite: no merge and no bending of the score adds a refusal.
THEOREM RefusalsAreExplained == Spec => []NoUnexplainedRefusal
<1>1. VInv => NoUnexplainedRefusal
  BY DEF VInv, DecisionExact, NoUnexplainedRefusal, Scored
<1> QED BY <1>1, VInvariance, PTL

\* For thresholds in order the bent score is in the band of the risk decision
\* and not below the composite: the integer division never rounds out of the band.
THEOREM ScoresMatchDecisions == Spec => []ScoreInBand
<1>1. VInv => ScoreInBand
  BY DEF VInv
<1> QED BY <1>1, VInvariance, PTL
=============================================================================
