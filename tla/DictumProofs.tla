---------------------------- MODULE DictumProofs ----------------------------
(***************************************************************************)
(* The Dictum policy language, for every value of the constants: a policy   *)
(* that the type checker accepts has a bool, or an error the construct      *)
(* allows, from the tree walk, and the WASM code agrees with it; no path of *)
(* a loaded overlay is a typo; and the parser reads back every program that *)
(* is written with no superfluous parenthesis.                              *)
(***************************************************************************)
EXTENDS Dictum, WellFoundedInduction, TLAPS

-----------------------------------------------------------------------------
(* Dictum.  An expression is a tree laid out as a sequence, each node after *)
(* its parts, so what a walk computes is shown node by node, from the left: *)
(* first that the recursion of each walk is well founded (there is such a    *)
(* function), then what the walk makes of a node, given its parts.  The      *)
(* induction is over sets of numbers, from the least element of what is left *)
(* out.                                                                    *)

\* A set of numbers that is not empty has a least one.
LEMMA LeastNat ==
    ASSUME NEW T \in SUBSET Nat, T # {}
    PROVE  \E x \in T : \A y \in T : x <= y
<1> DEFINE lt == OpToRel(<, Nat)
<1>1. IsWellFoundedOn(lt, Nat)
  BY NatLessThanWellFounded
<1>2. \A x, y \in Nat : y < x => <<y, x>> \in lt
  BY DEF OpToRel
<1> HIDE DEF lt
<1>3. PICK x \in T : \A y \in T : ~ (<<y, x>> \in lt)
  BY <1>1, WFMin
<1>4. ASSUME NEW y \in T PROVE x <= y
  <2>1. x \in Nat /\ y \in Nat /\ ~ (<<y, x>> \in lt)
    BY <1>3
  <2>2. ~ (y < x)
    BY <1>2, <2>1, Zenon
  <2> QED
    BY <2>1, <2>2
<1> QED
  BY <1>4

\* What holds of 0 and goes on holding holds of every number.
LEMMA NatInd ==
    ASSUME NEW P \in SUBSET Nat, 0 \in P, \A n \in P : n + 1 \in P
    PROVE  P = Nat
<1> SUFFICES ASSUME P # Nat PROVE FALSE
  OBVIOUS
<1> DEFINE T == Nat \ P
<1>1. PICK x \in T : \A y \in T : x <= y
  <2>1. T \in SUBSET Nat /\ T # {}
    OBVIOUS
  <2> HIDE DEF T
  <2> QED
    BY <2>1, LeastNat
<1>2. x \in Nat \ {0} /\ x - 1 \in Nat
  BY <1>1
<1>3. x - 1 \in P
  BY <1>1, <1>2
<1> QED
  BY <1>1, <1>2, <1>3

-----------------------------------------------------------------------------
\* One segment of walk_path, and the walk.
Step(json, seg) ==
    IF json[1] = "Obj" /\ seg \in DOMAIN json[2] THEN json[2][seg] ELSE <<"Null">>

IsWalk(at, json, segs) ==
    at = [k \in 0..Len(segs) |->
            IF k = 0 THEN json
            ELSE IF at[k-1][1] = "Obj" /\ segs[k] \in DOMAIN at[k-1][2]
                 THEN at[k-1][2][segs[k]] ELSE <<"Null">>]

\* A path of one or two segments.
LEMMA WalkShort ==
    ASSUME NEW json, NEW segs \in Seq(STRING)
    PROVE  /\ Len(segs) = 1 => WalkPath(json, segs) = Step(json, segs[1])
           /\ Len(segs) = 2 => WalkPath(json, segs) = Step(Step(json, segs[1]), segs[2])
<1> DEFINE g == [k \in 0..Len(segs) |-> IF k = 0 THEN json
                    ELSE IF k = 1 THEN Step(json, segs[1])
                    ELSE Step(Step(json, segs[1]), segs[2])]
<1>1. ASSUME Len(segs) \in {1, 2} PROVE IsWalk(g, json, segs)
  <2>1. PICK s1, s2 : s1 = Step(json, segs[1]) /\ s2 = Step(s1, segs[2])
    OBVIOUS
  <2>2. PICK h : h = g
    OBVIOUS
  <2>3. /\ h = [k \in 0..Len(segs) |-> IF k = 0 THEN json ELSE IF k = 1 THEN s1 ELSE s2]
        /\ h[0] = json /\ h[1] = s1
    BY <1>1, <2>1, <2>2
  <2>4. ASSUME NEW k \in 0..Len(segs), k # 0 PROVE h[k] = Step(h[k-1], segs[k])
    <3>1. CASE k = 1
      BY <2>1, <2>3, <2>4, <3>1
    <3>2. CASE k = 2
      BY <2>1, <2>3, <2>4, <3>2
    <3> QED
      BY <1>1, <2>4, <3>1, <3>2
  <2>5. h = [k \in 0..Len(segs) |-> IF k = 0 THEN json ELSE Step(h[k-1], segs[k])]
    BY <2>3, <2>4
  <2> QED
    BY <2>2, <2>5 DEF IsWalk, Step
<1>2. ASSUME Len(segs) \in {1, 2} 
      PROVE  \E at : IsWalk(at, json, segs) /\ WalkPath(json, segs) = at[Len(segs)]
  <2> HIDE DEF g
  <2>1. \E at : IsWalk(at, json, segs)
    BY <1>1, <1>2
  <2> QED
    BY <2>1 DEF IsWalk, WalkPath
<1>3. ASSUME NEW at, IsWalk(at, json, segs), Len(segs) \in {1, 2}
      PROVE  /\ Len(segs) = 1 => at[Len(segs)] = Step(json, segs[1])
             /\ Len(segs) = 2 => at[Len(segs)] = Step(Step(json, segs[1]), segs[2])
  <2>1. at[0] = json
    BY <1>3 DEF IsWalk
  <2>2. at[1] = Step(json, segs[1])
    BY <1>3, <2>1 DEF IsWalk, Step
  <2>3. Len(segs) = 2 => at[2] = Step(at[1], segs[2])
    BY <1>3 DEF IsWalk, Step
  <2> QED
    BY <2>2, <2>3, <1>3
<1> QED
  BY <1>2, <1>3

\* What one path of the schema finds in a context.
LEMMA PathResolves ==
    ASSUME NEW r \in Requests, NEW segs \in Seq(STRING), Len(segs) \in {1, 2},
           ValidateContextPath(segs), segs[1] # "ml",
           segs[1] = "usage" => r.spent # {}, segs[1] = "budget" => r.limit # {}
    PROVE  WalkPath(BuildOverlayContext(r), segs) # <<"Null">>
<1> DEFINE ctx == BuildOverlayContext(r)
<1>1. ctx[1] = "Obj" /\ DOMAIN ctx[2] = Roots(r)
  BY DEF BuildOverlayContext, Obj
<1>2. segs[1] \in {"agent", "action", "workspace", "risk", "usage", "budget"}
  BY DEF ValidateContextPath, ContextSchema
<1>3. segs[1] \in Roots(r)
  BY <1>2 DEF Roots
<1>4. Step(ctx, segs[1]) = ctx[2][segs[1]]
  BY <1>1, <1>3 DEF Step
<1>5. ctx[2][segs[1]][1] = "Obj"
  BY <1>2, <1>3 DEF BuildOverlayContext, Obj
<1>6. CASE Len(segs) = 1
  BY <1>4, <1>5, <1>6, WalkShort
<1>7. CASE Len(segs) = 2
  <2>1. r.payload[1] = "Obj"
    BY DictumAssumption
  <2>2. segs[2] \in ContextSchema[segs[1]]
    BY <1>7 DEF ValidateContextPath
  <2>3. /\ segs[2] \in DOMAIN ctx[2][segs[1]][2]
        /\ ctx[2][segs[1]][2][segs[2]][1] # "Null"
    <3>1. CASE segs[1] = "agent"
      BY <1>3, <2>2, <3>1 DEF BuildOverlayContext, Obj, ContextSchema
    <3>2. CASE segs[1] = "action"
      BY <1>3, <2>1, <2>2, <3>2 DEF BuildOverlayContext, Obj, ContextSchema
    <3>3. CASE segs[1] = "workspace"
      BY <1>3, <2>2, <3>3 DEF BuildOverlayContext, Obj, ContextSchema
    <3>4. CASE segs[1] = "risk"
      BY <1>3, <2>2, <3>4 DEF BuildOverlayContext, Obj, ContextSchema
    <3>5. CASE segs[1] = "usage"
      BY <1>3, <2>2, <3>5 DEF BuildOverlayContext, Obj, ContextSchema
    <3>6. CASE segs[1] = "budget"
      BY <1>3, <2>2, <3>6 DEF BuildOverlayContext, Obj, ContextSchema
    <3> QED
      BY <1>2, <3>1, <3>2, <3>3, <3>4, <3>5, <3>6
  <2>4. Step(Step(ctx, segs[1]), segs[2]) = ctx[2][segs[1]][2][segs[2]]
    BY <1>4, <1>5, <2>3 DEF Step
  <2>5. WalkPath(ctx, segs)[1] # "Null"
    BY <1>7, <2>3, <2>4, WalkShort
  <2> QED
    BY <2>5
<1> QED
  BY <1>6, <1>7

\* The validator has seen every path that the loader collects.
LEMMA CollectedPathsAreSeqs ==
    ASSUME NEW program, Validate(program), NEW segs \in CollectPaths(program)
    PROVE  segs \in Seq(STRING) \ {<<>>}
<1>1. PICK i \in 1..Len(program) : \E k \in 1..Len(Exprs(program[i])) :
          segs \in CollectExprPaths(Exprs(program[i])[k])
  BY DEF CollectPaths
<1>2. PICK k \in 1..Len(Exprs(program[i])) : segs \in CollectExprPaths(Exprs(program[i])[k])
  BY <1>1
<1>3. ValidateExpr(Exprs(program[i])[k])
  BY <1>1, <1>2 DEF Validate
<1>4. PICK e : e = Exprs(program[i])[k]
  OBVIOUS
<1>5. PICK j \in 1..Len(e) : e[j][1] = "path" /\ segs = e[j][2]
  BY <1>2, <1>4 DEF CollectExprPaths
<1> QED
  BY <1>3, <1>4, <1>5 DEF ValidateExpr, ValidateNode

\* A path has a segment.
LEMMA NonEmptySeq ==
    ASSUME NEW S, NEW s \in Seq(S), s # <<>>
    PROVE  Len(s) \in Nat /\ Len(s) # 0
  OBVIOUS

\* A length that is neither zero nor more than two.
LEMMA OneOrTwo ==
    ASSUME NEW n \in Nat, n # 0, ~(n > 2)
    PROVE  n \in {1, 2}
  OBVIOUS

\* What DictumOverlay::load accepts has passed the validator and the schema.
LEMMA LoadedProgram ==
    ASSUME NEW t, Load(t)[1] = "Overlay"
    PROVE  /\ Validate(Load(t)[2])
           /\ \A segs \in CollectPaths(Load(t)[2]) : ValidateContextPath(segs)
<1>1. PICK p : p = Parse(t)
  OBVIOUS
<1>2. ~IsErr(p) /\ Validate(p[2])
  BY <1>1 DEF Load, Err
<1>3. ~ \E segs \in CollectPaths(p[2]) : ~ValidateContextPath(segs)
  BY <1>1, <1>2 DEF Load, Err
<1>4. Load(t)[2] = p[2]
  BY <1>1, <1>2, <1>3 DEF Load
<1> QED
  BY <1>2, <1>3, <1>4

\* The paths of a loaded overlay, in every state: the validator refuses a path
\* without a segment, validate_context_paths one that the schema does not hold.
LEMMA PathsResolve == LoadedPathsResolve
<1> DEFINE o == Load(Source(Program))
<1> SUFFICES ASSUME o[1] = "Overlay", NEW r \in Requests, NEW segs \in CollectPaths(o[2]),
                    segs[1] # "ml", ~(Len(segs) > 2 /\ segs[2] = "payload"),
                    ~(segs[1] = "usage" /\ r.spent = {}),
                    ~(segs[1] = "budget" /\ r.limit = {})
             PROVE  WalkPath(BuildOverlayContext(r), segs) # <<"Null">>
  BY DEF LoadedPathsResolve
<1>1. Validate(o[2]) /\ ValidateContextPath(segs)
  BY LoadedProgram
<1>2. segs \in Seq(STRING) \ {<<>>}
  BY <1>1, CollectedPathsAreSeqs
<1>3. ~ (Len(segs) > 2)
  BY <1>1, <1>2 DEF ValidateContextPath
<1>4. segs \in Seq(STRING) /\ Len(segs) \in {1, 2}
  <2>1. segs \in Seq(STRING) /\ segs # <<>>
    BY <1>2
  <2>2. Len(segs) \in Nat /\ Len(segs) # 0
    BY <2>1, NonEmptySeq, Zenon
  <2>3. Len(segs) \in {1, 2}
    BY <1>3, <2>2, OneOrTwo, Zenon
  <2> QED
    BY <2>1, <2>3, Zenon
<1> HIDE DEF o
<1> QED
  BY <1>1, <1>4, PathResolves

\* The nodes an author writes.
NodeKinds == {"not", "in", "call"} \cup BinOps
Contents == UnaryFns \cup BinaryFns \cup BOOLEAN \cup {{}}
Nodes == Leaves \cup (NodeKinds \X Contents \X Seq(Nat))

\* Node i of an expression, sz[k] being the number of nodes of the part that
\* ends at k.
OneUnder(e, i, sz) ==
    /\ e[i][1] \in {"not", "call"} /\ i > 1
    /\ e[i][1] = "not" => e[i][2] = {}
    /\ Len(e[i][3]) = 1 /\ e[i][3][1] = 1 /\ sz[i] = sz[i-1] + 1
TwoUnder(e, i, sz) ==
    /\ e[i][1] \in BinOps \cup {"in", "call"}
    /\ e[i][1] \in BinOps => e[i][2] = {}
    /\ e[i][1] = "in" => e[i][2] \in BOOLEAN
    /\ Len(e[i][3]) = 2 /\ e[i][3][2] = 1 /\ e[i][3][1] = sz[i-1] + 1
    /\ e[i][3][1] \in Nat /\ e[i][3][1] > 1 /\ e[i][3][1] < i
    /\ sz[i] = sz[i - e[i][3][1]] + sz[i-1] + 1
WellPlaced(e, i, sz) ==
    \/ e[i] \in Leaves /\ sz[i] = 1
    \/ OneUnder(e, i, sz)
    \/ TwoUnder(e, i, sz)
Tree(e, sz) ==
    /\ e \in Seq(Nodes) /\ sz \in Seq(Nat) /\ Len(sz) = Len(e) /\ Len(e) > 0
    /\ sz[Len(e)] = Len(e)
    /\ \A i \in 1..Len(e) : WellPlaced(e, i, sz)

\* The nodes with parts.
LEMMA NodeType ==
    ASSUME NEW kind \in NodeKinds, NEW of \in Contents, NEW parts \in Seq(Nat)
    PROVE  <<kind, of, parts>> \in Nodes
  BY DEF Nodes

\* One node more.
LEMMA AppendFacts ==
    ASSUME NEW S, NEW s \in Seq(S), NEW x \in S
    PROVE  /\ Append(s, x) \in Seq(S) /\ Len(Append(s, x)) = Len(s) + 1
           /\ Append(s, x)[Len(s) + 1] = x
           /\ \A i \in 1..Len(s) : Append(s, x)[i] = s[i]
  OBVIOUS

\* One expression after another.
LEMMA ConcatFacts ==
    ASSUME NEW S, NEW s \in Seq(S), NEW t \in Seq(S)
    PROVE  /\ s \o t \in Seq(S) /\ Len(s \o t) = Len(s) + Len(t)
           /\ \A i \in 1..Len(s) : (s \o t)[i] = s[i]
           /\ \A i \in 1..Len(t) : (s \o t)[Len(s) + i] = t[i]
  OBVIOUS

\* A place in a part of an expression is the same place in the whole.
LEMMA PlaceMoves ==
    ASSUME NEW e, NEW sz, NEW d, NEW w, NEW by \in Nat, NEW n \in Nat,
           \A i \in 1..n : d[by + i] = e[i] /\ w[by + i] = sz[i],
           NEW j \in 1..n, WellPlaced(e, j, sz)
    PROVE  WellPlaced(d, by + j, w)
<1>1. d[by + j] = e[j] /\ w[by + j] = sz[j] /\ j \in Nat
  OBVIOUS
<1>2. CASE OneUnder(e, j, sz)
  <2>1. j > 1 /\ j - 1 \in 1..n /\ (by + j) - 1 = by + (j - 1)
    BY <1>1, <1>2 DEF OneUnder
  <2>2. w[(by + j) - 1] = sz[j-1]
    BY <2>1
  <2>3. by + j > 1
    BY <2>1
  <2>4. OneUnder(d, by + j, w)
    BY <1>1, <1>2, <2>2, <2>3 DEF OneUnder
  <2> QED
    BY <2>4 DEF WellPlaced
<1>3. CASE TwoUnder(e, j, sz)
  <2>1. PICK k : k = e[j][3][1]
    OBVIOUS
  <2>2. k \in Nat /\ k > 1 /\ k < j
    BY <1>3, <2>1 DEF TwoUnder
  <2>3. /\ j - 1 \in 1..n /\ (by + j) - 1 = by + (j - 1)
        /\ j - k \in 1..n /\ (by + j) - k = by + (j - k) /\ k < by + j
    BY <2>2
  <2>4. w[(by + j) - 1] = sz[j-1] /\ w[(by + j) - k] = sz[j-k]
    BY <2>3
  <2>5. TwoUnder(d, by + j, w)
    BY <1>1, <1>3, <2>1, <2>2, <2>3, <2>4 DEF TwoUnder
  <2> QED
    BY <2>5 DEF WellPlaced
<1> QED
  BY <1>1, <1>2, <1>3 DEF WellPlaced

\* A leaf alone.
LEMMA TreeLeaf ==
    ASSUME NEW x \in Leaves
    PROVE  Tree(Leaf(x), <<1>>)
<1>1. x \in Nodes
  BY DEF Nodes
<1>2. Leaf(x) \in Seq(Nodes) /\ Len(Leaf(x)) = 1 /\ Leaf(x)[1] = x
  BY <1>1 DEF Leaf
<1>3. \A i \in 1..1 : WellPlaced(Leaf(x), i, <<1>>)
  BY <1>2 DEF WellPlaced
<1>4. <<1>> \in Seq(Nat) /\ Len(<<1>>) = 1
  OBVIOUS
<1> QED
  BY <1>2, <1>3, <1>4 DEF Tree

\* A node that the author sets on top of one expression.
LEMMA TreeUnary ==
    ASSUME NEW e, NEW sz, Tree(e, sz), NEW kind \in {"not", "call"},
           NEW of \in UnaryFns \cup {{}}, kind = "not" => of = {}
    PROVE  \E tz : Tree(Unary(kind, of, e), tz)
<1>1. PICK x : x = <<kind, of, <<1>>>>
  OBVIOUS
<1>2. x[1] = kind /\ x[2] = of /\ Len(x[3]) = 1 /\ x[3][1] = 1
  BY <1>1
<1>3. x \in Nodes
  <2>1. kind \in NodeKinds /\ of \in Contents
    BY DEF NodeKinds, Contents
  <2>2. <<1>> \in Seq(Nat)
    OBVIOUS
  <2> QED
    BY <1>1, <2>1, <2>2, NodeType, Zenon
<1>4. PICK d : d = Append(e, x)
  OBVIOUS
<1>5. /\ e \in Seq(Nodes) /\ sz \in Seq(Nat) /\ Len(sz) = Len(e) /\ Len(e) \in Nat
      /\ Len(e) > 0 /\ sz[Len(e)] = Len(e)
  BY DEF Tree
<1>6. /\ d \in Seq(Nodes) /\ Len(d) = Len(e) + 1 /\ d[Len(e) + 1] = x
      /\ \A i \in 1..Len(e) : d[i] = e[i]
  BY <1>3, <1>4, <1>5, AppendFacts
<1>7. PICK w : w = Append(sz, Len(e) + 1)
  OBVIOUS
<1>8. Len(e) + 1 \in Nat
  BY <1>5
<1>9. /\ w \in Seq(Nat) /\ Len(w) = Len(e) + 1 /\ w[Len(e) + 1] = Len(e) + 1
      /\ \A i \in 1..Len(e) : w[i] = sz[i]
  BY <1>5, <1>7, <1>8, AppendFacts
<1>10. ASSUME NEW i \in 1..Len(e) PROVE WellPlaced(d, i, w)
  <2>1. \A k \in 1..Len(e) : d[0 + k] = e[k] /\ w[0 + k] = sz[k]
    BY <1>5, <1>6, <1>9
  <2>2. WellPlaced(e, i, sz)
    BY DEF Tree
  <2>3. WellPlaced(d, 0 + i, w)
    BY <1>5, <2>1, <2>2, PlaceMoves
  <2> QED
    BY <2>3
<1>11. WellPlaced(d, Len(e) + 1, w)
  <2>1. Len(e) + 1 > 1 /\ w[Len(e) + 1] = Len(e) + 1 /\ w[(Len(e) + 1) - 1] = Len(e)
    BY <1>5, <1>9
  <2>2. w[Len(e) + 1] = w[(Len(e) + 1) - 1] + 1
    BY <1>5, <2>1
  <2>3. OneUnder(d, Len(e) + 1, w)
    BY <1>2, <1>6, <2>1, <2>2 DEF OneUnder
  <2> QED
    BY <2>3 DEF WellPlaced
<1>12. Tree(d, w)
  <2>1. \A i \in 1..Len(d) : WellPlaced(d, i, w)
    BY <1>5, <1>6, <1>10, <1>11
  <2> QED
    BY <1>5, <1>6, <1>9, <2>1 DEF Tree
<1>13. d = Unary(kind, of, e)
  BY <1>1, <1>4, Zenon DEF Unary
<1> QED
  BY <1>12, <1>13, Zenon

\* ... and on top of two.
LEMMA TreeBinary ==
    ASSUME NEW l, NEW lz, Tree(l, lz), NEW r, NEW rz, Tree(r, rz),
           NEW kind \in BinOps \cup {"in", "call"}, NEW of \in BinaryFns \cup BOOLEAN \cup {{}},
           kind \in BinOps => of = {}, kind = "in" => of \in BOOLEAN
    PROVE  \E tz : Tree(Binary(kind, of, l, r), tz)
<1>1. /\ l \in Seq(Nodes) /\ lz \in Seq(Nat) /\ Len(lz) = Len(l) /\ Len(l) \in Nat /\ Len(l) > 0
      /\ r \in Seq(Nodes) /\ rz \in Seq(Nat) /\ Len(rz) = Len(r) /\ Len(r) \in Nat /\ Len(r) > 0
      /\ lz[Len(l)] = Len(l) /\ rz[Len(r)] = Len(r)
  BY DEF Tree
<1>2. PICK parts : parts = <<Len(r) + 1, 1>>
  OBVIOUS
<1>3. parts \in Seq(Nat) /\ Len(parts) = 2 /\ parts[1] = Len(r) + 1 /\ parts[2] = 1
  BY <1>1, <1>2
<1>4. PICK x : x = <<kind, of, parts>>
  OBVIOUS
<1>5. x[1] = kind /\ x[2] = of /\ x[3] = parts
  BY <1>4
<1>6. x \in Nodes
  <2>1. kind \in NodeKinds /\ of \in Contents
    BY Zenon DEF NodeKinds, Contents
  <2> QED
    BY <1>3, <1>4, <2>1, NodeType, Zenon
<1>7. PICK n : n = Len(l) + Len(r) /\ n \in Nat
  BY <1>1
<1>8. PICK both : both = l \o r
  OBVIOUS
<1>9. /\ both \in Seq(Nodes) /\ Len(both) = n
      /\ \A i \in 1..Len(l) : both[i] = l[i]
      /\ \A i \in 1..Len(r) : both[Len(l) + i] = r[i]
  BY <1>1, <1>7, <1>8, ConcatFacts
<1>10. PICK d : d = Append(both, x)
  OBVIOUS
<1>11. /\ d \in Seq(Nodes) /\ Len(d) = n + 1 /\ d[n + 1] = x
       /\ \A i \in 1..n : d[i] = both[i]
  BY <1>6, <1>9, <1>10, AppendFacts
<1>12. PICK sizes : sizes = lz \o rz
  OBVIOUS
<1>13. /\ sizes \in Seq(Nat) /\ Len(sizes) = n
       /\ \A i \in 1..Len(l) : sizes[i] = lz[i]
       /\ \A i \in 1..Len(r) : sizes[Len(l) + i] = rz[i]
  <2>0. lz \in Seq(Nat) /\ rz \in Seq(Nat)
    BY <1>1
  <2>1. /\ lz \o rz \in Seq(Nat) /\ Len(lz \o rz) = Len(lz) + Len(rz)
        /\ \A i \in 1..Len(lz) : (lz \o rz)[i] = lz[i]
        /\ \A i \in 1..Len(rz) : (lz \o rz)[Len(lz) + i] = rz[i]
    BY <2>0, ConcatFacts
  <2> QED
    BY <1>1, <1>7, <1>12, <2>1
<1>14. PICK w : w = Append(sizes, n + 1)
  OBVIOUS
<1>15. /\ w \in Seq(Nat) /\ Len(w) = n + 1 /\ w[n + 1] = n + 1
       /\ \A i \in 1..n : w[i] = sizes[i]
  <2>1. n + 1 \in Nat
    BY <1>7
  <2> QED
    BY <1>13, <1>14, <2>1, AppendFacts
<1>16. \A i \in 1..Len(l) : i \in 1..n /\ d[0 + i] = l[i] /\ w[0 + i] = lz[i]
  <2>1. ASSUME NEW i \in 1..Len(l)
        PROVE  i \in 1..n /\ d[0 + i] = l[i] /\ w[0 + i] = lz[i]
    <3>1. i \in 1..n /\ 0 + i = i
      BY <1>1, <1>7
    <3> QED
      BY <3>1, <1>9, <1>11, <1>13, <1>15
  <2> QED
    BY <2>1
<1>17. \A i \in 1..Len(r) : d[Len(l) + i] = r[i] /\ w[Len(l) + i] = rz[i]
  <2>1. ASSUME NEW i \in 1..Len(r) PROVE d[Len(l) + i] = r[i] /\ w[Len(l) + i] = rz[i]
    <3>1. Len(l) + i \in 1..n
      BY <1>1, <1>7
    <3> QED
      BY <3>1, <1>9, <1>11, <1>13, <1>15
  <2> QED
    BY <2>1
<1>18. ASSUME NEW i \in 1..Len(l) PROVE WellPlaced(d, i, w)
  <2>1. WellPlaced(l, i, lz)
    BY DEF Tree
  <2>2. WellPlaced(d, 0 + i, w)
    BY <1>1, <1>16, <2>1, PlaceMoves
  <2> QED
    BY <2>2
<1>19. ASSUME NEW i \in 1..Len(r) PROVE WellPlaced(d, Len(l) + i, w)
  <2>1. WellPlaced(r, i, rz)
    BY DEF Tree
  <2> QED
    BY <1>1, <1>17, <2>1, PlaceMoves
<1>20. WellPlaced(d, n + 1, w)
  <2>1. w[Len(l)] = Len(l) /\ w[n] = Len(r)
    <3>1. w[0 + Len(l)] = lz[Len(l)] /\ w[Len(l) + Len(r)] = rz[Len(r)]
      <4>1. Len(l) \in 1..Len(l) /\ Len(r) \in 1..Len(r)
        BY <1>1
      <4> QED
        BY <4>1, <1>16, <1>17
    <3> QED
      BY <1>1, <1>7, <3>1
  <2>2. /\ d[n+1][1] = kind /\ d[n+1][2] = of /\ Len(d[n+1][3]) = 2
        /\ d[n+1][3][1] = Len(r) + 1 /\ d[n+1][3][2] = 1
    BY <1>3, <1>5, <1>11
  <2>3. (n + 1) - 1 = n /\ (n + 1) - (Len(r) + 1) = Len(l)
        /\ Len(r) + 1 \in Nat /\ Len(r) + 1 > 1 /\ Len(r) + 1 < n + 1
    BY <1>1, <1>7
  <2>4. w[n+1] = w[Len(l)] + w[n] + 1
    BY <1>1, <1>7, <1>15, <2>1
  <2>5. TwoUnder(d, n + 1, w)
    BY <2>1, <2>2, <2>3, <2>4 DEF TwoUnder
  <2> QED
    BY <2>5 DEF WellPlaced
<1>21. ASSUME NEW i \in 1..(n + 1) PROVE WellPlaced(d, i, w)
  <2>1. CASE i \in 1..Len(l)
    BY <1>18, <2>1
  <2>2. CASE i \notin 1..Len(l) /\ i # n + 1
    <3>1. PICK j : j = i - Len(l)
      OBVIOUS
    <3>2. j \in 1..Len(r) /\ i = Len(l) + j
      BY <1>1, <1>7, <2>2, <3>1
    <3> QED
      BY <1>19, <3>2
  <2>3. CASE i = n + 1
    BY <1>20, <2>3
  <2> QED
    BY <2>1, <2>2, <2>3
<1>22. Tree(d, w)
  BY <1>7, <1>11, <1>15, <1>21 DEF Tree
<1>23. d = Binary(kind, of, l, r)
  BY <1>2, <1>4, <1>8, <1>10, Zenon DEF Binary
<1> QED
  BY <1>22, <1>23, Zenon

-----------------------------------------------------------------------------
\* The size of the stack.
IsWeight(f, d) == f = [k \in 1..Len(d) |-> Len(d[k]) + (IF k = 1 THEN 0 ELSE f[k-1] + 1)]

\* One expression alone weighs its nodes.
LEMMA WeightOne ==
    ASSUME NEW d, Len(d) = 1, Len(d[1]) \in Nat
    PROVE  Weight(d) = Len(d[1])
<1> DEFINE g == [k \in 1..1 |-> Len(d[1])]
<1>1. IsWeight(g, d)
  BY DEF IsWeight
<1>2. PICK f : IsWeight(f, d) /\ Weight(d) = f[Len(d)]
  <2> HIDE DEF g
  <2>1. \E f : IsWeight(f, d)
    BY <1>1
  <2> QED
    BY <2>1 DEF IsWeight, Weight
<1>3. f[1] = Len(d[1])
  BY <1>2 DEF IsWeight
<1> QED
  BY <1>2, <1>3

DraftInv ==
    /\ draft \in Seq(Seq(Nodes))
    /\ \A k \in 1..Len(draft) : \E sz : Tree(draft[k], sz)
    /\ Len(draft) = 1 => Len(draft[1]) <= MaxNodes

\* The first elements of a stack.
LEMMA FirstOf ==
    ASSUME NEW S, NEW s \in Seq(S), NEW n \in 0..Len(s), NEW b, b = SubSeq(s, 1, Len(s) - n)
    PROVE  /\ b \in Seq(S) /\ Len(b) = Len(s) - n /\ Len(b) \in Nat
           /\ \A k \in 1..Len(b) : b[k] = s[k]
  OBVIOUS

\* An expression in place of the last n of the stack, within the bound.
LEMMA WriteKeeps ==
    ASSUME DraftInv, NEW n \in 0..Len(draft), NEW e, \E sz : Tree(e, sz),
           Write(Append(Below(n), e))
    PROVE  DraftInv'
<1>1. PICK d : d = Append(Below(n), e)
  OBVIOUS
<1>2. e \in Seq(Nodes) /\ Len(e) \in Nat
  BY DEF Tree
<1>3. PICK b : b = Below(n)
  OBVIOUS
<1>4. /\ b \in Seq(Seq(Nodes)) /\ Len(b) = Len(draft) - n /\ Len(b) \in Nat
      /\ \A k \in 1..Len(b) : b[k] = draft[k]
  <2>1. draft \in Seq(Seq(Nodes)) /\ b = SubSeq(draft, 1, Len(draft) - n)
    BY <1>3, Zenon DEF DraftInv, Below
  <2> QED
    BY <2>1, FirstOf
<1>5. /\ d \in Seq(Seq(Nodes)) /\ Len(d) = Len(b) + 1 /\ d[Len(b) + 1] = e
      /\ \A k \in 1..Len(b) : d[k] = draft[k]
  BY <1>1, <1>2, <1>3, <1>4
<1>6. \A k \in 1..Len(d) : \E sz : Tree(d[k], sz)
  <2>1. ASSUME NEW k \in 1..Len(d) PROVE \E sz : Tree(d[k], sz)
    <3>1. CASE k \in 1..Len(b)
      <4>1. k \in 1..Len(draft) /\ d[k] = draft[k]
        <5>1. Len(draft) \in Nat /\ n \in Nat
          BY DEF DraftInv
        <5>2. k \in 1..Len(draft)
          BY <1>4, <3>1, <5>1
        <5> QED
          BY <1>5, <3>1, <5>2
      <4> QED
        BY <4>1 DEF DraftInv
    <3>2. CASE k = Len(b) + 1
      BY <1>5, <3>2
    <3> QED
      BY <1>4, <1>5, <3>1, <3>2
  <2> QED
    BY <2>1
<1>7. Len(d) = 1 => Len(d[1]) <= MaxNodes
  <2>1. SUFFICES ASSUME Len(d) = 1 PROVE Len(d[1]) <= MaxNodes
    OBVIOUS
  <2>2. d[1] = e
    BY <1>4, <1>5, <2>1
  <2>3. Weight(d) <= MaxNodes
    BY <1>1 DEF Write
  <2>4. Weight(d) = Len(d[1])
    BY <1>2, <2>1, <2>2, WeightOne
  <2> QED
    BY <2>3, <2>4
<1>8. draft' = d
  BY <1>1 DEF Write
<1> QED
  BY <1>5, <1>6, <1>7, <1>8 DEF DraftInv

\* The draft is always a stack of well formed expressions.
THEOREM DraftInvariance == DictumSpec => []DraftInv
<1>1. DictumInit => DraftInv
  BY DEF DictumInit, DraftInv
<1>2. DraftInv /\ [DictumNext]_dictumVars => DraftInv'
  <2> SUFFICES ASSUME DraftInv, [DictumNext]_dictumVars PROVE DraftInv'
    OBVIOUS
  <2>0. draft \in Seq(Seq(Nodes)) /\ Len(draft) \in Nat
    BY DEF DraftInv
  <2>1. CASE WriteLeaf
    <3>1. PICK x \in Leaves : Write(Append(draft, Leaf(x)))
      BY <2>1 DEF WriteLeaf
    <3>2. \E sz : Tree(Leaf(x), sz)
      BY TreeLeaf
    <3>3. Below(0) = draft
      BY <2>0 DEF Below
    <3>4. 0 \in 0..Len(draft) /\ Write(Append(Below(0), Leaf(x)))
      BY <2>0, <3>1, <3>3
    <3> QED
      BY <3>2, <3>4, WriteKeeps
  <2>2. CASE WriteNot \/ WriteUnaryCall
    <3>1. PICK kind \in {"not", "call"}, of \in UnaryFns \cup {{}} :
              /\ kind = "not" => of = {}
              /\ Len(draft) >= 1 /\ Write(Append(Below(1), Unary(kind, of, draft[Len(draft)])))
      BY <2>2 DEF WriteNot, WriteUnaryCall
    <3>2. Len(draft) \in 1..Len(draft) /\ 1 \in 0..Len(draft)
      BY <2>0, <3>1
    <3>3. PICK sz : Tree(draft[Len(draft)], sz)
      BY <3>2 DEF DraftInv
    <3>4. \E tz : Tree(Unary(kind, of, draft[Len(draft)]), tz)
      BY <3>1, <3>3, TreeUnary
    <3> QED
      BY <3>1, <3>2, <3>4, WriteKeeps
  <2>3. CASE WriteBinary
    <3>1. PICK l, r : l = draft[Len(draft) - 1] /\ r = draft[Len(draft)]
      OBVIOUS
    <3>2. PICK kind \in BinOps \cup {"in", "call"}, of \in BinaryFns \cup BOOLEAN \cup {{}} :
              /\ kind \in BinOps => of = {}
              /\ kind = "in" => of \in BOOLEAN
              /\ Len(draft) >= 2 /\ Write(Append(Below(2), Binary(kind, of, l, r)))
      <4>1. Operators \subseteq BinOps
        BY DictumAssumption
      <4>2. "in" \notin BinOps /\ "call" \notin BinOps /\ "call" # "in"
        BY DEF BinOps, Comparisons
      <4> QED
        BY <2>3, <3>1, <4>1, <4>2, Zenon DEF WriteBinary
    <3>3. Len(draft) - 1 \in 1..Len(draft) /\ Len(draft) \in 1..Len(draft) /\ 2 \in 0..Len(draft)
      BY <2>0, <3>2
    <3>4. PICK lz : Tree(l, lz)
      BY <3>1, <3>3 DEF DraftInv
    <3>5. PICK rz : Tree(r, rz)
      BY <3>1, <3>3 DEF DraftInv
    <3>6. \E tz : Tree(Binary(kind, of, l, r), tz)
      BY <3>2, <3>4, <3>5, TreeBinary
    <3> QED
      BY <3>2, <3>3, <3>6, WriteKeeps
  <2>4. CASE UNCHANGED dictumVars
    BY <2>4 DEF dictumVars, DraftInv
  <2> QED
    BY <2>1, <2>2, <2>3, <2>4 DEF DictumNext
<1> QED
  BY <1>1, <1>2, PTL DEF DictumSpec

\* The leaves an author uses: paths and literals.
LEMMA LeafShape ==
    ASSUME NEW x \in Leaves
    PROVE  /\ x[1] \in {"lit", "path"} /\ Len(x[3]) = 0
           /\ x[1] = "path" => x[2] \in Seq(STRING) \ {<<>>}
           /\ x[1] = "lit" => \/ x[2][1] = "Bool" /\ x[2][2] \in BOOLEAN
                              \/ x[2][1] = "Int" /\ x[2][2] \in Nat
                              \/ x[2][1] = "Str"
<1>1. \/ x[1] = "path" /\ x = <<"path", x[2], <<>>>> /\ x[2] \in Seq(STRING) \ {<<>>}
      \/ x[1] = "lit" /\ x = <<"lit", x[2], <<>>>> /\ x[2] = <<x[2][1], x[2][2]>>
            /\ \/ x[2][1] = "Bool" /\ x[2][2] \in BOOLEAN
               \/ x[2][1] = "Int" /\ x[2][2] \in Nat
               \/ x[2][1] = "Str" /\ x[2][2] \in Seq(Nat)
  BY DictumAssumption, Zenon
<1>2. Len(x[3]) = 0
  <2>1. CASE x = <<"path", x[2], <<>>>>
    <3>1. PICK a : a = x[2]
      OBVIOUS
    <3>2. x = <<"path", a, <<>>>>
      BY <2>1, <3>1
    <3> QED
      BY <3>2
  <2>2. CASE x = <<"lit", x[2], <<>>>>
    <3>1. PICK a : a = x[2]
      OBVIOUS
    <3>2. x = <<"lit", a, <<>>>>
      BY <2>2, <3>1
    <3> QED
      BY <3>2
  <2> QED
    BY <1>1, <2>1, <2>2, Zenon
<1>3. x[1] \in {"lit", "path"}
  BY <1>1, Zenon
<1>4. x[1] = "path" => x[2] \in Seq(STRING) \ {<<>>}
  <2>1. ASSUME x[1] = "path" PROVE x[1] # "lit"
    BY <2>1
  <2> QED
    BY <1>1, <2>1, Zenon
<1>5. x[1] = "lit" => \/ x[2][1] = "Bool" /\ x[2][2] \in BOOLEAN
                      \/ x[2][1] = "Int" /\ x[2][2] \in Nat
                      \/ x[2][1] = "Str"
  <2>1. ASSUME x[1] = "lit" PROVE x[1] # "path"
    BY <2>1
  <2> QED
    BY <1>1, <2>1, Zenon
<1> QED
  BY <1>2, <1>3, <1>4, <1>5, Zenon

\* The parts of a node come before it.
LEMMA PartsBefore ==
    ASSUME NEW e, NEW sz, Tree(e, sz), NEW i \in 1..Len(e)
    PROVE  /\ i \in Nat /\ Len(e) \in Nat /\ Len(e[i][3]) \in {0, 1, 2}
           /\ \A k \in 1..Len(e[i][3]) : e[i][3][k] \in Nat /\ e[i][3][k] > 0 /\ e[i][3][k] < i
<1>1. e \in Seq(Nodes) /\ Len(e) \in Nat /\ i \in Nat /\ WellPlaced(e, i, sz)
  BY DEF Tree
<1>2. CASE e[i] \in Leaves
  BY <1>1, <1>2, LeafShape
<1>3. CASE OneUnder(e, i, sz)
  BY <1>1, <1>3 DEF OneUnder
<1>4. CASE TwoUnder(e, i, sz)
  <2>1. PICK p : p = e[i][3]
    OBVIOUS
  <2>2. Len(p) = 2 /\ p[1] \in Nat /\ p[1] > 1 /\ p[1] < i /\ p[2] = 1
    BY <1>4, <2>1 DEF TwoUnder
  <2> QED
    BY <1>1, <2>1, <2>2
<1> QED
  BY <1>1, <1>2, <1>3, <1>4 DEF WellPlaced

\* What a walk finds at the parts of a node was found before the node.
LEMMA AtPartsSame ==
    ASSUME NEW e, NEW sz, Tree(e, sz), NEW i \in 1..Len(e), NEW f, NEW g,
           \A j \in 1..(i - 1) : f[j] = g[j]
    PROVE  AtParts(e, i, f) = AtParts(e, i, g)
<1>1. ASSUME NEW k \in 1..Len(e[i][3]) PROVE f[i - e[i][3][k]] = g[i - e[i][3][k]]
  <2>1. i \in Nat /\ e[i][3][k] \in Nat /\ e[i][3][k] > 0 /\ e[i][3][k] < i
    BY PartsBefore
  <2>2. i - e[i][3][k] \in 1..(i - 1)
    BY <2>1
  <2> QED
    BY <2>2
<1> QED
  BY <1>1 DEF AtParts

\* What a walk found at the parts of a node.
LEMMA AtPartsAre ==
    ASSUME NEW e, NEW sz, Tree(e, sz), NEW i \in 1..Len(e), NEW f
    PROVE  /\ Len(AtParts(e, i, f)) = Len(e[i][3])
           /\ \A k \in 1..Len(e[i][3]) : AtParts(e, i, f)[k] = f[i - e[i][3][k]]
  BY PartsBefore DEF AtParts

-----------------------------------------------------------------------------
\* f is eval_expr at the first n nodes.
IsEval(f, e, ctx, n) ==
    f = [i \in 1..n |-> [m \in Nat |-> EvalNode(e, i, AtParts(e, i, f), ctx, m)]]

\* The recursion of eval_expr, which goes from a node to its parts, ends.
LEMMA EvalExists ==
    ASSUME NEW e, NEW sz, Tree(e, sz), NEW ctx
    PROVE  \E f : IsEval(f, e, ctx, Len(e))
<1> DEFINE P == {n \in Nat : n <= Len(e) => \E f : IsEval(f, e, ctx, n)}
<1>1. 0 \in P
  <2>1. IsEval([i \in 1..0 |-> 0], e, ctx, 0)
    BY DEF IsEval
  <2> QED
    BY <2>1
<1>2. ASSUME NEW n \in P PROVE n + 1 \in P
  <2>1. SUFFICES ASSUME n + 1 <= Len(e) PROVE \E f : IsEval(f, e, ctx, n + 1)
    OBVIOUS
  <2>2. n \in Nat /\ Len(e) \in Nat /\ n <= Len(e)
    BY <2>1 DEF Tree
  <2>3. PICK f : IsEval(f, e, ctx, n)
    BY <2>2
  <2>4. PICK last : last = [m \in Nat |-> EvalNode(e, n + 1, AtParts(e, n + 1, f), ctx, m)]
    OBVIOUS
  <2>5. PICK g : g = [i \in 1..(n + 1) |-> IF i <= n THEN f[i] ELSE last]
    OBVIOUS
  <2>6. \A i \in 1..n : g[i] = f[i]
    BY <2>2, <2>5
  <2>7. ASSUME NEW i \in 1..(n + 1)
        PROVE  g[i] = [m \in Nat |-> EvalNode(e, i, AtParts(e, i, g), ctx, m)]
    <3>1. AtParts(e, i, g) = AtParts(e, i, f)
      <4>1. i \in 1..Len(e) /\ \A j \in 1..(i-1) : j \in 1..n
        BY <2>1, <2>2
      <4>2. \A j \in 1..(i-1) : g[j] = f[j]
        BY <2>6, <4>1
      <4> QED
        BY <4>1, <4>2, AtPartsSame
    <3>2. CASE i \in 1..n
      <4>1. f[i] = [m \in Nat |-> EvalNode(e, i, AtParts(e, i, f), ctx, m)]
        BY <2>3, <3>2 DEF IsEval
      <4> QED
        BY <2>6, <3>1, <3>2, <4>1
    <3>3. CASE i = n + 1
      <4>1. g[i] = last
        BY <2>2, <2>5, <3>3
      <4> QED
        BY <2>4, <3>1, <3>3, <4>1
    <3> QED
      BY <2>2, <3>2, <3>3
  <2>8. IsEval(g, e, ctx, n + 1)
    BY <2>5, <2>7 DEF IsEval
  <2> QED
    BY <2>8
<1> HIDE DEF P
<1>3. P = Nat
  <2>1. P \in SUBSET Nat
    BY DEF P
  <2> QED
    BY <1>1, <1>2, <2>1, NatInd
<1>4. Len(e) \in Nat
  BY DEF Tree
<1> QED
  BY <1>3, <1>4 DEF P

\* eval_expr at node i, one step unfolded.
LEMMA EvalUnfold ==
    ASSUME NEW e, NEW sz, Tree(e, sz), NEW ctx, NEW i \in 1..Len(e), NEW n \in Nat
    PROVE  EvalExpr(e, ctx)[i][n] = EvalNode(e, i, AtParts(e, i, EvalExpr(e, ctx)), ctx, n)
<1>1. \E f : IsEval(f, e, ctx, Len(e))
  BY EvalExists
<1>2. IsEval(EvalExpr(e, ctx), e, ctx, Len(e))
  BY <1>1 DEF IsEval, EvalExpr
<1>3. PICK f : f = EvalExpr(e, ctx)
  OBVIOUS
<1>4. f[i] = [m \in Nat |-> EvalNode(e, i, AtParts(e, i, f), ctx, m)]
  BY <1>2, <1>3 DEF IsEval
<1> QED
  BY <1>3, <1>4

-----------------------------------------------------------------------------
\* f is infer_expr up to node n.
IsInfer(f, e, n) ==
    f = [i \in 0..n |-> IF i = 0 THEN <<"Ok", <<"Unknown">>, <<>>>>
                        ELSE InferNode(e[i], AtParts(e, i, f), f[i-1])]

\* The recursion of infer_expr ends.
LEMMA InferExists ==
    ASSUME NEW e, NEW sz, Tree(e, sz)
    PROVE  \E f : IsInfer(f, e, Len(e))
<1> DEFINE P == {n \in Nat : n <= Len(e) => \E f : IsInfer(f, e, n)}
<1>1. 0 \in P
  <2>1. IsInfer([i \in 0..0 |-> <<"Ok", <<"Unknown">>, <<>>>>], e, 0)
    BY DEF IsInfer
  <2> QED
    BY <2>1
<1>2. ASSUME NEW n \in P PROVE n + 1 \in P
  <2>1. SUFFICES ASSUME n + 1 <= Len(e) PROVE \E f : IsInfer(f, e, n + 1)
    OBVIOUS
  <2>2. n \in Nat /\ Len(e) \in Nat /\ n <= Len(e)
    BY <2>1 DEF Tree
  <2>3. PICK f : IsInfer(f, e, n)
    BY <2>2
  <2>4. PICK last : last = InferNode(e[n+1], AtParts(e, n + 1, f), f[n])
    OBVIOUS
  <2>5. PICK g : g = [i \in 0..(n + 1) |-> IF i <= n THEN f[i] ELSE last]
    OBVIOUS
  <2>6. \A i \in 0..n : g[i] = f[i]
    BY <2>2, <2>5
  <2>7. ASSUME NEW i \in 1..(n + 1)
        PROVE  g[i] = InferNode(e[i], AtParts(e, i, g), g[i-1])
    <3>1. AtParts(e, i, g) = AtParts(e, i, f)
      <4>1. i \in 1..Len(e) /\ \A j \in 1..(i-1) : j \in 0..n
        BY <2>1, <2>2
      <4>2. \A j \in 1..(i-1) : g[j] = f[j]
        BY <2>6, <4>1
      <4> QED
        BY <4>1, <4>2, AtPartsSame
    <3>2. g[i-1] = f[i-1]
      BY <2>2, <2>6
    <3>3. CASE i \in 1..n
      <4>1. f[i] = InferNode(e[i], AtParts(e, i, f), f[i-1])
        <5>1. i # 0 /\ i \in 0..n
          BY <2>2, <3>3
        <5> QED
          BY <2>3, <5>1 DEF IsInfer
      <4>2. g[i] = f[i]
        BY <2>6, <3>3
      <4> QED
        BY <3>1, <3>2, <4>1, <4>2
    <3>4. CASE i = n + 1
      <4>1. g[i] = last /\ i - 1 = n
        BY <2>2, <2>5, <3>4
      <4> QED
        BY <2>4, <3>1, <3>2, <3>4, <4>1
    <3> QED
      BY <2>2, <3>3, <3>4
  <2>8. g[0] = <<"Ok", <<"Unknown">>, <<>>>>
    BY <2>2, <2>3, <2>6 DEF IsInfer
  <2>9. \A i \in 0..(n + 1) : i = 0 \/ i \in 1..(n + 1)
    BY <2>2
  <2>10. IsInfer(g, e, n + 1)
    BY <2>5, <2>7, <2>8, <2>9 DEF IsInfer
  <2> QED
    BY <2>10
<1> HIDE DEF P
<1>3. P = Nat
  <2>1. P \in SUBSET Nat
    BY DEF P
  <2> QED
    BY <1>1, <1>2, <2>1, NatInd
<1>4. Len(e) \in Nat
  BY DEF Tree
<1> QED
  BY <1>3, <1>4 DEF P

\* infer_expr at node i, one step unfolded.
LEMMA InferUnfold ==
    ASSUME NEW e, NEW sz, Tree(e, sz), NEW i \in 1..Len(e)
    PROVE  InferExpr(e)[i] = InferNode(e[i], AtParts(e, i, InferExpr(e)), InferExpr(e)[i-1])
<1>1. \E f : IsInfer(f, e, Len(e))
  BY InferExists
<1>2. IsInfer(InferExpr(e), e, Len(e))
  BY <1>1 DEF IsInfer, InferExpr
<1>3. PICK f : f = InferExpr(e)
  OBVIOUS
<1>4. i # 0 /\ i \in 0..Len(e)
  BY DEF Tree
<1>5. f[i] = InferNode(e[i], AtParts(e, i, f), f[i-1])
  BY <1>2, <1>3, <1>4 DEF IsInfer
<1> QED
  BY <1>3, <1>5

-----------------------------------------------------------------------------
\* f is emit_expr at the first n nodes.
IsEmit(f, e, n) == f = [i \in 1..n |-> EmitNode(e[i], AtParts(e, i, f))]

\* The recursion of emit_expr ends.
LEMMA EmitExists ==
    ASSUME NEW e, NEW sz, Tree(e, sz)
    PROVE  \E f : IsEmit(f, e, Len(e))
<1> DEFINE P == {n \in Nat : n <= Len(e) => \E f : IsEmit(f, e, n)}
<1>1. 0 \in P
  <2>1. IsEmit([i \in 1..0 |-> 0], e, 0)
    BY DEF IsEmit
  <2> QED
    BY <2>1
<1>2. ASSUME NEW n \in P PROVE n + 1 \in P
  <2>1. SUFFICES ASSUME n + 1 <= Len(e) PROVE \E f : IsEmit(f, e, n + 1)
    OBVIOUS
  <2>2. n \in Nat /\ Len(e) \in Nat /\ n <= Len(e)
    BY <2>1 DEF Tree
  <2>3. PICK f : IsEmit(f, e, n)
    BY <2>2
  <2>4. PICK last : last = EmitNode(e[n+1], AtParts(e, n + 1, f))
    OBVIOUS
  <2>5. PICK g : g = [i \in 1..(n + 1) |-> IF i <= n THEN f[i] ELSE last]
    OBVIOUS
  <2>6. \A i \in 1..n : g[i] = f[i]
    BY <2>2, <2>5
  <2>7. ASSUME NEW i \in 1..(n + 1) PROVE g[i] = EmitNode(e[i], AtParts(e, i, g))
    <3>1. AtParts(e, i, g) = AtParts(e, i, f)
      <4>1. i \in 1..Len(e) /\ \A j \in 1..(i-1) : j \in 1..n
        BY <2>1, <2>2
      <4>2. \A j \in 1..(i-1) : g[j] = f[j]
        BY <2>6, <4>1
      <4> QED
        BY <4>1, <4>2, AtPartsSame
    <3>2. CASE i \in 1..n
      <4>1. f[i] = EmitNode(e[i], AtParts(e, i, f))
        BY <2>3, <3>2 DEF IsEmit
      <4> QED
        BY <2>6, <3>1, <3>2, <4>1
    <3>3. CASE i = n + 1
      <4>1. g[i] = last
        BY <2>2, <2>5, <3>3
      <4> QED
        BY <2>4, <3>1, <3>3, <4>1
    <3> QED
      BY <2>2, <3>2, <3>3
  <2>8. IsEmit(g, e, n + 1)
    BY <2>5, <2>7 DEF IsEmit
  <2> QED
    BY <2>8
<1> HIDE DEF P
<1>3. P = Nat
  <2>1. P \in SUBSET Nat
    BY DEF P
  <2> QED
    BY <1>1, <1>2, <2>1, NatInd
<1>4. Len(e) \in Nat
  BY DEF Tree
<1> QED
  BY <1>3, <1>4 DEF P

\* The code of node i, one step unfolded.
LEMMA EmitUnfold ==
    ASSUME NEW e, NEW sz, Tree(e, sz), NEW i \in 1..Len(e)
    PROVE  EmitExpr(e)[i] = EmitNode(e[i], AtParts(e, i, EmitExpr(e)))
<1>1. \E f : IsEmit(f, e, Len(e))
  BY EmitExists
<1>2. IsEmit(EmitExpr(e), e, Len(e))
  BY <1>1 DEF IsEmit, EmitExpr
<1>3. PICK f : f = EmitExpr(e)
  OBVIOUS
<1>4. f[i] = EmitNode(e[i], AtParts(e, i, f))
  BY <1>2, <1>3 DEF IsEmit
<1> QED
  BY <1>3, <1>4

\* f is what the loop over the arguments has after each.
IsArgs(f, parts, n) ==
    f = [k \in 0..Len(parts) |->
            IF k = 0 THEN <<<<"List", <<>>>>, n>> ELSE NextArg(f[k-1], parts[k])]

\* The arguments of a call, evaluated from the left.
LEMMA ArgsOneTwo ==
    ASSUME NEW parts, NEW n, Len(parts) \in {1, 2}
    PROVE  LET one == NextArg(<<<<"List", <<>>>>, n>>, parts[1])
           IN EvalArgs(parts, n) = IF Len(parts) = 1 THEN one ELSE NextArg(one, parts[2])
<1>1. PICK none, one, two : /\ none = <<<<"List", <<>>>>, n>>
                            /\ one = NextArg(none, parts[1]) /\ two = NextArg(one, parts[2])
  OBVIOUS
<1>2. PICK g : g = [k \in 0..Len(parts) |-> IF k = 0 THEN none ELSE IF k = 1 THEN one ELSE two]
  OBVIOUS
<1>3. g[0] = none /\ g[1] = one /\ (Len(parts) = 2 => g[2] = two)
  BY <1>2
<1>4. ASSUME NEW k \in 0..Len(parts), k # 0 PROVE g[k] = NextArg(g[k-1], parts[k])
  <2>1. CASE k = 1
    BY <1>1, <1>3, <2>1
  <2>2. CASE k = 2
    BY <1>1, <1>3, <1>4, <2>2
  <2> QED
    BY <1>4, <2>1, <2>2
<1>5. g = [k \in 0..Len(parts) |-> IF k = 0 THEN none ELSE NextArg(g[k-1], parts[k])]
  BY <1>2, <1>3, <1>4
<1>6. IsArgs(g, parts, n)
  BY <1>1, <1>5, Zenon DEF IsArgs
<1>7. PICK f : IsArgs(f, parts, n) /\ EvalArgs(parts, n) = f[Len(parts)]
  <2>1. \E f : IsArgs(f, parts, n)
    BY <1>6
  <2> QED
    BY <2>1 DEF IsArgs, EvalArgs
<1>8. f[0] = none
  BY <1>1, <1>7 DEF IsArgs
<1>9. f[1] = NextArg(f[0], parts[1]) /\ (Len(parts) = 2 => f[2] = NextArg(f[1], parts[2]))
  <2>1. ASSUME NEW k \in 0..Len(parts), k # 0 PROVE f[k] = NextArg(f[k-1], parts[k])
    BY <1>7, <2>1 DEF IsArgs
  <2>2. 1 \in 0..Len(parts) /\ (Len(parts) = 2 => 2 \in 0..Len(parts)) /\ 1-1 = 0 /\ 2-1 = 1
    OBVIOUS
  <2> QED
    BY <2>1, <2>2
<1>10. EvalArgs(parts, n) = IF Len(parts) = 1 THEN one ELSE two
  BY <1>1, <1>7, <1>8, <1>9
<1> QED
  BY <1>1, <1>10, Zenon

\* eval of one argument that is no error, and of two.
LEMMA StrictOne ==
    ASSUME NEW node, NEW parts, NEW n, Len(parts) = 1, NEW v, NEW m,
           parts[1][n] = <<v, m>>, ~IsErr(v)
    PROVE  EvalStrict(node, parts, n) = <<ValueOf(node, <<v>>), m>>
<1>1. PICK one : one = NextArg(<<<<"List", <<>>>>, n>>, parts[1])
  OBVIOUS
<1>2. EvalArgs(parts, n) = one
  BY <1>1, ArgsOneTwo
<1>3. one = <<<<"List", <<v>>>>, m>>
  BY <1>1 DEF NextArg, IsErr
<1> HIDE DEF ValueOf
<1> QED
  BY <1>2, <1>3 DEF EvalStrict, IsErr

\* A second argument after the first.
LEMMA AppendPair ==
    ASSUME NEW v, NEW u
    PROVE  Append(<<v>>, u) = <<v, u>>
<1>1. PICK S : S = {v, u}
  OBVIOUS
<1>2. PICK s : s = <<v>>
  OBVIOUS
<1>3. s \in Seq(S) /\ u \in S /\ Len(s) = 1 /\ s[1] = v
  BY <1>1, <1>2
<1>4. PICK a : a = Append(s, u)
  OBVIOUS
<1>5. a \in Seq(S) /\ Len(a) = 2 /\ a[2] = u /\ a[1] = v
  <2>0. s \in Seq(S) /\ u \in S
    BY <1>3
  <2>1. /\ a \in Seq(S) /\ Len(a) = Len(s) + 1 /\ a[Len(s) + 1] = u
        /\ \A i \in 1..Len(s) : a[i] = s[i]
    BY <2>0, <1>4, AppendFacts
  <2> QED
    BY <1>3, <2>1
<1>6. a = <<v, u>>
  BY <1>5
<1> QED
  BY <1>2, <1>4, <1>6, Zenon

\* ... and of two arguments, neither an error.
LEMMA StrictTwo ==
    ASSUME NEW node, NEW parts, NEW n, Len(parts) = 2, NEW v, NEW m, NEW u, NEW k,
           parts[1][n] = <<v, m>>, ~IsErr(v), parts[2][m] = <<u, k>>, ~IsErr(u)
    PROVE  EvalStrict(node, parts, n) = <<ValueOf(node, <<v, u>>), k>>
<1>1. PICK one : one = NextArg(<<<<"List", <<>>>>, n>>, parts[1])
  OBVIOUS
<1>2. EvalArgs(parts, n) = NextArg(one, parts[2])
  BY <1>1, ArgsOneTwo
<1>3. one = <<<<"List", <<v>>>>, m>>
  BY <1>1 DEF NextArg, IsErr
<1>4. NextArg(one, parts[2]) = <<<<"List", Append(<<v>>, u)>>, k>>
  BY <1>3 DEF NextArg, IsErr
<1>5. EvalArgs(parts, n) = <<<<"List", <<v, u>>>>, k>>
  BY <1>2, <1>4, AppendPair
<1> QED
  BY <1>5 DEF EvalStrict, IsErr

-----------------------------------------------------------------------------
\* f is what the loop over the arguments unifies.
IsUnified(f, types, with, env) ==
    f = [k \in 0..Len(types) |->
            IF k = 0 THEN <<"Ok", env>>
            ELSE IF IsErr(f[k-1]) THEN f[k-1] ELSE Unify(types[k], with[k], f[k-1][2])]

\* The places of a pair.
LEMMA FirstOrSecond ==
    ASSUME NEW n \in {1, 2}, NEW k \in 0..n, k # 0
    PROVE  k \in {1, 2} /\ (k = 2 => n = 2 /\ k - 1 = 1)
  OBVIOUS

\* Every part has been unified with what is expected of it.
LEMMA UnifiedParts ==
    ASSUME NEW types, NEW with, NEW env, Len(types) \in {1, 2},
           ~IsErr(UnifyAll(types, with, env))
    PROVE  \A k \in 1..Len(types) : \E s : ~IsErr(Unify(types[k], with[k], s))
<1>1. PICK none, one, two :
          /\ none = <<"Ok", env>> /\ one = Unify(types[1], with[1], env)
          /\ two = IF IsErr(one) THEN one ELSE Unify(types[2], with[2], one[2])
  OBVIOUS
<1>2. PICK g : g = [k \in 0..Len(types) |-> IF k = 0 THEN none ELSE IF k = 1 THEN one ELSE two]
  OBVIOUS
<1>3. g[0] = none /\ g[1] = one /\ (Len(types) = 2 => g[2] = two)
  BY <1>2
<1>4. ~IsErr(none) /\ none[2] = env
  BY <1>1 DEF IsErr
<1>5. ASSUME NEW k \in 0..Len(types), k # 0
      PROVE  g[k] = IF IsErr(g[k-1]) THEN g[k-1] ELSE Unify(types[k], with[k], g[k-1][2])
  <2>1. CASE k = 1
    BY <1>1, <1>3, <1>4, <2>1
  <2>2. CASE k = 2
    <3>1. g[2] = two /\ k - 1 = 1
      BY <1>3, <1>5, <2>2, FirstOrSecond, Zenon
    <3> QED
      BY <1>1, <1>3, <2>2, <3>1
  <2>3. k \in {1, 2}
    BY <1>5, FirstOrSecond, Zenon
  <2> QED
    BY <2>1, <2>2, <2>3, Zenon
<1>6. g = [k \in 0..Len(types) |->
             IF k = 0 THEN none
             ELSE IF IsErr(g[k-1]) THEN g[k-1] ELSE Unify(types[k], with[k], g[k-1][2])]
  BY <1>2, <1>3, <1>5
<1>7. IsUnified(g, types, with, env)
  BY <1>1, <1>6, Zenon DEF IsUnified
<1>8. PICK f : IsUnified(f, types, with, env) /\ UnifyAll(types, with, env) = f[Len(types)]
  <2>1. \E f : IsUnified(f, types, with, env)
    BY <1>7
  <2> QED
    BY <2>1 DEF IsUnified, UnifyAll
<1>9. f[0] = none
  BY <1>1, <1>8 DEF IsUnified
<1>10. /\ f[1] = IF IsErr(f[0]) THEN f[0] ELSE Unify(types[1], with[1], f[0][2])
       /\ Len(types) = 2 =>
            f[2] = IF IsErr(f[1]) THEN f[1] ELSE Unify(types[2], with[2], f[1][2])
  BY <1>8, SMTT(40) DEF IsUnified
<1>11. f[1] = one
  BY <1>1, <1>4, <1>9, <1>10
<1>12. ~IsErr(one) /\ (Len(types) = 2 => ~IsErr(Unify(types[2], with[2], one[2])))
  BY <1>8, <1>10, <1>11
<1>13. \E s : ~IsErr(Unify(types[1], with[1], s))
  BY <1>1, <1>12
<1> QED
  BY <1>12, <1>13

Ground == {<<"Bool">>, <<"Int">>, <<"Str">>}

\* unify of two determined types succeeds only when they are the same.
LEMMA GroundUnify ==
    ASSUME NEW a \in Ground, NEW b \in Ground, NEW s, ~IsErr(Unify(a, b, s))
    PROVE  a = b
<1>1. a[1] # "Var" /\ b[1] # "Var" /\ a # <<"Unknown">> /\ b # <<"Unknown">>
  BY DEF Ground
<1>2. Resolve(a, s) = a /\ Resolve(b, s) = b
  BY <1>1 DEF Resolve
<1> QED
  BY <1>1, <1>2 DEF Unify, IsErr, Err

\* A node that is accepted: so was the one before it, the arity is right, the
\* parts unify and the type is TypeOf.
LEMMA InferGood ==
    ASSUME NEW e, NEW sz, Tree(e, sz), NEW i \in 1..Len(e), ~IsErr(InferExpr(e)[i])
    PROVE  LET types == [k \in 1..Len(e[i][3]) |-> InferExpr(e)[i - e[i][3][k]][2]]
           IN /\ ~IsErr(InferExpr(e)[i-1]) /\ ~WrongArity(e[i])
              /\ \E s : ~IsErr(UnifyAll(types, Expected(e[i], types), s))
              /\ \E s : InferExpr(e)[i][2] = TypeOf(e[i], s)
<1>1. PICK f : f = InferExpr(e)
  OBVIOUS
<1>2. PICK parts : parts = AtParts(e, i, f)
  OBVIOUS
<1>3. PICK types : types = [k \in 1..Len(e[i][3]) |-> f[i - e[i][3][k]][2]]
  OBVIOUS
<1>4. types = [k \in 1..Len(parts) |-> parts[k][2]]
  BY <1>2, <1>3, AtPartsAre
<1>5. PICK sub : sub = UnifyAll(types, Expected(e[i], types), f[i-1][3])
  OBVIOUS
<1>6. f[i] = IF IsErr(f[i-1]) THEN f[i-1]
             ELSE IF WrongArity(e[i]) THEN Err("type")
             ELSE IF IsErr(sub) THEN sub
             ELSE <<"Ok", TypeOf(e[i], sub[2]), EnvAfter(e[i], sub[2])>>
  <2>1. f[i] = InferNode(e[i], parts, f[i-1])
    BY <1>1, <1>2, InferUnfold
  <2> QED
    BY <1>4, <1>5, <2>1, Zenon DEF InferNode
<1>7. IsErr(Err("type"))
  BY DEF IsErr, Err
<1>8. ~IsErr(f[i-1]) /\ ~WrongArity(e[i]) /\ ~IsErr(sub)
  BY <1>1, <1>6, <1>7, Zenon
<1>9. f[i] = <<"Ok", TypeOf(e[i], sub[2]), EnvAfter(e[i], sub[2])>>
  BY <1>6, <1>8, Zenon
<1>10. PICK s, t, a : s = sub[2] /\ t = TypeOf(e[i], s) /\ a = EnvAfter(e[i], s)
  OBVIOUS
<1>11. f[i] = <<"Ok", t, a>>
  BY <1>9, <1>10, Zenon
<1>12. f[i][2] = t
  BY <1>11
<1> QED
  BY <1>1, <1>3, <1>5, <1>8, <1>10, <1>12, Zenon

\* What is accepted as a whole is accepted at each node.
LEMMA InferAll ==
    ASSUME NEW e, NEW sz, Tree(e, sz), ~IsErr(InferExpr(e)[Len(e)]), NEW i \in 1..Len(e)
    PROVE  ~IsErr(InferExpr(e)[i])
<1> DEFINE P == {n \in Nat : n < Len(e) => ~IsErr(InferExpr(e)[Len(e) - n])}
<1>0. Len(e) \in Nat
  BY DEF Tree
<1>1. 0 \in P
  BY <1>0
<1>2. ASSUME NEW n \in P PROVE n + 1 \in P
  <2>1. SUFFICES ASSUME n + 1 < Len(e) PROVE ~IsErr(InferExpr(e)[Len(e) - (n + 1)])
    OBVIOUS
  <2>2. n \in Nat /\ n < Len(e) /\ ~IsErr(InferExpr(e)[Len(e) - n])
    BY <1>0, <2>1
  <2>3. PICK j : j = Len(e) - n
    OBVIOUS
  <2>4. j \in 1..Len(e) /\ j - 1 = Len(e) - (n + 1)
    BY <1>0, <2>2, <2>3
  <2>5. ~IsErr(InferExpr(e)[j - 1])
    BY <2>2, <2>3, <2>4, InferGood, Zenon
  <2> QED
    BY <2>4, <2>5
<1> HIDE DEF P
<1>3. P = Nat
  <2>1. P \in SUBSET Nat
    BY DEF P
  <2> QED
    BY <1>1, <1>2, <2>1, NatInd
<1>4. PICK n : n = Len(e) - i
  OBVIOUS
<1>5. n \in Nat /\ n < Len(e) /\ i = Len(e) - n
  BY <1>0, <1>4
<1> QED
  BY <1>3, <1>5 DEF P

-----------------------------------------------------------------------------
\* The signatures of the type checker have the arities of the validator.
LEMMA SignatureArity ==
    ASSUME NEW f \in DOMAIN BuiltinArities
    PROVE  /\ BuiltinSignature(f) # <<>>
           /\ Len(BuiltinSignature(f)[2]) = BuiltinArities[f]
<1>1. CASE f \in BinaryBuiltins
  <2>1. BuiltinSignature(f) = <<<<"Bool">>, <<Str, Str>>>>
    BY <1>1 DEF BuiltinSignature, BinaryBuiltins
  <2>2. BuiltinArities[f] = 2
    BY <1>1 DEF BuiltinArities
  <2> QED
    BY <2>1, <2>2
<1>2. CASE f \notin BinaryBuiltins
  <2>1. f \in UnaryBuiltins
    BY <1>2 DEF BuiltinArities
  <2>2. BuiltinArities[f] = 1
    BY <1>2, <2>1 DEF BuiltinArities
  <2>3. \E a, b : BuiltinSignature(f) = <<a, <<b>>>>
    BY <1>2, <2>1 DEF BuiltinSignature, UnaryBuiltins
  <2> QED
    BY <2>2, <2>3
<1> QED
  BY <1>1, <1>2

\* (1) What the type checker accepts, the validator accepts.
LEMMA TypedIsValid ==
    ASSUME NEW e, NEW sz, Tree(e, sz), ~IsErr(InferExpr(e)[Len(e)])
    PROVE  ValidateExpr(e)
<1> SUFFICES ASSUME NEW i \in 1..Len(e) PROVE ValidateNode(e[i])
  BY DEF ValidateExpr
<1>1. ~WrongArity(e[i])
  BY InferAll, InferGood, Zenon
<1>2. ASSUME e[i][1] = "call", e[i][2] \in DOMAIN BuiltinArities
      PROVE  Len(e[i][3]) = BuiltinArities[e[i][2]]
  <2>1. /\ BuiltinSignature(e[i][2]) # <<>>
        /\ Len(BuiltinSignature(e[i][2])[2]) = BuiltinArities[e[i][2]]
    BY <1>2, SignatureArity
  <2> QED
    BY <1>1, <1>2, <2>1 DEF WrongArity
<1>3. ASSUME e[i][1] = "path" PROVE e[i][2] \in Seq(STRING) \ {<<>>}
  <2>1. WellPlaced(e, i, sz)
    BY DEF Tree
  <2>2. e[i][1] \notin {"not", "call"} /\ e[i][1] \notin BinOps \cup {"in", "call"}
    BY <1>3 DEF BinOps, Comparisons
  <2>3. e[i] \in Leaves
    BY <2>1, <2>2 DEF WellPlaced, OneUnder, TwoUnder
  <2> QED
    BY <1>3, <2>3, LeafShape
<1> QED
  BY <1>2, <1>3 DEF ValidateNode

-----------------------------------------------------------------------------
\* The type that infer_expr gives node i.
Ty(e, i) == InferExpr(e)[i][2]

\* The rules of infer_expr for a node over one part of a determined type.
LEMMA UnaryTypes ==
    ASSUME NEW e, NEW sz, Tree(e, sz), NEW i \in 1..Len(e), OneUnder(e, i, sz),
           ~IsErr(InferExpr(e)[i]), Ty(e, i-1) \in Ground
    PROVE  /\ e[i][1] = "not" => Ty(e, i-1) = <<"Bool">> /\ Ty(e, i) = <<"Bool">>
           /\ e[i][1] = "call" /\ BuiltinSignature(e[i][2]) # <<>> =>
                LET sig == BuiltinSignature(e[i][2])
                IN /\ Len(sig[2]) = 1 /\ Ty(e, i) = sig[1]
                   /\ sig[2][1] \in Ground => Ty(e, i-1) = sig[2][1]
<1>1. Len(e[i][3]) = 1 /\ e[i][3][1] = 1
  BY DEF OneUnder
<1>2. PICK node, sig, a : node = e[i] /\ sig = BuiltinSignature(e[i][2]) /\ a = Ty(e, i-1)
  OBVIOUS
<1>3. PICK types : types = [k \in 1..Len(e[i][3]) |-> InferExpr(e)[i - e[i][3][k]][2]]
  OBVIOUS
<1>4. Len(types) = 1 /\ types[1] = a
  BY <1>1, <1>2, <1>3 DEF Ty
<1>5. PICK s : ~IsErr(UnifyAll(types, Expected(node, types), s))
  BY <1>2, <1>3, InferGood, ZenonT(40)
<1>6. PICK q : ~IsErr(Unify(a, Expected(node, types)[1], q))
  <2>1. Len(types) \in {1, 2} /\ 1 \in 1..Len(types)
    BY <1>4
  <2>2. \A k \in 1..Len(types) : \E u : ~IsErr(Unify(types[k], Expected(node, types)[k], u))
    BY <1>5, <2>1, UnifiedParts
  <2> QED
    BY <1>4, <2>1, <2>2, Zenon
<1>7. PICK env : Ty(e, i) = TypeOf(node, env)
  BY <1>2, InferGood, Zenon DEF Ty
<1>8. ~WrongArity(node)
  BY <1>2, InferGood, Zenon
<1>9. ASSUME node[1] = "not" PROVE a = <<"Bool">> /\ Ty(e, i) = <<"Bool">>
  <2>1. Expected(node, types)[1] = <<"Bool">>
    <3>1. Expected(node, types) = [k \in 1..Len(types) |-> <<"Bool">>]
      BY <1>9 DEF Expected, Comparisons
    <3> QED
      BY <1>4, <3>1
  <2>2. TypeOf(node, env) = <<"Bool">>
    BY <1>9 DEF TypeOf
  <2>3. <<"Bool">> \in Ground /\ a \in Ground
    BY <1>2 DEF Ground
  <2> QED
    BY <1>6, <1>7, <2>1, <2>2, <2>3, GroundUnify
<1>10. ASSUME node[1] = "call", sig # <<>>
       PROVE  Len(sig[2]) = 1 /\ Ty(e, i) = sig[1] /\ (sig[2][1] \in Ground => a = sig[2][1])
  <2>0. BuiltinSignature(node[2]) = sig
    BY <1>2
  <2>1. Expected(node, types) = sig[2]
    BY <1>10, <2>0 DEF Expected, Comparisons
  <2>2. TypeOf(node, env) = sig[1]
    BY <1>10, <2>0 DEF TypeOf
  <2>3. Len(sig[2]) = 1
    BY <1>1, <1>2, <1>8, <1>10, <2>0 DEF WrongArity
  <2>4. ASSUME sig[2][1] \in Ground PROVE a = sig[2][1]
    BY <1>2, <1>6, <2>1, <2>4, GroundUnify
  <2> QED
    BY <1>7, <2>2, <2>3, <2>4
<1> QED
  BY <1>2, <1>9, <1>10

\* The rules of infer_expr for a node over two parts of determined types.
LEMMA BinaryTypes ==
    ASSUME NEW e, NEW sz, Tree(e, sz), NEW i \in 1..Len(e), TwoUnder(e, i, sz),
           ~IsErr(InferExpr(e)[i]), NEW a, NEW b, a = Ty(e, i - e[i][3][1]), b = Ty(e, i-1),
           a \in Ground, b \in Ground
    PROVE  /\ e[i][1] \in {"and", "or"} =>
                a = <<"Bool">> /\ b = <<"Bool">> /\ Ty(e, i) = <<"Bool">>
           /\ e[i][1] \in Comparisons \ {"==", "!="} =>
                a = <<"Int">> /\ b = <<"Int">> /\ Ty(e, i) = <<"Bool">>
           /\ e[i][1] \in {"==", "!="} => a = b /\ Ty(e, i) = <<"Bool">>
           /\ e[i][1] = "call" /\ BuiltinSignature(e[i][2]) # <<>> =>
                LET sig == BuiltinSignature(e[i][2])
                IN /\ Len(sig[2]) = 2 /\ Ty(e, i) = sig[1]
                   /\ sig[2][1] \in Ground => a = sig[2][1]
                   /\ sig[2][2] \in Ground => b = sig[2][2]
<1>1. Len(e[i][3]) = 2 /\ e[i][3][2] = 1
  BY DEF TwoUnder
<1>2. PICK node, sig : node = e[i] /\ sig = BuiltinSignature(e[i][2])
  OBVIOUS
<1>3. PICK types : types = [k \in 1..Len(e[i][3]) |-> InferExpr(e)[i - e[i][3][k]][2]]
  OBVIOUS
<1>4. Len(types) = 2 /\ types[1] = a /\ types[2] = b
  BY <1>1, <1>2, <1>3 DEF Ty
<1>5. PICK s : ~IsErr(UnifyAll(types, Expected(node, types), s))
  BY <1>2, <1>3, InferGood, ZenonT(40)
<1>6. /\ \E u : ~IsErr(Unify(a, Expected(node, types)[1], u))
      /\ \E u : ~IsErr(Unify(b, Expected(node, types)[2], u))
  <2>1. Len(types) \in {1, 2} /\ 1 \in 1..Len(types) /\ 2 \in 1..Len(types)
    BY <1>4
  <2>2. \A k \in 1..Len(types) : \E u : ~IsErr(Unify(types[k], Expected(node, types)[k], u))
    BY <1>5, <2>1, UnifiedParts
  <2> QED
    BY <1>4, <2>1, <2>2, Zenon
<1>7. PICK env : Ty(e, i) = TypeOf(node, env)
  BY <1>2, InferGood, Zenon DEF Ty
<1>8. ~WrongArity(node)
  BY <1>2, InferGood, Zenon
<1>9. ASSUME node[1] \in {"and", "or"}
      PROVE  a = <<"Bool">> /\ b = <<"Bool">> /\ Ty(e, i) = <<"Bool">>
  <2>1. Expected(node, types)[1] = <<"Bool">> /\ Expected(node, types)[2] = <<"Bool">>
    <3>1. Expected(node, types) = [k \in 1..Len(types) |-> <<"Bool">>]
      BY <1>9 DEF Expected, Comparisons
    <3> QED
      BY <1>4, <3>1
  <2>2. TypeOf(node, env) = <<"Bool">>
    BY <1>9 DEF TypeOf
  <2>3. <<"Bool">> \in Ground
    BY DEF Ground
  <2> QED
    BY <1>6, <1>7, <2>1, <2>2, <2>3, GroundUnify
<1>10. ASSUME node[1] \in Comparisons \ {"==", "!="}
       PROVE  a = <<"Int">> /\ b = <<"Int">> /\ Ty(e, i) = <<"Bool">>
  <2>1. Expected(node, types) = <<<<"Int">>, <<"Int">>>>
    BY <1>10 DEF Expected, Comparisons
  <2>2. TypeOf(node, env) = <<"Bool">>
    BY <1>10 DEF TypeOf, Comparisons
  <2>3. <<"Int">> \in Ground
    BY DEF Ground
  <2>4. Expected(node, types)[1] = <<"Int">> /\ Expected(node, types)[2] = <<"Int">>
    BY <2>1
  <2> QED
    BY <1>6, <1>7, <2>2, <2>3, <2>4, GroundUnify
<1>11. ASSUME node[1] \in {"==", "!="} PROVE a = b /\ Ty(e, i) = <<"Bool">>
  <2>1. Expected(node, types) = <<types[2], types[2]>>
    BY <1>11 DEF Expected, Comparisons
  <2>2. TypeOf(node, env) = <<"Bool">>
    BY <1>11 DEF TypeOf
  <2>3. Expected(node, types)[1] = b
    BY <1>4, <2>1
  <2> QED
    BY <1>6, <1>7, <2>2, <2>3, GroundUnify
<1>12. ASSUME node[1] = "call", sig # <<>>
       PROVE  /\ Len(sig[2]) = 2 /\ Ty(e, i) = sig[1]
              /\ (sig[2][1] \in Ground => a = sig[2][1])
              /\ (sig[2][2] \in Ground => b = sig[2][2])
  <2>0. BuiltinSignature(node[2]) = sig
    BY <1>2
  <2>1. Expected(node, types) = sig[2]
    BY <1>12, <2>0 DEF Expected, Comparisons
  <2>2. TypeOf(node, env) = sig[1]
    BY <1>12, <2>0 DEF TypeOf
  <2>3. Len(sig[2]) = 2
    BY <1>1, <1>2, <1>8, <1>12, <2>0 DEF WrongArity
  <2>4. ASSUME sig[2][1] \in Ground PROVE a = sig[2][1]
    BY <1>6, <2>1, <2>4, GroundUnify
  <2>5. ASSUME sig[2][2] \in Ground PROVE b = sig[2][2]
    BY <1>6, <2>1, <2>5, GroundUnify
  <2> QED
    BY <1>7, <2>2, <2>3, <2>4, <2>5
<1> QED
  BY <1>2, <1>9, <1>10, <1>11, <1>12

\* The parts of a node over one, and over two.
LEMMA OnePart ==
    ASSUME NEW e, NEW sz, Tree(e, sz), NEW i \in 1..Len(e), OneUnder(e, i, sz), NEW f
    PROVE  Len(AtParts(e, i, f)) = 1 /\ AtParts(e, i, f)[1] = f[i-1]
<1>1. Len(e[i][3]) = 1 /\ e[i][3][1] = 1
  BY DEF OneUnder
<1>2. 1 \in 1..Len(e[i][3])
  BY <1>1
<1> QED
  BY <1>1, <1>2, AtPartsAre

\* ... and over two.
LEMMA TwoParts ==
    ASSUME NEW e, NEW sz, Tree(e, sz), NEW i \in 1..Len(e), TwoUnder(e, i, sz), NEW f
    PROVE  /\ Len(AtParts(e, i, f)) = 2
           /\ AtParts(e, i, f)[1] = f[i - e[i][3][1]] /\ AtParts(e, i, f)[2] = f[i-1]
<1>1. Len(e[i][3]) = 2 /\ e[i][3][2] = 1
  BY DEF TwoUnder
<1>2. 1 \in 1..Len(e[i][3]) /\ 2 \in 1..Len(e[i][3])
  BY <1>1
<1> QED
  BY <1>1, <1>2, AtPartsAre

\* Without a step left, eval_expr is the budget error.
LEMMA EvalZero ==
    ASSUME NEW e, NEW sz, Tree(e, sz), NEW ctx, NEW i \in 1..Len(e)
    PROVE  IsErr(EvalExpr(e, ctx)[i][0][1])
<1>1. PICK parts : parts = AtParts(e, i, EvalExpr(e, ctx))
  OBVIOUS
<1>2. EvalExpr(e, ctx)[i][0] = EvalNode(e, i, parts, ctx, 0)
  BY <1>1, EvalUnfold
<1>3. EvalNode(e, i, parts, ctx, 0) = <<Err("budget"), 0>>
  BY DEF EvalNode
<1> QED
  BY <1>2, <1>3 DEF IsErr, Err

\* A literal takes a step.
LEMMA EvalLit ==
    ASSUME NEW e, NEW sz, Tree(e, sz), NEW ctx, NEW i \in 1..Len(e), NEW n \in Nat, n > 0,
           e[i][1] = "lit"
    PROVE  EvalExpr(e, ctx)[i][n] = <<e[i][2], n - 1>>
<1>1. PICK parts : parts = AtParts(e, i, EvalExpr(e, ctx))
  OBVIOUS
<1>2. EvalExpr(e, ctx)[i][n] = EvalNode(e, i, parts, ctx, n)
  BY <1>1, EvalUnfold
<1> QED
  BY <1>2 DEF EvalNode

\* The nodes whose parts are all evaluated first.
LEMMA EvalOther ==
    ASSUME NEW e, NEW sz, Tree(e, sz), NEW ctx, NEW i \in 1..Len(e), NEW n \in Nat, n > 0,
           e[i][1] \notin {"lit", "path", "and", "or"},
           ~(e[i][1] = "call" /\ e[i][2] = "secret_ref")
    PROVE  EvalExpr(e, ctx)[i][n] =
               EvalStrict(e[i], AtParts(e, i, EvalExpr(e, ctx)), n - 1)
<1>1. PICK parts : parts = AtParts(e, i, EvalExpr(e, ctx))
  OBVIOUS
<1>2. EvalExpr(e, ctx)[i][n] = EvalNode(e, i, parts, ctx, n)
  BY <1>1, EvalUnfold
<1>3. EvalNode(e, i, parts, ctx, n) = EvalStrict(e[i], parts, n - 1)
  BY DEF EvalNode
<1> QED
  BY <1>1, <1>2, <1>3

\* secret_ref, which looks at a path itself.
LEMMA EvalSecret ==
    ASSUME NEW e, NEW sz, Tree(e, sz), NEW ctx, NEW i \in 1..Len(e), NEW n \in Nat, n > 0,
           e[i][1] = "call" /\ e[i][2] = "secret_ref"
    PROVE  EvalExpr(e, ctx)[i][n] =
               EvalSecretRef(e, i, AtParts(e, i, EvalExpr(e, ctx)), ctx, n - 1)
<1>1. PICK parts : parts = AtParts(e, i, EvalExpr(e, ctx))
  OBVIOUS
<1>2. EvalExpr(e, ctx)[i][n] = EvalNode(e, i, parts, ctx, n)
  BY <1>1, EvalUnfold
<1>3. EvalNode(e, i, parts, ctx, n) = EvalSecretRef(e, i, parts, ctx, n - 1)
  BY DEF EvalNode
<1> QED
  BY <1>1, <1>2, <1>3

\* The short circuit.
LEMMA EvalLogical ==
    ASSUME NEW e, NEW sz, Tree(e, sz), NEW ctx, NEW i \in 1..Len(e), NEW n \in Nat, n > 0,
           TwoUnder(e, i, sz), NEW j, j = i - e[i][3][1], e[i][1] \in {"and", "or"}
    PROVE  EvalExpr(e, ctx)[i][n] =
               EvalLogic(e[i][1], EvalExpr(e, ctx)[j], EvalExpr(e, ctx)[i-1], n - 1)
<1>1. PICK parts, op, b : parts = AtParts(e, i, EvalExpr(e, ctx)) /\ op = e[i][1] /\ b = n - 1
  OBVIOUS
<1>2. EvalExpr(e, ctx)[i][n] = EvalNode(e, i, parts, ctx, n)
  BY <1>1, EvalUnfold
<1>3. EvalNode(e, i, parts, ctx, n) = EvalLogic(op, parts[1], parts[2], b)
  BY <1>1 DEF EvalNode
<1>4. parts[1] = EvalExpr(e, ctx)[j] /\ parts[2] = EvalExpr(e, ctx)[i-1]
  BY <1>1, TwoParts
<1> QED
  BY <1>1, <1>2, <1>3, <1>4, Zenon

\* A node over one part that has a value.
LEMMA EvalOne ==
    ASSUME NEW e, NEW sz, Tree(e, sz), NEW ctx, NEW i \in 1..Len(e), NEW n \in Nat, n > 0,
           OneUnder(e, i, sz), e[i][1] = "call" => e[i-1][1] # "path",
           NEW v, NEW m, EvalExpr(e, ctx)[i-1][n-1] = <<v, m>>, ~IsErr(v)
    PROVE  EvalExpr(e, ctx)[i][n] = <<ValueOf(e[i], <<v>>), m>>
<1>1. Len(e[i][3]) = 1 /\ e[i][3][1] = 1 /\ e[i][1] \in {"not", "call"}
  BY DEF OneUnder
<1>2. PICK parts : parts = AtParts(e, i, EvalExpr(e, ctx))
  OBVIOUS
<1>3. Len(parts) = 1 /\ parts[1] = EvalExpr(e, ctx)[i - 1]
  BY <1>2, OnePart
<1>4. EvalStrict(e[i], parts, n - 1) = <<ValueOf(e[i], <<v>>), m>>
  <2>1. parts[1][n-1] = <<v, m>>
    BY <1>3
  <2> QED
    BY <1>3, <2>1, StrictOne
<1>5. CASE e[i][1] = "call" /\ e[i][2] = "secret_ref"
  <2>1. EvalExpr(e, ctx)[i][n] = EvalSecretRef(e, i, parts, ctx, n - 1)
    BY <1>2, <1>5, EvalSecret
  <2>2. EvalSecretRef(e, i, parts, ctx, n - 1) = EvalStrict(e[i], parts, n - 1)
    BY <1>1, <1>3, <1>5 DEF EvalSecretRef
  <2> QED
    BY <1>4, <2>1, <2>2
<1>6. CASE ~(e[i][1] = "call" /\ e[i][2] = "secret_ref")
  <2>1. EvalExpr(e, ctx)[i][n] = EvalStrict(e[i], parts, n - 1)
    BY <1>1, <1>2, <1>6, EvalOther
  <2> QED
    BY <1>4, <2>1
<1> QED
  BY <1>5, <1>6

-----------------------------------------------------------------------------
BoolOrErr(v) == IsErr(v) \/ v[1] = "Bool"

\* Each operator but a call yields a boolean or an error, and so do the calls
\* of type bool; a call of a name that is no builtin is an error.
LEMMA ApplyBool ==
    ASSUME NEW f, NEW a, f \in BinaryBuiltins \/ BuiltinSignature(f) = <<>>
    PROVE  BoolOrErr(Apply(f, a))
<1>1. CASE f \in BinaryBuiltins
  BY <1>1 DEF Apply, BoolOrErr, IsErr, Err, Bool, BinaryBuiltins
<1>2. CASE f \notin BinaryBuiltins
  <2>1. f \notin {"len", "secret_ref", "timestamp", "lower", "upper", "url_host", "sha256"}
    BY <1>2 DEF BuiltinSignature
  <2> QED
    BY <1>2, <2>1 DEF Apply, BoolOrErr, IsErr, Err, BinaryBuiltins
<1> QED
  BY <1>1, <1>2

\* `not`, `in` and the comparisons yield a boolean or an error.
LEMMA ValueBool ==
    ASSUME NEW node, NEW a, node[1] \in {"not", "in"} \cup Comparisons
    PROVE  BoolOrErr(ValueOf(node, a))
<1>1. \A x : x = Bool(x[2]) => x[1] = "Bool"
  BY DEF Bool
<1>2. CASE node[1] = "not"
  BY <1>2 DEF ValueOf, BoolOrErr, Bool, Comparisons
<1>3. CASE node[1] \in {"==", "!="}
  BY <1>3 DEF ValueOf, BoolOrErr, Bool, Comparisons
<1>4. CASE node[1] \in Comparisons \ {"==", "!="}
  <2>1. ValueOf(node, a) = CmpValues(node[1], a[1], a[2])
    BY <1>4 DEF ValueOf, Comparisons
  <2>2. BoolOrErr(CmpValues(node[1], a[1], a[2]))
    BY DEF CmpValues, BoolOrErr, Bool, IsErr, Err
  <2> QED
    BY <2>1, <2>2
<1>5. CASE node[1] = "in"
  <2>1. PICK b : b = Member(a[1], a[2])
    OBVIOUS
  <2>2. ValueOf(node, a) = IF IsErr(b) THEN b ELSE Bool(b[2] # node[2])
    BY <1>5, <2>1 DEF ValueOf, Comparisons
  <2> QED
    BY <2>2 DEF BoolOrErr, Bool
<1> QED
  BY <1>2, <1>3, <1>4, <1>5

\* `and` and `or` yield a boolean or an error of a part.
LEMMA LogicBool ==
    ASSUME NEW op, NEW l, NEW r, NEW n
    PROVE  BoolOrErr(EvalLogic(op, l, r, n)[1])
<1>1. PICK lv, rv : lv = l[n] /\ rv = r[lv[2]]
  OBVIOUS
<1>2. EvalLogic(op, l, r, n) =
        IF IsErr(lv[1]) THEN lv
        ELSE IF Truthy(lv[1]) = (op = "or") THEN <<Bool(op = "or"), lv[2]>>
        ELSE IF IsErr(rv[1]) THEN rv ELSE <<Bool(Truthy(rv[1])), rv[2]>>
  BY <1>1, Zenon DEF EvalLogic
<1>3. PICK x, y : x = Bool(op = "or") /\ y = Bool(Truthy(rv[1]))
  OBVIOUS
<1>4. x[1] = "Bool" /\ y[1] = "Bool"
  BY <1>3 DEF Bool
<1>5. EvalLogic(op, l, r, n) \in {<<x, lv[2]>>, <<y, rv[2]>>}
      \/ (EvalLogic(op, l, r, n) = lv /\ IsErr(lv[1]))
      \/ (EvalLogic(op, l, r, n) = rv /\ IsErr(rv[1]))
  BY <1>2, <1>3
<1> QED
  BY <1>4, <1>5 DEF BoolOrErr

\* A node that makes a boolean or an error of evaluated parts yields one.
LEMMA StrictBool ==
    ASSUME NEW node, NEW parts, NEW n, \A a : BoolOrErr(ValueOf(node, a))
    PROVE  BoolOrErr(EvalStrict(node, parts, n)[1])
<1>1. PICK r : r = EvalArgs(parts, n)
  OBVIOUS
<1>2. PICK v : v = ValueOf(node, r[1][2])
  OBVIOUS
<1>3. EvalStrict(node, parts, n) = IF IsErr(r[1]) THEN r ELSE <<v, r[2]>>
  BY <1>1, <1>2, Zenon DEF EvalStrict
<1>4. BoolOrErr(v)
  BY <1>2
<1> QED
  BY <1>3, <1>4 DEF BoolOrErr

\* (2) The root of an accepted expression is a boolean or an error, or a path.
LEMMA RootBool ==
    ASSUME NEW e, NEW sz, Tree(e, sz), NEW ctx, ~IsErr(Infer(e)), NEW n \in Nat
    PROVE  BoolOrErr(EvalExpr(e, ctx)[Len(e)][n][1]) \/ Infer(e)[2] = <<"Unknown">>
<1>1. PICK i : i = Len(e) /\ i \in 1..Len(e)
  BY DEF Tree
<1>2. PICK r, u : r = InferExpr(e)[i] /\ u = Unify(r[2], <<"Bool">>, r[3])
  OBVIOUS
<1>3. /\ ~IsErr(r) /\ ~IsErr(u)
      /\ Infer(e) = <<"Ok", Resolve(r[2], u[2])>>
  BY <1>1, <1>2, Zenon DEF Infer
<1>4. PICK s : r[2] = TypeOf(e[i], s)
  BY <1>1, <1>2, <1>3, InferGood, Zenon
<1>5. WellPlaced(e, i, sz)
  BY <1>1 DEF Tree
<1>6. ASSUME r[2] \in Ground PROVE r[2] = <<"Bool">>
  <2>1. <<"Bool">> \in Ground
    BY DEF Ground
  <2> QED
    BY <1>2, <1>3, <1>6, <2>1, GroundUnify
<1>7. PICK parts, v : parts = AtParts(e, i, EvalExpr(e, ctx)) /\ v = EvalExpr(e, ctx)[i][n]
  OBVIOUS
<1>8. SUFFICES ASSUME n > 0 PROVE BoolOrErr(v[1]) \/ Infer(e)[2] = <<"Unknown">>
  <2>1. CASE n = 0
    BY <1>1, <2>1, EvalZero DEF BoolOrErr
  <2>2. CASE n # 0
    BY <1>1, <1>7, <1>8, <2>2
  <2> QED
    BY <2>1, <2>2
<1>9. CASE e[i][1] = "lit"
  <2>1. e[i] \in Leaves
    BY <1>5, <1>9 DEF WellPlaced, OneUnder, TwoUnder, BinOps, Comparisons
  <2>2. r[2] = <<e[i][2][1]>> /\ r[2] \in Ground
    <3>1. r[2] = <<e[i][2][1]>>
      BY <1>4, <1>9 DEF TypeOf
    <3>2. e[i][2][1] \in {"Bool", "Int", "Str"}
      BY <1>9, <2>1, LeafShape
    <3> QED
      BY <3>1, <3>2 DEF Ground
  <2>3. e[i][2][1] = "Bool"
    BY <1>6, <2>2
  <2>4. v = <<e[i][2], n - 1>>
    BY <1>1, <1>7, <1>8, <1>9, EvalLit
  <2> QED
    BY <2>3, <2>4 DEF BoolOrErr
<1>10. CASE e[i][1] = "path"
  <2>1. r[2] = <<"Unknown">>
    BY <1>4, <1>10 DEF TypeOf
  <2>2. Resolve(r[2], u[2]) = <<"Unknown">>
    BY <2>1 DEF Resolve
  <2> QED
    BY <1>3, <2>2
<1>11. CASE e[i][1] \in {"and", "or"}
  <2>1. TwoUnder(e, i, sz)
    <3>1. e[i] \notin Leaves
      BY <1>11, LeafShape
    <3> QED
      BY <1>5, <1>11, <3>1 DEF WellPlaced, OneUnder
  <2>2. PICK j : j = i - e[i][3][1]
    OBVIOUS
  <2>3. v = EvalLogic(e[i][1], EvalExpr(e, ctx)[j], EvalExpr(e, ctx)[i-1], n - 1)
    BY <1>1, <1>7, <1>8, <1>11, <2>1, <2>2, EvalLogical
  <2> QED
    BY <2>3, LogicBool
<1>12. CASE e[i][1] \in {"not", "in"} \cup Comparisons
  <2>1. v = EvalStrict(e[i], parts, n - 1)
    BY <1>1, <1>7, <1>8, <1>12, EvalOther DEF Comparisons
  <2> QED
    BY <1>12, <2>1, ValueBool, StrictBool
<1>13. CASE e[i][1] = "call" /\ e[i][2] = "secret_ref"
  <2>1. v = EvalSecretRef(e, i, parts, ctx, n - 1)
    BY <1>1, <1>7, <1>8, <1>13, EvalSecret
  <2>2. \A a : BoolOrErr(ValueOf(e[i], a))
    BY <1>13 DEF ValueOf, BoolOrErr, Bool, Comparisons
  <2>3. BoolOrErr(EvalStrict(e[i], parts, n - 1)[1])
    BY <2>2, StrictBool
  <2> QED
    BY <2>1, <2>3 DEF EvalSecretRef, BoolOrErr, IsErr, Err, Bool
<1>14. CASE e[i][1] = "call" /\ e[i][2] # "secret_ref"
  <2>1. e[i][2] \in BinaryBuiltins \/ BuiltinSignature(e[i][2]) = <<>>
    <3>1. SUFFICES ASSUME BuiltinSignature(e[i][2]) # <<>> PROVE e[i][2] \in BinaryBuiltins
      OBVIOUS
    <3>2. r[2] = BuiltinSignature(e[i][2])[1]
      BY <1>4, <1>14, <3>1 DEF TypeOf
    <3>3. CASE e[i][2] \in {"len", "timestamp"}
      <4>1. r[2] = <<"Int">>
        BY <3>2, <3>3 DEF BuiltinSignature, BinaryBuiltins
      <4> QED
        BY <1>6, <4>1 DEF Ground
    <3>4. CASE e[i][2] \in {"lower", "upper", "url_host", "sha256"}
      <4>1. r[2] = <<"Str">>
        BY <3>2, <3>4 DEF BuiltinSignature, BinaryBuiltins, Str
      <4> QED
        BY <1>6, <4>1 DEF Ground
    <3> QED
      BY <1>14, <3>1, <3>3, <3>4 DEF BuiltinSignature
  <2>2. v = EvalStrict(e[i], parts, n - 1)
    BY <1>1, <1>7, <1>8, <1>14, EvalOther
  <2>3. \A a : ValueOf(e[i], a) = Apply(e[i][2], a)
    BY <1>14 DEF ValueOf, Comparisons
  <2>4. \A a : BoolOrErr(ValueOf(e[i], a))
    BY <2>1, <2>3, ApplyBool
  <2> QED
    BY <2>2, <2>4, StrictBool
<1>15. e[i][1] \in {"lit", "path", "and", "or", "not", "in", "call"} \cup Comparisons
  <2>1. CASE e[i] \in Leaves
    BY <2>1, LeafShape
  <2> QED
    BY <1>5, <2>1 DEF WellPlaced, OneUnder, TwoUnder, BinOps
<1> QED
  BY <1>9, <1>10, <1>11, <1>12, <1>13, <1>14, <1>15

\* A node whose arguments infer_expr checks has a type that is determined.
LEMMA GroundType ==
    ASSUME NEW e, NEW sz, Tree(e, sz), NEW i \in 1..Len(e), ~IsErr(InferExpr(e)[i]),
           ~Loose(e[i])
    PROVE  Ty(e, i) \in Ground
<1>1. PICK s : Ty(e, i) = TypeOf(e[i], s)
  BY InferGood, Zenon DEF Ty
<1>2. WellPlaced(e, i, sz)
  BY DEF Tree
<1>3. PICK node : node = e[i]
  OBVIOUS
<1>4. node[1] # "path" /\ node[1] # "in"
  BY <1>3 DEF Loose
<1>5. CASE node[1] = "lit"
  <2>1. node \in Leaves
    BY <1>2, <1>3, <1>5 DEF WellPlaced, OneUnder, TwoUnder, BinOps, Comparisons
  <2>2. TypeOf(node, s) = <<node[2][1]>>
    BY <1>5 DEF TypeOf
  <2>3. node[2][1] \in {"Bool", "Int", "Str"}
    BY <1>5, <2>1, LeafShape
  <2> QED
    BY <1>1, <1>3, <2>2, <2>3 DEF Ground
<1>6. CASE node[1] = "call"
  <2>1. BuiltinSignature(node[2]) # <<>>
    BY <1>3, <1>6 DEF Loose
  <2>2. TypeOf(node, s) = BuiltinSignature(node[2])[1]
    BY <1>6, <2>1 DEF TypeOf
  <2>3. BuiltinSignature(node[2])[1] \in Ground
    BY <2>1 DEF BuiltinSignature, Ground, Str
  <2> QED
    BY <1>1, <1>3, <2>2, <2>3
<1>7. CASE node[1] \notin {"lit", "path", "call"}
  <2>1. TypeOf(node, s) = <<"Bool">>
    BY <1>7 DEF TypeOf
  <2> QED
    BY <1>1, <1>3, <2>1 DEF Ground
<1> QED
  BY <1>4, <1>5, <1>6, <1>7

\* The size of a part is a number.
LEMMA SizeType ==
    ASSUME NEW e, NEW sz, Tree(e, sz), NEW i \in 1..Len(e)
    PROVE  i \in Nat /\ sz[i] \in Nat
<1>1. sz \in Seq(Nat) /\ Len(sz) = Len(e) /\ Len(e) \in Nat
  BY DEF Tree
<1> QED
  BY <1>1

-----------------------------------------------------------------------------
\* With as many steps as the part has nodes, node i has a value of its type.
Yields(e, ctx, i, n, v, m) == EvalExpr(e, ctx)[i][n] = <<v, m>> /\ m \in Nat
Typed(e, ctx, i, sz) ==
    \A n \in Nat : n >= sz[i] =>
        \E v, m : /\ Yields(e, ctx, i, n, v, m) /\ m + sz[i] >= n
                  /\ v[1] = Ty(e, i)[1]

\* The kinds of what the operators and builtins yield.
LEMMA CmpInts ==
    ASSUME NEW op, NEW a, NEW b, a[1] = "Int", b[1] = "Int"
    PROVE  CmpValues(op, a, b)[1] = "Bool"
<1>1. Numeric(a) /\ Numeric(b)
  BY DEF Numeric
<1>2. PICK x : x = (CASE op = "<" -> Less(a, b) [] op = ">" -> Less(b, a)
                      [] op = "<=" -> ~Less(b, a) [] op = ">=" -> ~Less(a, b))
  OBVIOUS
<1>3. CmpValues(op, a, b) = Bool(x)
  BY <1>1, <1>2, Zenon DEF CmpValues
<1> QED
  BY <1>3 DEF Bool

\* A builtin over two strings yields a boolean.
LEMMA ApplyStrs ==
    ASSUME NEW f \in BinaryBuiltins, NEW a, NEW b, a[1] = "Str", b[1] = "Str"
    PROVE  Apply(f, <<a, b>>)[1] = "Bool"
<1>1. PICK args : args = <<a, b>>
  OBVIOUS
<1>2. Len(args) = 2 /\ args[1] = a /\ args[2] = b
  BY <1>1
<1>3. [k \in 1..Len(args) |-> args[k][1]] = <<"Str", "Str">>
  BY <1>2
<1>4. PICK kinds : kinds = [k \in 1..Len(args) |-> args[k][1]]
  OBVIOUS
<1>5. kinds[1] = "Str" /\ kinds[1] # "List" /\ kinds = <<"Str", "Str">>
  BY <1>3, <1>4
<1>6. CASE f = "contains"
  <2>1. Apply(f, args) = Bool(HasSub(args[1][2], args[2][2]))
    BY <1>4, <1>5, <1>6 DEF Apply
  <2> QED
    BY <1>1, <2>1 DEF Bool
<1>7. CASE f = "starts_with"
  <2>1. Apply(f, args) = Bool(IsPrefix(args[2][2], args[1][2]))
    BY <1>4, <1>5, <1>7 DEF Apply
  <2> QED
    BY <1>1, <2>1 DEF Bool
<1>8. CASE f = "ends_with"
  <2>1. Apply(f, args) = Bool(IsSuffix(args[2][2], args[1][2]))
    BY <1>4, <1>5, <1>8 DEF Apply
  <2> QED
    BY <1>1, <2>1 DEF Bool
<1> QED
  BY <1>6, <1>7, <1>8 DEF BinaryBuiltins

\* A builtin over one string that yields a string.
LEMMA ApplyStr ==
    ASSUME NEW f \in {"lower", "upper", "url_host", "sha256"}, NEW a, a[1] = "Str"
    PROVE  Apply(f, <<a>>)[1] = "Str"
<1>1. PICK args : args = <<a>>
  OBVIOUS
<1>2. Len(args) = 1 /\ args[1] = a
  BY <1>1
<1>3. [k \in 1..Len(args) |-> args[k][1]] = <<"Str">>
  BY <1>2
<1>4. Apply(f, args) \in {<<"Str", Lower(a[2])>>, <<"Str", Upper(a[2])>>,
                          <<"Str", ExtractHost(a[2])>>, <<"Str", Sha256Hex(a[2])>>}
  BY <1>2, <1>3 DEF Apply
<1> QED
  BY <1>1, <1>4

\* What `and` and `or` make of two values.
LEMMA LogicValues ==
    ASSUME NEW op \in {"and", "or"}, NEW l, NEW r, NEW n, NEW v, NEW m, NEW u, NEW k,
           l[n] = <<v, m>>, ~IsErr(v), r[m] = <<u, k>>, ~IsErr(u)
    PROVE  EvalLogic(op, l, r, n) =
               IF Truthy(v) = (op = "or") THEN <<Bool(op = "or"), m>>
               ELSE <<Bool(Truthy(u)), k>>
<1>1. l[n][1] = v /\ l[n][2] = m /\ r[l[n][2]][1] = u /\ r[l[n][2]][2] = k
  OBVIOUS
<1> QED
  BY <1>1, Zenon DEF EvalLogic

\* The steps of a node over one part suffice for the part, and over two parts
\* for one after the other.
LEMMA OneHasSteps ==
    ASSUME NEW e, NEW sz, Tree(e, sz), NEW i \in 1..Len(e), OneUnder(e, i, sz),
           NEW n \in Nat, n >= sz[i]
    PROVE  /\ n > 0 /\ n - 1 \in Nat /\ i - 1 \in 1..(i-1) /\ i - 1 \in 1..Len(e)
           /\ n - 1 >= sz[i-1]
           /\ \A m \in Nat : m + sz[i-1] >= n - 1 => m + sz[i] >= n
<1>1. i \in Nat /\ i > 1 /\ sz[i] = sz[i-1] + 1 /\ Len(e) \in Nat
  BY PartsBefore DEF OneUnder
<1>2. i - 1 \in 1..(i-1) /\ i - 1 \in 1..Len(e)
  BY <1>1
<1>3. sz[i-1] \in Nat
  BY <1>2, SizeType
<1> QED
  BY <1>1, <1>2, <1>3

\* Two places before a place.
LEMMA PlaceArithmetic ==
    ASSUME NEW n \in Nat, NEW i \in 1..n, NEW d \in Nat, d > 1, d < i
    PROVE  i - 1 \in 1..(i-1) /\ i - 1 \in 1..n /\ i - d \in 1..(i-1) /\ i - d \in 1..n
  OBVIOUS

\* The steps that two parts, one after the other, leave.
LEMMA StepArithmetic ==
    ASSUME NEW n \in Nat, NEW a \in Nat, NEW b \in Nat, NEW c, c = a + b + 1, n >= c
    PROVE  /\ n > 0 /\ n - 1 \in Nat /\ n - 1 >= a
           /\ \A m \in Nat : m + a >= n - 1 =>
                /\ m >= b /\ m + c >= n
                /\ \A k \in Nat : k + b >= m => k + c >= n
  OBVIOUS

\* ... and over two parts: what the first leaves suffices for the second.
LEMMA TwoHaveSteps ==
    ASSUME NEW e, NEW sz, Tree(e, sz), NEW i \in 1..Len(e), TwoUnder(e, i, sz),
           NEW n \in Nat, n >= sz[i], NEW j, j = i - e[i][3][1]
    PROVE  /\ n > 0 /\ n - 1 \in Nat /\ i - 1 \in 1..(i-1) /\ i - 1 \in 1..Len(e)
           /\ j \in 1..(i-1) /\ j \in 1..Len(e)
           /\ n - 1 >= sz[j]
           /\ \A m \in Nat : m + sz[j] >= n - 1 =>
                /\ m >= sz[i-1] /\ m + sz[i] >= n
                /\ \A k \in Nat : k + sz[i-1] >= m => k + sz[i] >= n
<1>1. PICK d : d = e[i][3][1]
  OBVIOUS
<1>2. /\ i \in Nat /\ Len(e) \in Nat /\ d \in Nat /\ d > 1 /\ d < i
      /\ sz[i] = sz[i-d] + sz[i-1] + 1
  BY <1>1, PartsBefore DEF TwoUnder
<1>3. /\ i - 1 \in 1..(i-1) /\ i - 1 \in 1..Len(e)
      /\ j \in 1..(i-1) /\ j \in 1..Len(e) /\ j = i - d
  <2>1. j = i - d
    BY <1>1
  <2>2. i - 1 \in 1..(i-1) /\ i - 1 \in 1..Len(e) /\ i - d \in 1..(i-1) /\ i - d \in 1..Len(e)
    BY <1>2, PlaceArithmetic
  <2> QED
    BY <2>1, <2>2, Zenon
<1>4. sz[i-1] \in Nat /\ sz[j] \in Nat /\ sz[i] = sz[j] + sz[i-1] + 1
  BY <1>2, <1>3, SizeType
<1>5. PICK a, b, c : a = sz[j] /\ b = sz[i-1] /\ c = sz[i]
  OBVIOUS
<1>6. /\ n > 0 /\ n - 1 \in Nat /\ n - 1 >= a
      /\ \A m \in Nat : m + a >= n - 1 =>
           /\ m >= b /\ m + c >= n
           /\ \A k \in Nat : k + b >= m => k + c >= n
  <2>1. a \in Nat /\ b \in Nat /\ c = a + b + 1 /\ n >= c
    BY <1>4, <1>5, Zenon
  <2> QED
    BY <2>1, StepArithmetic
<1> QED
  BY <1>3, <1>5, <1>6, Zenon

\* A node over two parts that answer, other than `and` and `or`, answers.
LEMMA TwoAnswer ==
    ASSUME NEW e, NEW sz, Tree(e, sz), NEW ctx, NEW i \in 1..Len(e), TwoUnder(e, i, sz),
           NEW n \in Nat, n > 0, NEW j, j = i - e[i][3][1], e[i][1] \notin {"and", "or"},
           ~(e[i][1] = "call" /\ e[i][2] = "secret_ref"),
           NEW v, NEW m, Yields(e, ctx, j, n - 1, v, m), ~IsErr(v),
           NEW u, NEW k, Yields(e, ctx, i - 1, m, u, k), ~IsErr(u)
    PROVE  Yields(e, ctx, i, n, ValueOf(e[i], <<v, u>>), k)
<1>1. Len(e[i][3]) = 2 /\ e[i][3][2] = 1 /\ e[i][1] \notin {"lit", "path"}
  BY DEF TwoUnder, BinOps, Comparisons
<1>2. PICK parts, b : parts = AtParts(e, i, EvalExpr(e, ctx)) /\ b = n - 1
  OBVIOUS
<1>3. /\ Len(parts) = 2 /\ parts[1] = EvalExpr(e, ctx)[j]
      /\ parts[2] = EvalExpr(e, ctx)[i - 1]
  BY <1>2, TwoParts
<1>4. parts[1][b] = <<v, m>> /\ parts[2][m] = <<u, k>> /\ k \in Nat
  BY <1>2, <1>3, Zenon DEF Yields
<1>5. EvalStrict(e[i], parts, b) = <<ValueOf(e[i], <<v, u>>), k>>
  BY <1>3, <1>4, StrictTwo
<1>6. EvalExpr(e, ctx)[i][n] = EvalStrict(e[i], parts, n - 1)
  BY <1>1, <1>2, EvalOther
<1> QED
  BY <1>2, <1>4, <1>5, <1>6 DEF Yields

\* (3) A literal, and a node over parts that have values of their types.
LEMMA TypedLeaf ==
    ASSUME NEW e, NEW sz, Tree(e, sz), NEW ctx, NEW i \in 1..Len(e),
           ~IsErr(InferExpr(e)[i]), ~Loose(e[i]), e[i] \in Leaves, sz[i] = 1
    PROVE  Typed(e, ctx, i, sz)
<1> SUFFICES ASSUME NEW n \in Nat, n >= sz[i]
             PROVE  \E v, m : /\ Yields(e, ctx, i, n, v, m) /\ m + sz[i] >= n
                              /\ v[1] = Ty(e, i)[1]
  BY DEF Typed
<1>1. e[i][1] = "lit"
  BY LeafShape DEF Loose
<1>2. n > 0 /\ n - 1 \in Nat /\ (n - 1) + sz[i] >= n
  OBVIOUS
<1>3. Yields(e, ctx, i, n, e[i][2], n - 1)
  BY <1>1, <1>2, EvalLit DEF Yields
<1>4. PICK s : Ty(e, i) = TypeOf(e[i], s)
  BY InferGood, Zenon DEF Ty
<1>5. Ty(e, i) = <<e[i][2][1]>>
  BY <1>1, <1>4 DEF TypeOf
<1>6. e[i][2][1] = Ty(e, i)[1]
  BY <1>5
<1> QED
  BY <1>2, <1>3, <1>6, Zenon

\* ... over one part.
LEMMA TypedOne ==
    ASSUME NEW e, NEW sz, Tree(e, sz), NEW ctx, NEW i \in 1..Len(e),
           ~IsErr(InferExpr(e)[i]), ~Loose(e[i]), OneUnder(e, i, sz),
           Typed(e, ctx, i - 1, sz), Ty(e, i-1) \in Ground, ~Loose(e[i-1])
    PROVE  Typed(e, ctx, i, sz)
<1> SUFFICES ASSUME NEW n \in Nat, n >= sz[i]
             PROVE  \E v, m : /\ Yields(e, ctx, i, n, v, m) /\ m + sz[i] >= n
                              /\ v[1] = Ty(e, i)[1]
  BY DEF Typed
<1>1. /\ n > 0 /\ n - 1 \in Nat /\ i - 1 \in 1..(i-1) /\ i - 1 \in 1..Len(e)
      /\ n - 1 >= sz[i-1]
      /\ \A m \in Nat : m + sz[i-1] >= n - 1 => m + sz[i] >= n
  BY OneHasSteps
<1>2. PICK v, m : /\ Yields(e, ctx, i - 1, n - 1, v, m) /\ m + sz[i-1] >= n - 1
                  /\ v[1] = Ty(e, i-1)[1]
  BY <1>1 DEF Typed
<1>3. Ty(e, i-1) \in Ground
  OBVIOUS
<1>4. v[1] \in {"Bool", "Int", "Str"} /\ ~IsErr(v)
  BY <1>2, <1>3 DEF Ground, IsErr
<1>5. e[i-1][1] # "path"
  BY <1>1 DEF Loose
<1>6. Yields(e, ctx, i, n, ValueOf(e[i], <<v>>), m) /\ m + sz[i] >= n
  <2>1. EvalExpr(e, ctx)[i-1][n-1] = <<v, m>> /\ m \in Nat
    BY <1>2 DEF Yields
  <2>2. EvalExpr(e, ctx)[i][n] = <<ValueOf(e[i], <<v>>), m>>
    BY <1>1, <1>4, <1>5, <2>1, EvalOne, SMTT(40)
  <2> QED
    BY <1>1, <1>2, <2>1, <2>2 DEF Yields
<1>7. ValueOf(e[i], <<v>>)[1] = Ty(e, i)[1]
  <2>1. CASE e[i][1] = "not"
    <3>1. Ty(e, i) = <<"Bool">>
      BY <1>3, <2>1, UnaryTypes
    <3>2. ValueOf(e[i], <<v>>)[1] = "Bool"
      BY <2>1 DEF ValueOf, Bool, Comparisons
    <3> QED
      BY <3>1, <3>2
  <2>2. CASE e[i][1] = "call"
    <3>1. PICK f, sig : f = e[i][2] /\ sig = BuiltinSignature(f)
      OBVIOUS
    <3>2. sig # <<>> /\ f \notin {"len", "timestamp"}
      BY <2>2, <3>1 DEF Loose
    <3>3. Len(sig[2]) = 1 /\ Ty(e, i) = sig[1] /\ (sig[2][1] \in Ground => Ty(e, i-1) = sig[2][1])
      BY <1>3, <2>2, <3>1, <3>2, UnaryTypes
    <3>4. CASE f = "secret_ref"
      <4>1. Ty(e, i)[1] = "Bool"
        BY <3>1, <3>3, <3>4 DEF BuiltinSignature, BinaryBuiltins
      <4>2. ValueOf(e[i], <<v>>)[1] = "Bool"
        BY <2>2, <3>1, <3>4 DEF ValueOf, Bool, Comparisons
      <4> QED
        BY <4>1, <4>2
    <3>5. CASE f \in {"lower", "upper", "url_host", "sha256"}
      <4>1. sig = <<Str, <<Str>>>>
        BY <3>1, <3>5 DEF BuiltinSignature, BinaryBuiltins
      <4>2. sig[2][1] \in Ground /\ sig[2][1] = <<"Str">> /\ sig[1] = <<"Str">>
        BY <4>1 DEF Ground, Str
      <4>3. v[1] = "Str" /\ Ty(e, i)[1] = "Str"
        BY <1>2, <3>3, <4>2
      <4>4. ValueOf(e[i], <<v>>) = Apply(f, <<v>>)
        BY <2>2, <3>1, <3>5 DEF ValueOf, Comparisons
      <4> QED
        BY <3>5, <4>3, <4>4, ApplyStr
    <3>6. f \notin BinaryBuiltins
      BY <3>1, <3>3 DEF BuiltinSignature, BinaryBuiltins
    <3> QED
      BY <3>1, <3>2, <3>4, <3>5, <3>6 DEF BuiltinSignature
  <2> QED
    BY <2>1, <2>2 DEF OneUnder
<1> QED
  BY <1>6, <1>7, Zenon

\* ... over two parts.
LEMMA TypedTwo ==
    ASSUME NEW e, NEW sz, Tree(e, sz), NEW ctx, NEW i \in 1..Len(e),
           ~IsErr(InferExpr(e)[i]), ~Loose(e[i]), TwoUnder(e, i, sz),
           Typed(e, ctx, i - e[i][3][1], sz), Ty(e, i - e[i][3][1]) \in Ground,
           Typed(e, ctx, i - 1, sz), Ty(e, i-1) \in Ground
    PROVE  Typed(e, ctx, i, sz)
<1> SUFFICES ASSUME NEW n \in Nat, n >= sz[i]
             PROVE  \E v, m : /\ Yields(e, ctx, i, n, v, m) /\ m + sz[i] >= n
                              /\ v[1] = Ty(e, i)[1]
  BY DEF Typed
<1>0. PICK j : j = i - e[i][3][1]
  OBVIOUS
<1>1. /\ n > 0 /\ n - 1 \in Nat /\ i - 1 \in 1..(i-1) /\ i - 1 \in 1..Len(e)
      /\ j \in 1..(i-1) /\ j \in 1..Len(e)
      /\ n - 1 >= sz[j]
      /\ \A m \in Nat : m + sz[j] >= n - 1 =>
           /\ m >= sz[i-1] /\ m + sz[i] >= n
           /\ \A k \in Nat : k + sz[i-1] >= m => k + sz[i] >= n
  BY <1>0, TwoHaveSteps
<1>2. PICK v, m : /\ Yields(e, ctx, j, n - 1, v, m) /\ m + sz[j] >= n - 1
                  /\ v[1] = Ty(e, j)[1]
  BY <1>0, <1>1 DEF Typed
<1>3. m \in Nat /\ m >= sz[i-1] /\ m + sz[i] >= n
  BY <1>1, <1>2 DEF Yields
<1>4. PICK u, k : /\ Yields(e, ctx, i - 1, m, u, k) /\ k + sz[i-1] >= m
                  /\ u[1] = Ty(e, i-1)[1]
  BY <1>1, <1>3 DEF Typed
<1>5. k \in Nat /\ k + sz[i] >= n
  BY <1>1, <1>2, <1>3, <1>4 DEF Yields
<1>6. Ty(e, j) \in Ground /\ Ty(e, i-1) \in Ground
  BY <1>0
<1>7. v[1] \in {"Bool", "Int", "Str"} /\ ~IsErr(v) /\ u[1] \in {"Bool", "Int", "Str"} /\ ~IsErr(u)
  BY <1>2, <1>4, <1>6 DEF Ground, IsErr
<1>8. PICK ev : ev = EvalExpr(e, ctx)
  OBVIOUS
<1>9. ev[j][n-1] = <<v, m>> /\ ev[i-1][m] = <<u, k>>
  BY <1>2, <1>4, <1>8 DEF Yields
<1>10. CASE e[i][1] \in {"and", "or"}
  <2>1. Ty(e, i)[1] = "Bool"
    BY <1>0, <1>6, <1>10, BinaryTypes
  <2>2. ev[i][n] = EvalLogic(e[i][1], ev[j], ev[i-1], n - 1)
    <3>1. EvalExpr(e, ctx)[i][n] =
              EvalLogic(e[i][1], EvalExpr(e, ctx)[j], EvalExpr(e, ctx)[i-1], n - 1)
      <4>1. n > 0
        BY <1>1
      <4> QED
        BY <1>0, <1>10, <4>1, EvalLogical, SMTT(90)
    <3> QED
      BY <1>8, <3>1, Zenon
  <2>3. PICK x, y : x = Bool(e[i][1] = "or") /\ y = Bool(Truthy(u))
    OBVIOUS
  <2>4. ev[i][n] = <<x, m>> \/ ev[i][n] = <<y, k>>
    BY <1>7, <1>9, <1>10, <2>2, <2>3, LogicValues
  <2>5. x[1] = "Bool" /\ y[1] = "Bool"
    BY <2>3 DEF Bool
  <2>6. Yields(e, ctx, i, n, x, m) \/ Yields(e, ctx, i, n, y, k)
    BY <1>3, <1>5, <1>8, <2>4 DEF Yields
  <2> QED
    BY <1>3, <1>5, <2>1, <2>5, <2>6
<1>11. CASE e[i][1] \notin {"and", "or"}
  <2>1. ~(e[i][1] = "call" /\ e[i][2] = "secret_ref")
    <3>1. ASSUME e[i][1] = "call", e[i][2] = "secret_ref" PROVE FALSE
      <4>1. BuiltinSignature("secret_ref") = <<<<"Bool">>, <<<<"Unknown">>>>>>
        BY DEF BuiltinSignature, BinaryBuiltins
      <4>2. BuiltinSignature(e[i][2]) # <<>> /\ Len(BuiltinSignature(e[i][2])[2]) = 1
        BY <3>1, <4>1
      <4>3. Len(BuiltinSignature(e[i][2])[2]) = 2
        BY <1>0, <1>6, <3>1, <4>2, BinaryTypes
      <4>4. 1 = 2
        BY <4>2, <4>3, Zenon
      <4> QED
        BY <4>4
    <3> QED
      BY <3>1
  <2>2. Yields(e, ctx, i, n, ValueOf(e[i], <<v, u>>), k)
    BY <1>0, <1>1, <1>2, <1>4, <1>7, <1>11, <2>1, TwoAnswer
  <2>3. ValueOf(e[i], <<v, u>>)[1] = Ty(e, i)[1]
    <3>0. e[i][1] \in Comparisons \cup {"call"}
      BY <1>11 DEF TwoUnder, BinOps, Loose
    <3>1. CASE e[i][1] \in {"==", "!="}
      <4>1. Ty(e, i)[1] = "Bool"
        BY <1>0, <1>6, <3>1, BinaryTypes
      <4>2. ValueOf(e[i], <<v, u>>)[1] = "Bool"
        BY <3>1 DEF ValueOf, Bool, Comparisons
      <4> QED
        BY <4>1, <4>2
    <3>2. CASE e[i][1] \in Comparisons \ {"==", "!="}
      <4>1. Ty(e, i)[1] = "Bool" /\ v[1] = "Int" /\ u[1] = "Int"
        BY <1>0, <1>2, <1>4, <1>6, <3>2, BinaryTypes
      <4>2. ValueOf(e[i], <<v, u>>) = CmpValues(e[i][1], v, u)
        BY <3>2 DEF ValueOf, Comparisons
      <4> QED
        BY <4>1, <4>2, CmpInts
    <3>3. CASE e[i][1] = "call"
      <4>1. PICK f, sig : f = e[i][2] /\ sig = BuiltinSignature(f)
        OBVIOUS
      <4>2. sig # <<>>
        BY <3>3, <4>1 DEF Loose
      <4>3. /\ Len(sig[2]) = 2 /\ Ty(e, i) = sig[1]
            /\ sig[2][1] \in Ground => Ty(e, j) = sig[2][1]
            /\ sig[2][2] \in Ground => Ty(e, i-1) = sig[2][2]
        BY <1>0, <1>6, <3>3, <4>1, <4>2, BinaryTypes
      <4>4. f \in BinaryBuiltins
        BY <4>1, <4>2, <4>3 DEF BuiltinSignature
      <4>5. sig = <<<<"Bool">>, <<Str, Str>>>>
        BY <4>1, <4>4 DEF BuiltinSignature, BinaryBuiltins
      <4>6. /\ sig[2][1] \in Ground /\ sig[2][2] \in Ground /\ sig[1][1] = "Bool"
            /\ sig[2][1] = <<"Str">> /\ sig[2][2] = <<"Str">>
        BY <4>5 DEF Ground, Str
      <4>7. v[1] = "Str" /\ u[1] = "Str" /\ Ty(e, i)[1] = "Bool"
        BY <1>2, <1>4, <4>3, <4>6
      <4>8. ValueOf(e[i], <<v, u>>) = Apply(f, <<v, u>>)
        BY <2>1, <3>3, <4>1 DEF ValueOf, Comparisons
      <4> QED
        BY <4>4, <4>7, <4>8, ApplyStrs
    <3> QED
      BY <3>0, <3>1, <3>2, <3>3
  <2> QED
    BY <1>5, <2>2, <2>3, Zenon
<1> QED
  BY <1>10, <1>11

\* A node of any kind.
LEMMA TypedNode ==
    ASSUME NEW e, NEW sz, Tree(e, sz), NEW ctx,
           \A x \in 1..Len(e) : ~IsErr(InferExpr(e)[x]) /\ ~Loose(e[x]),
           NEW i \in 1..Len(e), \A x \in 1..(i-1) : Typed(e, ctx, x, sz)
    PROVE  Typed(e, ctx, i, sz)
<1>1. WellPlaced(e, i, sz) /\ i \in Nat /\ Len(e) \in Nat
  BY DEF Tree
<1>2. \A x \in 1..Len(e) : Ty(e, x) \in Ground
  BY GroundType
<1>3. CASE e[i] \in Leaves /\ sz[i] = 1
  BY <1>3, TypedLeaf
<1>4. CASE OneUnder(e, i, sz)
  <2>1. i - 1 \in 1..(i-1) /\ i - 1 \in 1..Len(e)
    BY <1>1, <1>4 DEF OneUnder
  <2>2. Typed(e, ctx, i - 1, sz) /\ Ty(e, i-1) \in Ground /\ ~Loose(e[i-1])
    BY <1>2, <2>1
  <2> QED
    BY <1>4, <2>2, TypedOne
<1>5. CASE TwoUnder(e, i, sz)
  <2>1. PICK d : d = e[i][3][1]
    OBVIOUS
  <2>2. d \in Nat /\ d > 1 /\ d < i
    BY <1>5, <2>1 DEF TwoUnder
  <2>3. /\ i - 1 \in 1..(i-1) /\ i - 1 \in 1..Len(e)
        /\ i - d \in 1..(i-1) /\ i - d \in 1..Len(e)
    BY <1>1, <2>2, PlaceArithmetic
  <2>4. /\ Typed(e, ctx, i - e[i][3][1], sz) /\ Ty(e, i - e[i][3][1]) \in Ground
        /\ Typed(e, ctx, i - 1, sz) /\ Ty(e, i-1) \in Ground
    BY <1>2, <2>1, <2>3
  <2> QED
    BY <1>5, <2>4, TypedTwo
<1> QED
  BY <1>1, <1>3, <1>4, <1>5 DEF WellPlaced

\* Every node, from its parts.
LEMMA TypedRuns ==
    ASSUME NEW e, NEW sz, Tree(e, sz), NEW ctx,
           \A x \in 1..Len(e) : ~IsErr(InferExpr(e)[x]) /\ ~Loose(e[x]), NEW i \in 1..Len(e)
    PROVE  Typed(e, ctx, i, sz)
<1> DEFINE P == {n \in Nat : \A x \in 1..Len(e) : x <= n => Typed(e, ctx, x, sz)}
<1>0. Len(e) \in Nat /\ i \in Nat
  BY DEF Tree
<1>1. 0 \in P
  BY <1>0
<1>2. ASSUME NEW n \in P PROVE n + 1 \in P
  <2>1. n \in Nat /\ \A x \in 1..Len(e) : x <= n => Typed(e, ctx, x, sz)
    OBVIOUS
  <2>2. ASSUME NEW x \in 1..Len(e), x <= n + 1 PROVE Typed(e, ctx, x, sz)
    <3>1. \A y \in 1..(x-1) : y \in 1..Len(e) /\ y <= n
      BY <1>0, <2>1, <2>2
    <3>2. \A y \in 1..(x-1) : Typed(e, ctx, y, sz)
      BY <2>1, <3>1
    <3> QED
      BY <3>2, TypedNode
  <2> QED
    BY <2>1, <2>2
<1> HIDE DEF P
<1>3. P = Nat
  <2>1. P \in SUBSET Nat
    BY DEF P
  <2> QED
    BY <1>1, <1>2, <2>1, NatInd
<1> QED
  BY <1>0, <1>3 DEF P

-----------------------------------------------------------------------------
\* A remainder.
LEMMA SmallMod ==
    ASSUME NEW a \in Nat, NEW b \in Nat, a < b
    PROVE  a % b = a
  BY Z3

\* Half of the range added to a number below it stays in the range.
LEMMA HalfFits ==
    ASSUME NEW w \in Nat
    PROVE  w \div 2 \in Nat /\ \A n \in Nat : n < w \div 2 => n < w /\ n + w \div 2 < w
  BY Z3

\* An integer literal below half of the range is itself as an i32, and the
\* signed comparisons order such literals as integers.
LEMMA FittingInts ==
    ASSUME NEW n \in Nat, n < WasmInts \div 2
    PROVE  AsI32(n) = n /\ Signed(n) = n + WasmInts \div 2
<1>1. WasmInts \in Nat
  BY DictumAssumption
<1>2. PICK h : h = WasmInts \div 2
  OBVIOUS
<1>3. h \in Nat /\ n < WasmInts /\ n + h < WasmInts
  BY <1>1, <1>2, HalfFits
<1>4. n + h \in Nat
  BY <1>3
<1>5. n % WasmInts = n /\ (n + h) % WasmInts = n + h
  BY <1>1, <1>3, <1>4, SmallMod
<1> QED
  BY <1>2, <1>5 DEF AsI32, Signed

\* f is the recursion of i32.and.
IsBits(f, x) ==
    f = [n \in 0..x |-> [m \in Nat |->
            IF n = 0 THEN 0 ELSE 2 * f[n \div 2][m \div 2] + (n % 2) * (m % 2)]]

\* The bits of a flag.
LEMMA HalfOfOne ==
    /\ 1 \div 2 = 0 /\ 1 % 2 = 1 /\ 0 % 2 = 0
    /\ \A m \in Nat : m \div 2 \in Nat /\ m % 2 \in Nat /\ 2 * 0 + 1 * (m % 2) = m % 2
  BY Z3

\* i32.and of two flags.
LEMMA AndOfFlags ==
    ASSUME NEW x \in {0, 1}, NEW y \in {0, 1}
    PROVE  I32And(x, y) = IF x = 1 /\ y = 1 THEN 1 ELSE 0
<1>1. PICK g : g = [n \in 0..x |-> [m \in Nat |-> IF n = 0 THEN 0 ELSE m % 2]]
  OBVIOUS
<1>2. g[0] = [m \in Nat |-> 0] /\ 0 \in 0..x
  BY <1>1
<1>3. ASSUME NEW n \in 0..x, NEW m \in Nat
      PROVE  g[n][m] = IF n = 0 THEN 0 ELSE 2 * g[n \div 2][m \div 2] + (n % 2) * (m % 2)
  <2>1. CASE n = 0
    BY <1>2, <2>1
  <2>2. CASE n = 1
    <3>1. g[1][m] = m % 2
      BY <1>1, <1>3, <2>2
    <3>2. g[n \div 2][m \div 2] = 0
      BY <1>2, <2>2, HalfOfOne
    <3>3. 2 * g[n \div 2][m \div 2] + (n % 2) * (m % 2) = m % 2
      BY <2>2, <3>2, HalfOfOne
    <3> QED
      BY <2>2, <3>1, <3>3
  <2> QED
    BY <2>1, <2>2
<1>4. g = [n \in 0..x |-> [m \in Nat |->
             IF n = 0 THEN 0 ELSE 2 * g[n \div 2][m \div 2] + (n % 2) * (m % 2)]]
  <2>1. ASSUME NEW n \in 0..x
        PROVE  g[n] = [m \in Nat |->
                 IF n = 0 THEN 0 ELSE 2 * g[n \div 2][m \div 2] + (n % 2) * (m % 2)]
    <3>1. g[n] = [m \in Nat |-> g[n][m]]
      BY <1>1
    <3> QED
      BY <1>3, <3>1
  <2> QED
    BY <1>1, <2>1
<1>5. IsBits(g, x)
  BY <1>4, Zenon DEF IsBits
<1>6. PICK f : IsBits(f, x) /\ I32And(x, y) = f[x][y]
  <2>1. \E f : IsBits(f, x)
    BY <1>5
  <2> QED
    BY <2>1 DEF IsBits, I32And
<1>7. \A n \in 0..x : \A m \in Nat :
        f[n][m] = IF n = 0 THEN 0 ELSE 2 * f[n \div 2][m \div 2] + (n % 2) * (m % 2)
  BY <1>6 DEF IsBits
<1>8. \A m \in Nat : f[0][m] = 0
  BY <1>7
<1>9. CASE x = 0
  BY <1>6, <1>8, <1>9
<1>10. CASE x = 1
  <2>1. f[1][y] = 2 * f[1 \div 2][y \div 2] + (1 % 2) * (y % 2)
    BY <1>7, <1>10
  <2>2. f[1 \div 2][y \div 2] = 0
    BY <1>8, HalfOfOne
  <2>3. f[1][y] = y % 2
    BY <2>1, <2>2, HalfOfOne
  <2>4. y % 2 = y
    BY HalfOfOne
  <2> QED
    BY <1>6, <1>10, <2>3, <2>4
<1> QED
  BY <1>9, <1>10

-----------------------------------------------------------------------------
\* The i32 that code leaves for a value.
Rep(c, v) ==
    \/ \E b \in BOOLEAN : v = Bool(b) /\ c = Flag(b)
    \/ \E n \in Nat : n < WasmInts \div 2 /\ v = <<"Int", n>> /\ c = <<"I32", n>>

\* Such a value is a boolean or an integer.
LEMMA RepKinds ==
    ASSUME NEW c, NEW v, Rep(c, v)
    PROVE  \/ v[1] = "Bool" /\ \E b \in BOOLEAN : v = Bool(b) /\ c = Flag(b)
           \/ v[1] = "Int" /\ \E n \in Nat :
                n < WasmInts \div 2 /\ v = <<"Int", n>> /\ c = <<"I32", n>>
<1>1. ASSUME NEW b, v = Bool(b) PROVE v[1] = "Bool"
  BY <1>1 DEF Bool
<1>2. ASSUME NEW n, v = <<"Int", n>> PROVE v[1] = "Int"
  BY <1>2
<1> QED
  BY <1>1, <1>2, Zenon DEF Rep

\* i32.eqz is `not`.
LEMMA RepNot ==
    ASSUME NEW c, NEW v, Rep(c, v), v[1] = "Bool"
    PROVE  Rep(Flag(c[2] = 0), Bool(~Truthy(v)))
<1>1. PICK b \in BOOLEAN : v = Bool(b) /\ c = Flag(b)
  BY RepKinds
<1>2. Truthy(v) = b
  BY <1>1 DEF Truthy, Bool
<1>3. PICK a \in BOOLEAN : a = ~b
  OBVIOUS
<1>4. Bool(~Truthy(v)) = Bool(a)
  BY <1>2, <1>3
<1>5. Flag(c[2] = 0) = Flag(a)
  BY <1>1, <1>3 DEF Flag
<1> QED
  BY <1>4, <1>5 DEF Rep

\* i32.eq is values_eq on two values of one type.
LEMMA RepEq ==
    ASSUME NEW c, NEW v, NEW d, NEW u, Rep(c, v), Rep(d, u), v[1] = u[1]
    PROVE  (c[2] = d[2]) <=> ValuesEq(v, u)
<1>1. CASE v[1] = "Bool"
  <2>1. PICK a \in BOOLEAN, b \in BOOLEAN :
            v = Bool(a) /\ c = Flag(a) /\ u = Bool(b) /\ d = Flag(b)
    BY <1>1, RepKinds
  <2>2. ValuesEq(v, u) <=> v = u
    BY <1>1 DEF ValuesEq, Numeric
  <2>3. (v = u) <=> (a <=> b)
    BY <2>1 DEF Bool
  <2>4. (c[2] = d[2]) <=> (a <=> b)
    BY <2>1 DEF Flag
  <2> QED
    BY <2>2, <2>3, <2>4
<1>2. CASE v[1] = "Int"
  <2>1. PICK a \in Nat : v = <<"Int", a>> /\ c = <<"I32", a>>
    BY <1>2, RepKinds
  <2>3. PICK b \in Nat : u = <<"Int", b>> /\ d = <<"I32", b>>
    BY <1>2, RepKinds
  <2>2. ValuesEq(v, u) <=> 2 * a = 2 * b
    BY <2>1, <2>3 DEF ValuesEq, Numeric, Halves
  <2> QED
    BY <2>1, <2>2, <2>3
<1> QED
  BY <1>1, <1>2, RepKinds

\* The code of `==` and `!=`.
LEMMA RepEqCode ==
    ASSUME NEW c, NEW v, NEW d, NEW u, Rep(c, v), Rep(d, u), v[1] = u[1],
           NEW node, node[1] \in {"==", "!="}
    PROVE  Rep(BinaryCode(node[1], c[2], d[2]), ValueOf(node, <<v, u>>))
<1>1. PICK b \in BOOLEAN : b <=> (c[2] = d[2])
  OBVIOUS
<1>2. ValuesEq(v, u) <=> b
  BY <1>1, RepEq
<1>0. PICK args : args = <<v, u>>
  OBVIOUS
<1>3. args = <<v, u>> /\ args[1] = v /\ args[2] = u
  BY <1>0
<1>4. CASE node[1] = "=="
  <2>1. BinaryCode(node[1], c[2], d[2]) = Flag(b)
    BY <1>1, <1>4 DEF BinaryCode, Flag
  <2>2. ValueOf(node, args) = Bool(ValuesEq(args[1], args[2]) = TRUE)
    BY <1>4 DEF ValueOf
  <2>3. ValueOf(node, args) = Bool(b)
    BY <1>2, <1>3, <2>2
  <2> QED
    BY <1>3, <2>1, <2>3 DEF Rep
<1>5. CASE node[1] = "!="
  <2>1. BinaryCode(node[1], c[2], d[2]) = Flag(~b)
    BY <1>1, <1>5 DEF BinaryCode, Flag
  <2>2. ValueOf(node, args) = Bool(ValuesEq(args[1], args[2]) = FALSE)
    BY <1>5 DEF ValueOf
  <2>3. ValueOf(node, args) = Bool(~b)
    BY <1>2, <1>3, <2>2
  <2> QED
    BY <1>3, <2>1, <2>3 DEF Rep
<1> QED
  BY <1>4, <1>5

\* The signed comparisons order fitting integers as cmp_values does.
LEMMA RepLess ==
    ASSUME NEW c, NEW v, NEW d, NEW u, Rep(c, v), Rep(d, u), v[1] = "Int", u[1] = "Int"
    PROVE  /\ (Signed(c[2]) < Signed(d[2])) <=> Less(v, u)
           /\ (Signed(c[2]) <= Signed(d[2])) <=> ~Less(u, v)
           /\ Numeric(v) /\ Numeric(u) /\ Less(v, u) \in BOOLEAN /\ Less(u, v) \in BOOLEAN
<1>1. PICK a \in Nat : v = <<"Int", a>> /\ c = <<"I32", a>> /\ a < WasmInts \div 2
  BY RepKinds
<1>2. PICK b \in Nat : u = <<"Int", b>> /\ d = <<"I32", b>> /\ b < WasmInts \div 2
  BY RepKinds
<1>3. PICK h : h = WasmInts \div 2
  OBVIOUS
<1>4. h \in Nat
  BY <1>3, HalfFits, DictumAssumption
<1>5. Signed(c[2]) = a + h /\ Signed(d[2]) = b + h
  <2>1. Signed(a) = a + h /\ Signed(b) = b + h
    BY <1>1, <1>2, <1>3, FittingInts
  <2>2. c[2] = a /\ d[2] = b
    BY <1>1, <1>2
  <2> QED
    BY <2>1, <2>2
<1>6. Numeric(v) /\ Numeric(u) /\ Halves(v) = 2 * a /\ Halves(u) = 2 * b
  BY <1>1, <1>2 DEF Numeric, Halves
<1>7. (Less(v, u) <=> 2 * a < 2 * b) /\ (Less(u, v) <=> 2 * b < 2 * a)
  BY <1>6 DEF Less
<1>8. Less(v, u) \in BOOLEAN /\ Less(u, v) \in BOOLEAN
  BY <1>6 DEF Less
<1> QED
  BY <1>4, <1>5, <1>6, <1>7, <1>8

\* The code of the orderings.
LEMMA RepCmpCode ==
    ASSUME NEW c, NEW v, NEW d, NEW u, Rep(c, v), Rep(d, u), v[1] = "Int", u[1] = "Int",
           NEW node, node[1] \in Comparisons \ {"==", "!="}
    PROVE  Rep(BinaryCode(node[1], c[2], d[2]), ValueOf(node, <<v, u>>))
<1>1. PICK x, y : x = Signed(c[2]) /\ y = Signed(d[2])
  OBVIOUS
<1>2. /\ ((x < y) <=> Less(v, u)) /\ ((y < x) <=> Less(u, v))
      /\ ((x <= y) <=> ~Less(u, v)) /\ ((y <= x) <=> ~Less(v, u))
      /\ Numeric(v) /\ Numeric(u) /\ Less(v, u) \in BOOLEAN /\ Less(u, v) \in BOOLEAN
  BY <1>1, RepLess
<1>3. PICK args : args = <<v, u>>
  OBVIOUS
<1>4. args[1] = v /\ args[2] = u
  BY <1>3
<1>5. ValueOf(node, args) = CmpValues(node[1], v, u)
  BY <1>4 DEF ValueOf, Comparisons
<1>6. ASSUME NEW b \in BOOLEAN, BinaryCode(node[1], c[2], d[2]) = Flag(b),
             CmpValues(node[1], v, u) = Bool(b)
      PROVE  Rep(BinaryCode(node[1], c[2], d[2]), ValueOf(node, <<v, u>>))
  BY <1>3, <1>5, <1>6, Zenon DEF Rep
<1>7. CASE node[1] = "<"
  <2>1. PICK b \in BOOLEAN : b <=> (x < y)
    OBVIOUS
  <2>2. BinaryCode(node[1], c[2], d[2]) = Flag(b)
    BY <1>1, <1>7, <2>1 DEF BinaryCode, Flag
  <2>3. CmpValues(node[1], v, u) = Bool(b)
    <3>1. CmpValues(node[1], v, u) = Bool(Less(v, u))
      BY <1>2, <1>7 DEF CmpValues
    <3> QED
      BY <1>2, <2>1, <3>1 DEF Bool
  <2> QED
    BY <1>6, <2>2, <2>3
<1>8. CASE node[1] = ">"
  <2>1. PICK b \in BOOLEAN : b <=> (y < x)
    OBVIOUS
  <2>2. BinaryCode(node[1], c[2], d[2]) = Flag(b)
    BY <1>1, <1>8, <2>1 DEF BinaryCode, Flag
  <2>3. CmpValues(node[1], v, u) = Bool(b)
    <3>1. CmpValues(node[1], v, u) = Bool(Less(u, v))
      BY <1>2, <1>8 DEF CmpValues
    <3> QED
      BY <1>2, <2>1, <3>1 DEF Bool
  <2> QED
    BY <1>6, <2>2, <2>3
<1>9. CASE node[1] = "<="
  <2>1. PICK b \in BOOLEAN : b <=> (x <= y)
    OBVIOUS
  <2>2. BinaryCode(node[1], c[2], d[2]) = Flag(b)
    BY <1>1, <1>9, <2>1 DEF BinaryCode, Flag
  <2>3. CmpValues(node[1], v, u) = Bool(b)
    <3>1. CmpValues(node[1], v, u) = Bool(~Less(u, v))
      BY <1>2, <1>9 DEF CmpValues
    <3> QED
      BY <1>2, <2>1, <3>1 DEF Bool
  <2> QED
    BY <1>6, <2>2, <2>3
<1>10. CASE node[1] = ">="
  <2>1. PICK b \in BOOLEAN : b <=> (y <= x)
    OBVIOUS
  <2>2. BinaryCode(node[1], c[2], d[2]) = Flag(b)
    BY <1>1, <1>10, <2>1 DEF BinaryCode, Flag
  <2>3. CmpValues(node[1], v, u) = Bool(b)
    <3>1. CmpValues(node[1], v, u) = Bool(~Less(v, u))
      BY <1>2, <1>10 DEF CmpValues
    <3> QED
      BY <1>2, <2>1, <3>1 DEF Bool
  <2> QED
    BY <1>6, <2>2, <2>3
<1> QED
  BY <1>7, <1>8, <1>9, <1>10 DEF Comparisons

\* The short circuit, as a value.
LEMMA RepLogicCode ==
    ASSUME NEW c, NEW v, NEW d, NEW u, Rep(c, v), Rep(d, u), v[1] = "Bool", u[1] = "Bool",
           NEW op \in {"and", "or"}
    PROVE  Rep(BinaryCode(op, c[2], d[2]),
               IF Truthy(v) = (op = "or") THEN Bool(op = "or") ELSE Bool(Truthy(u)))
<1>1. PICK a \in BOOLEAN : v = Bool(a) /\ c = Flag(a)
  BY RepKinds
<1>2. PICK b \in BOOLEAN : u = Bool(b) /\ d = Flag(b)
  BY RepKinds
<1>3. PICK x, y : x = c[2] /\ y = d[2]
  OBVIOUS
<1>4. x = (IF a THEN 1 ELSE 0) /\ y = (IF b THEN 1 ELSE 0)
  BY <1>1, <1>2, <1>3 DEF Flag
<1>5. x \in {0, 1} /\ y \in {0, 1}
  BY <1>4
<1>6. I32And(x, y) = IF a /\ b THEN 1 ELSE 0
  BY <1>4, <1>5, AndOfFlags
<1>7. Truthy(v) = a /\ Truthy(u) = b
  BY <1>1, <1>2 DEF Truthy, Bool
<1>8. CASE op = "and"
  <2>1. BinaryCode(op, x, y) = <<"I32", I32And(x, y)>>
    BY <1>8 DEF BinaryCode
  <2>2. BinaryCode(op, x, y) = Flag(a /\ b)
    BY <1>6, <2>1 DEF Flag
  <2>3. (IF Truthy(v) = (op = "or") THEN Bool(op = "or") ELSE Bool(Truthy(u))) = Bool(a /\ b)
    BY <1>7, <1>8 DEF Bool
  <2>4. PICK z \in BOOLEAN : z = (a /\ b)
    OBVIOUS
  <2> QED
    BY <1>3, <2>2, <2>3, <2>4 DEF Rep
<1>9. CASE op = "or"
  <2>1. BinaryCode(op, x, y) = <<"I32", x + y - I32And(x, y)>>
    BY <1>9 DEF BinaryCode, I32Or
  <2>2. x + y - I32And(x, y) = IF a \/ b THEN 1 ELSE 0
    BY <1>4, <1>6
  <2>3. BinaryCode(op, x, y) = Flag(a \/ b)
    BY <2>1, <2>2 DEF Flag
  <2>4. (IF Truthy(v) = (op = "or") THEN Bool(op = "or") ELSE Bool(Truthy(u))) = Bool(a \/ b)
    BY <1>7, <1>9 DEF Bool
  <2>5. PICK z \in BOOLEAN : z = (a \/ b)
    OBVIOUS
  <2> QED
    BY <1>3, <2>3, <2>4, <2>5 DEF Rep
<1> QED
  BY <1>8, <1>9

-----------------------------------------------------------------------------
\* Where code is emitted for a node, and which.
LEMMA EmitLeaf ==
    ASSUME NEW e, NEW sz, Tree(e, sz), NEW i \in 1..Len(e), ~IsErr(EmitExpr(e)[i]),
           e[i] \in Leaves, Fits(e[i])
    PROVE  e[i][1] = "lit" /\ Rep(EmitExpr(e)[i], e[i][2]) /\ e[i][2][1] \in {"Bool", "Int"}
<1>1. PICK x, parts : x = e[i] /\ parts = AtParts(e, i, EmitExpr(e))
  OBVIOUS
<1>2. EmitExpr(e)[i] = EmitNode(x, parts)
  BY <1>1, EmitUnfold
<1>3. x \in Leaves /\ Fits(x)
  BY <1>1
<1>4. \/ x[1] = "path"
      \/ x[1] = "lit" /\ x[2] = <<x[2][1], x[2][2]>>
         /\ \/ x[2][1] = "Bool" /\ x[2][2] \in BOOLEAN
            \/ x[2][1] = "Int" /\ x[2][2] \in Nat
            \/ x[2][1] = "Str"
  BY <1>3, DictumAssumption, Zenon
<1>5. CASE x[1] = "path"
  BY <1>2, <1>5 DEF EmitNode, BinOps, Comparisons, IsErr, Err
<1>6. CASE x[1] = "lit" /\ x[2][1] = "Str"
  BY <1>2, <1>6 DEF EmitNode, BinOps, Comparisons, IsErr, Err
<1>7. CASE x[1] = "lit" /\ x[2][1] = "Bool"
  <2>1. x[2] = Bool(x[2][2]) /\ x[2][2] \in BOOLEAN
    BY <1>4, <1>7 DEF Bool
  <2>2. EmitNode(x, parts) = Flag(x[2][2])
    BY <1>7 DEF EmitNode, BinOps, Comparisons
  <2> QED
    BY <1>1, <1>2, <1>7, <2>1, <2>2 DEF Rep
<1>8. CASE x[1] = "lit" /\ x[2][1] = "Int"
  <2>1. PICK n \in Nat : n = x[2][2] /\ x[2] = <<"Int", n>>
    BY <1>4, <1>8
  <2>2. n < WasmInts \div 2
    BY <1>3, <1>8, <2>1 DEF Fits
  <2>3. EmitNode(x, parts) = <<"I32", AsI32(n)>>
    BY <1>8, <2>1 DEF EmitNode, BinOps, Comparisons
  <2>4. AsI32(n) = n
    BY <2>2, FittingInts
  <2>5. EmitNode(x, parts) = <<"I32", n>>
    BY <2>3, <2>4
  <2> QED
    BY <1>1, <1>2, <1>8, <2>1, <2>2, <2>5 DEF Rep
<1> QED
  BY <1>4, <1>5, <1>6, <1>7, <1>8

\* Over one part, code is emitted only for `not`.
LEMMA EmitOne ==
    ASSUME NEW e, NEW sz, Tree(e, sz), NEW i \in 1..Len(e), ~IsErr(EmitExpr(e)[i]),
           OneUnder(e, i, sz)
    PROVE  /\ e[i][1] = "not" /\ ~IsErr(EmitExpr(e)[i-1])
           /\ EmitExpr(e)[i] = Flag(EmitExpr(e)[i-1][2] = 0)
<1>1. PICK x, parts : x = e[i] /\ parts = AtParts(e, i, EmitExpr(e))
  OBVIOUS
<1>2. EmitExpr(e)[i] = EmitNode(x, parts)
  BY <1>1, EmitUnfold
<1>3. parts[1] = EmitExpr(e)[i-1]
  BY <1>1, OnePart
<1>4. x[1] \in {"not", "call"}
  BY <1>1 DEF OneUnder
<1>5. x[1] = "not"
  BY <1>2, <1>4 DEF EmitNode, BinOps, Comparisons, IsErr, Err
<1>6. EmitNode(x, parts) = IF IsErr(parts[1]) THEN parts[1] ELSE Flag(parts[1][2] = 0)
  BY <1>5 DEF EmitNode, BinOps, Comparisons
<1> QED
  BY <1>1, <1>2, <1>3, <1>5, <1>6

\* Over two parts, code is emitted only for the binary operators.
LEMMA EmitTwo ==
    ASSUME NEW e, NEW sz, Tree(e, sz), NEW i \in 1..Len(e), ~IsErr(EmitExpr(e)[i]),
           TwoUnder(e, i, sz), NEW j, j = i - e[i][3][1]
    PROVE  /\ e[i][1] \in BinOps /\ ~IsErr(EmitExpr(e)[j]) /\ ~IsErr(EmitExpr(e)[i-1])
           /\ EmitExpr(e)[i] = BinaryCode(e[i][1], EmitExpr(e)[j][2], EmitExpr(e)[i-1][2])
<1>1. PICK x, parts : x = e[i] /\ parts = AtParts(e, i, EmitExpr(e))
  OBVIOUS
<1>2. EmitExpr(e)[i] = EmitNode(x, parts)
  BY <1>1, EmitUnfold
<1>3. parts[1] = EmitExpr(e)[j] /\ parts[2] = EmitExpr(e)[i-1]
  BY <1>1, TwoParts
<1>4. x[1] \in BinOps \cup {"in", "call"}
  BY <1>1 DEF TwoUnder
<1>5. x[1] \in BinOps
  BY <1>2, <1>4 DEF EmitNode, BinOps, Comparisons, IsErr, Err
<1>6. EmitNode(x, parts) = IF IsErr(parts[1]) THEN parts[1] ELSE IF IsErr(parts[2]) THEN parts[2]
                           ELSE BinaryCode(x[1], parts[1][2], parts[2][2])
  BY <1>5 DEF EmitNode, BinOps, Comparisons
<1>7. ~IsErr(parts[1]) /\ ~IsErr(parts[2])
  BY <1>2, <1>6
<1>8. EmitExpr(e)[i] = BinaryCode(x[1], parts[1][2], parts[2][2])
  BY <1>2, <1>6, <1>7, Zenon
<1> QED
  BY <1>1, <1>3, <1>5, <1>7, <1>8, Zenon

\* With as many steps as the part has nodes, node i of an expression that has
\* code there has a value of its type, and the code leaves it.
Coded(e, ctx, i, sz) ==
    ~IsErr(EmitExpr(e)[i]) =>
        /\ Ty(e, i) \in Ground
        /\ \A n \in Nat : n >= sz[i] =>
             \E v, m : /\ Yields(e, ctx, i, n, v, m) /\ m + sz[i] >= n
                       /\ v[1] = Ty(e, i)[1] /\ Rep(EmitExpr(e)[i], v)

\* A literal.
LEMMA CodedLeaf ==
    ASSUME NEW e, NEW sz, Tree(e, sz), NEW ctx, NEW i \in 1..Len(e),
           ~IsErr(InferExpr(e)[i]), Fits(e[i]), e[i] \in Leaves, sz[i] = 1
    PROVE  Coded(e, ctx, i, sz)
<1> SUFFICES ASSUME ~IsErr(EmitExpr(e)[i])
             PROVE  /\ Ty(e, i) \in Ground
                    /\ \A n \in Nat : n >= sz[i] =>
                         \E v, m : /\ Yields(e, ctx, i, n, v, m) /\ m + sz[i] >= n
                                   /\ v[1] = Ty(e, i)[1] /\ Rep(EmitExpr(e)[i], v)
  BY Zenon DEF Coded
<1>1. e[i][1] = "lit" /\ Rep(EmitExpr(e)[i], e[i][2]) /\ e[i][2][1] \in {"Bool", "Int"}
  BY EmitLeaf
<1>2. PICK s : Ty(e, i) = TypeOf(e[i], s)
  BY InferGood, Zenon DEF Ty
<1>3. Ty(e, i) = <<e[i][2][1]>>
  BY <1>1, <1>2 DEF TypeOf
<1>4. e[i][2][1] = Ty(e, i)[1] /\ Ty(e, i) \in Ground
  BY <1>1, <1>3 DEF Ground
<1>5. ASSUME NEW n \in Nat, n >= sz[i]
      PROVE  \E v, m : /\ Yields(e, ctx, i, n, v, m) /\ m + sz[i] >= n
                       /\ v[1] = Ty(e, i)[1] /\ Rep(EmitExpr(e)[i], v)
  <2>1. n > 0 /\ n - 1 \in Nat /\ (n - 1) + sz[i] >= n
    BY <1>5
  <2>2. Yields(e, ctx, i, n, e[i][2], n - 1)
    BY <1>1, <2>1, EvalLit DEF Yields
  <2> QED
    BY <1>1, <1>4, <2>1, <2>2, Zenon
<1> QED
  BY <1>4, <1>5, Zenon

\* `not`.
LEMMA CodedOne ==
    ASSUME NEW e, NEW sz, Tree(e, sz), NEW ctx, NEW i \in 1..Len(e),
           ~IsErr(InferExpr(e)[i]), OneUnder(e, i, sz), Coded(e, ctx, i - 1, sz)
    PROVE  Coded(e, ctx, i, sz)
<1> SUFFICES ASSUME ~IsErr(EmitExpr(e)[i])
             PROVE  /\ Ty(e, i) \in Ground
                    /\ \A n \in Nat : n >= sz[i] =>
                         \E v, m : /\ Yields(e, ctx, i, n, v, m) /\ m + sz[i] >= n
                                   /\ v[1] = Ty(e, i)[1] /\ Rep(EmitExpr(e)[i], v)
  BY Zenon DEF Coded
<1>1. /\ e[i][1] = "not" /\ ~IsErr(EmitExpr(e)[i-1])
      /\ EmitExpr(e)[i] = Flag(EmitExpr(e)[i-1][2] = 0)
  BY EmitOne
<1>2. /\ Ty(e, i-1) \in Ground
      /\ \A n \in Nat : n >= sz[i-1] =>
           \E v, m : /\ Yields(e, ctx, i - 1, n, v, m) /\ m + sz[i-1] >= n
                     /\ v[1] = Ty(e, i-1)[1] /\ Rep(EmitExpr(e)[i-1], v)
  BY <1>1, Zenon DEF Coded
<1>3. Ty(e, i-1) = <<"Bool">> /\ Ty(e, i) = <<"Bool">>
  BY <1>1, <1>2, UnaryTypes
<1>4. Ty(e, i) \in Ground /\ Ty(e, i)[1] = "Bool" /\ Ty(e, i-1)[1] = "Bool"
  BY <1>3 DEF Ground
<1>5. ASSUME NEW n \in Nat, n >= sz[i]
      PROVE  \E v, m : /\ Yields(e, ctx, i, n, v, m) /\ m + sz[i] >= n
                       /\ v[1] = Ty(e, i)[1] /\ Rep(EmitExpr(e)[i], v)
  <2>1. /\ n > 0 /\ n - 1 \in Nat /\ n - 1 >= sz[i-1]
        /\ \A m \in Nat : m + sz[i-1] >= n - 1 => m + sz[i] >= n
    BY <1>5, OneHasSteps
  <2>2. PICK v, m : /\ Yields(e, ctx, i - 1, n - 1, v, m) /\ m + sz[i-1] >= n - 1
                    /\ v[1] = Ty(e, i-1)[1] /\ Rep(EmitExpr(e)[i-1], v)
    BY <1>2, <2>1, Zenon
  <2>3. v[1] = "Bool" /\ ~IsErr(v)
    BY <1>4, <2>2 DEF IsErr
  <2>4. EvalExpr(e, ctx)[i-1][n-1] = <<v, m>> /\ m \in Nat
    BY <2>2 DEF Yields
  <2>5. e[i][1] # "call"
    BY <1>1
  <2>6. EvalExpr(e, ctx)[i][n] = <<ValueOf(e[i], <<v>>), m>>
    BY <2>1, <2>3, <2>4, <2>5, EvalOne
  <2>7. PICK w : w = Bool(~Truthy(v))
    OBVIOUS
  <2>8. ValueOf(e[i], <<v>>) = w /\ w[1] = "Bool"
    <3>1. PICK args : args = <<v>>
      OBVIOUS
    <3>2. args[1] = v
      BY <3>1
    <3>3. ValueOf(e[i], args) = Bool(~Truthy(v))
      BY <1>1, <3>2 DEF ValueOf, Comparisons
    <3>4. w[1] = "Bool"
      BY <2>7 DEF Bool
    <3> QED
      BY <2>7, <3>1, <3>3, <3>4
  <2>9. Rep(EmitExpr(e)[i], w)
    BY <1>1, <2>2, <2>3, <2>7, RepNot
  <2>10. Yields(e, ctx, i, n, w, m)
    BY <2>4, <2>6, <2>8 DEF Yields
  <2> QED
    BY <1>4, <2>1, <2>2, <2>4, <2>8, <2>9, <2>10, Zenon
<1> QED
  BY <1>4, <1>5, Zenon

\* The two parts of a node that has code have code.
LEMMA CodedTwo ==
    ASSUME NEW e, NEW sz, Tree(e, sz), NEW ctx, NEW i \in 1..Len(e),
           ~IsErr(InferExpr(e)[i]), TwoUnder(e, i, sz),
           Coded(e, ctx, i - e[i][3][1], sz), Coded(e, ctx, i - 1, sz)
    PROVE  Coded(e, ctx, i, sz)
<1> SUFFICES ASSUME ~IsErr(EmitExpr(e)[i])
             PROVE  /\ Ty(e, i) \in Ground
                    /\ \A n \in Nat : n >= sz[i] =>
                         \E v, m : /\ Yields(e, ctx, i, n, v, m) /\ m + sz[i] >= n
                                   /\ v[1] = Ty(e, i)[1] /\ Rep(EmitExpr(e)[i], v)
  BY Zenon DEF Coded
<1>0. PICK j : j = i - e[i][3][1]
  OBVIOUS
<1>1. PICK c, d, a, b, op : /\ c = EmitExpr(e)[j] /\ d = EmitExpr(e)[i-1]
                            /\ a = Ty(e, j) /\ b = Ty(e, i-1) /\ op = e[i][1]
  OBVIOUS
<1>2. /\ op \in BinOps /\ ~IsErr(EmitExpr(e)[j]) /\ ~IsErr(EmitExpr(e)[i-1])
      /\ EmitExpr(e)[i] = BinaryCode(op, c[2], d[2])
  BY <1>0, <1>1, EmitTwo
<1>3. /\ a \in Ground
      /\ \A n \in Nat : n >= sz[j] =>
           \E v, m : /\ Yields(e, ctx, j, n, v, m) /\ m + sz[j] >= n
                     /\ v[1] = a[1] /\ Rep(c, v)
  BY <1>0, <1>1, <1>2, Zenon DEF Coded
<1>4. /\ b \in Ground
      /\ \A n \in Nat : n >= sz[i-1] =>
           \E v, m : /\ Yields(e, ctx, i - 1, n, v, m) /\ m + sz[i-1] >= n
                     /\ v[1] = b[1] /\ Rep(d, v)
  BY <1>0, <1>1, <1>2, Zenon DEF Coded
<1>5. /\ op \in {"and", "or"} => a = <<"Bool">> /\ b = <<"Bool">> /\ Ty(e, i) = <<"Bool">>
      /\ op \in Comparisons \ {"==", "!="} =>
                a = <<"Int">> /\ b = <<"Int">> /\ Ty(e, i) = <<"Bool">>
      /\ op \in {"==", "!="} => a = b /\ Ty(e, i) = <<"Bool">>
  <2>1. a = Ty(e, i - e[i][3][1])
    BY <1>0, <1>1
  <2> QED
    BY <1>1, <1>3, <1>4, <2>1, BinaryTypes
<1>6. Ty(e, i) = <<"Bool">> /\ Ty(e, i) \in Ground /\ Ty(e, i)[1] = "Bool"
  <2>1. Ty(e, i) = <<"Bool">>
    BY <1>2, <1>5 DEF BinOps
  <2> QED
    BY <2>1 DEF Ground
<1>7. ASSUME NEW n \in Nat, n >= sz[i]
      PROVE  \E v, m : /\ Yields(e, ctx, i, n, v, m) /\ m + sz[i] >= n
                       /\ v[1] = Ty(e, i)[1] /\ Rep(EmitExpr(e)[i], v)
  <2>1. /\ n > 0 /\ n - 1 \in Nat /\ i - 1 \in 1..(i-1) /\ i - 1 \in 1..Len(e)
        /\ j \in 1..(i-1) /\ j \in 1..Len(e)
        /\ n - 1 >= sz[j]
        /\ \A m \in Nat : m + sz[j] >= n - 1 =>
             /\ m >= sz[i-1] /\ m + sz[i] >= n
             /\ \A k \in Nat : k + sz[i-1] >= m => k + sz[i] >= n
    BY <1>0, <1>7, TwoHaveSteps
  <2>2. PICK v, m : /\ Yields(e, ctx, j, n - 1, v, m) /\ m + sz[j] >= n - 1
                    /\ v[1] = a[1] /\ Rep(c, v)
    BY <1>3, <2>1, Zenon
  <2>3. m \in Nat /\ m >= sz[i-1] /\ m + sz[i] >= n
    BY <2>1, <2>2, Zenon DEF Yields
  <2>4. PICK u, k : /\ Yields(e, ctx, i - 1, m, u, k) /\ k + sz[i-1] >= m
                    /\ u[1] = b[1] /\ Rep(d, u)
    BY <1>4, <2>3, Zenon
  <2>5. k \in Nat /\ k + sz[i] >= n
    BY <2>1, <2>2, <2>3, <2>4, Zenon DEF Yields
  <2>6. ~IsErr(v) /\ ~IsErr(u)
    BY <1>3, <1>4, <2>2, <2>4 DEF Ground, IsErr
  <2>7. CASE op \in {"and", "or"}
    <3>1. PICK l, r, x, y : /\ l = EvalExpr(e, ctx)[j] /\ r = EvalExpr(e, ctx)[i-1]
                            /\ x = Bool(op = "or") /\ y = Bool(Truthy(u))
      OBVIOUS
    <3>2. EvalExpr(e, ctx)[i][n] = EvalLogic(op, l, r, n - 1)
      <4>1. EvalExpr(e, ctx)[i][n] =
                EvalLogic(e[i][1], EvalExpr(e, ctx)[j], EvalExpr(e, ctx)[i-1], n - 1)
        BY <1>0, <1>1, <2>1, <2>7, EvalLogical
      <4> QED
        BY <1>1, <3>1, <4>1, Zenon
    <3>3. l[n-1] = <<v, m>> /\ r[m] = <<u, k>>
      BY <2>2, <2>4, <3>1 DEF Yields
    <3>4. EvalExpr(e, ctx)[i][n] = IF Truthy(v) = (op = "or") THEN <<x, m>> ELSE <<y, k>>
      <4>1. PICK b1 : b1 = n - 1
        OBVIOUS
      <4>2. l[b1] = <<v, m>>
        BY <3>3, <4>1
      <4>3. EvalLogic(op, l, r, b1) =
               IF Truthy(v) = (op = "or") THEN <<Bool(op = "or"), m>>
               ELSE <<Bool(Truthy(u)), k>>
        BY <2>6, <2>7, <3>3, <4>2, LogicValues
      <4> QED
        BY <3>1, <3>2, <4>1, <4>3, Zenon
    <3>5. x[1] = "Bool" /\ y[1] = "Bool"
      BY <3>1 DEF Bool
    <3>6. v[1] = "Bool" /\ u[1] = "Bool"
      BY <1>5, <2>2, <2>4, <2>7
    <3>7. Rep(EmitExpr(e)[i], IF Truthy(v) = (op = "or") THEN x ELSE y)
      <4>1. Rep(BinaryCode(op, c[2], d[2]),
               IF Truthy(v) = (op = "or") THEN Bool(op = "or") ELSE Bool(Truthy(u)))
        BY <2>2, <2>4, <2>7, <3>6, RepLogicCode
      <4> QED
        BY <1>2, <3>1, <4>1, Zenon
    <3>8. CASE Truthy(v) = (op = "or")
      <4>1. Yields(e, ctx, i, n, x, m) /\ Rep(EmitExpr(e)[i], x)
        BY <2>3, <3>4, <3>7, <3>8, Zenon DEF Yields
      <4> QED
        BY <1>6, <2>3, <3>5, <4>1, Zenon
    <3>9. CASE Truthy(v) # (op = "or")
      <4>1. Yields(e, ctx, i, n, y, k) /\ Rep(EmitExpr(e)[i], y)
        BY <2>5, <3>4, <3>7, <3>9, Zenon DEF Yields
      <4> QED
        BY <1>6, <2>5, <3>5, <4>1, Zenon
    <3> QED
      BY <3>8, <3>9, Zenon
  <2>8. CASE op \in Comparisons
    <3>1. e[i][1] \notin {"and", "or"} /\ ~(e[i][1] = "call" /\ e[i][2] = "secret_ref")
      BY <1>1, <2>8 DEF Comparisons
    <3>2. PICK w : w = ValueOf(e[i], <<v, u>>)
      OBVIOUS
    <3>3. Yields(e, ctx, i, n, w, k)
      BY <1>0, <2>1, <2>2, <2>4, <2>6, <3>1, <3>2, TwoAnswer
    <3>4. Rep(BinaryCode(op, c[2], d[2]), w)
      <4>1. CASE op \in {"==", "!="}
        <5>1. v[1] = u[1]
          BY <1>5, <2>2, <2>4, <4>1
        <5> QED
          BY <1>1, <2>2, <2>4, <3>2, <4>1, <5>1, RepEqCode
      <4>2. CASE op \in Comparisons \ {"==", "!="}
        <5>1. v[1] = "Int" /\ u[1] = "Int"
          BY <1>5, <2>2, <2>4, <4>2
        <5> QED
          BY <1>1, <2>2, <2>4, <3>2, <4>2, <5>1, RepCmpCode
      <4> QED
        BY <2>8, <4>1, <4>2
    <3>5. w[1] = "Bool"
      <4>2. BoolOrErr(w)
        BY <1>1, <2>8, <3>2, ValueBool
      <4>3. ~IsErr(w)
        BY <3>4, RepKinds DEF IsErr
      <4> QED
        BY <4>2, <4>3 DEF BoolOrErr
    <3> QED
      BY <1>2, <1>6, <2>5, <3>3, <3>4, <3>5, Zenon
  <2> QED
    BY <1>2, <2>7, <2>8 DEF BinOps
<1> QED
  BY <1>6, <1>7, Zenon

-----------------------------------------------------------------------------
\* Every node, from its parts.
LEMMA CodedRuns ==
    ASSUME NEW e, NEW sz, Tree(e, sz), NEW ctx,
           \A x \in 1..Len(e) : ~IsErr(InferExpr(e)[x]) /\ Fits(e[x]), NEW i \in 1..Len(e)
    PROVE  Coded(e, ctx, i, sz)
<1> DEFINE P == {n \in Nat : \A x \in 1..Len(e) : x <= n => Coded(e, ctx, x, sz)}
<1>0. Len(e) \in Nat /\ i \in Nat
  BY DEF Tree
<1>1. 0 \in P
  BY <1>0
<1>2. ASSUME NEW n \in P PROVE n + 1 \in P
  <2>1. n \in Nat /\ \A x \in 1..Len(e) : x <= n => Coded(e, ctx, x, sz)
    OBVIOUS
  <2>2. ASSUME NEW x \in 1..Len(e), x <= n + 1 PROVE Coded(e, ctx, x, sz)
    <3>1. \A y \in 1..(x-1) : y \in 1..Len(e) /\ y <= n
      BY <1>0, <2>1, <2>2
    <3>2. \A y \in 1..(x-1) : Coded(e, ctx, y, sz)
      BY <2>1, <3>1
    <3>3. WellPlaced(e, x, sz) /\ ~IsErr(InferExpr(e)[x]) /\ Fits(e[x]) /\ x \in Nat
      BY DEF Tree
    <3>4. CASE e[x] \in Leaves /\ sz[x] = 1
      BY <3>3, <3>4, CodedLeaf
    <3>5. CASE OneUnder(e, x, sz)
      <4>1. x - 1 \in 1..(x-1)
        BY <3>3, <3>5 DEF OneUnder
      <4> QED
        BY <3>2, <3>3, <3>5, <4>1, CodedOne
    <3>6. CASE TwoUnder(e, x, sz)
      <4>1. PICK d : d = e[x][3][1]
        OBVIOUS
      <4>2. d \in Nat /\ d > 1 /\ d < x
        BY <3>6, <4>1 DEF TwoUnder
      <4>3. x - 1 \in 1..(x-1) /\ x - d \in 1..(x-1)
        BY <1>0, <4>2, PlaceArithmetic
      <4>4. Coded(e, ctx, x - 1, sz) /\ Coded(e, ctx, x - e[x][3][1], sz)
        BY <3>2, <4>1, <4>3
      <4> QED
        BY <3>3, <3>6, <4>4, CodedTwo
    <3> QED
      BY <3>3, <3>4, <3>5, <3>6 DEF WellPlaced
  <2> QED
    BY <2>1, <2>2
<1> HIDE DEF P
<1>3. P = Nat
  <2>1. P \in SUBSET Nat
    BY DEF P
  <2> QED
    BY <1>1, <1>2, <2>1, NatInd
<1> QED
  BY <1>0, <1>3 DEF P

\* The root of an accepted `when`: its parts are accepted, and it is bool if its
\* type is determined.
LEMMA RootType ==
    ASSUME NEW e, NEW sz, Tree(e, sz), ~IsErr(Infer(e))
    PROVE  /\ ~IsErr(InferExpr(e)[Len(e)])
           /\ Ty(e, Len(e)) \in Ground => Ty(e, Len(e)) = <<"Bool">>
<1>1. PICK r, u : r = InferExpr(e)[Len(e)] /\ u = Unify(r[2], <<"Bool">>, r[3])
  OBVIOUS
<1>2. ~IsErr(r) /\ ~IsErr(u)
  BY <1>1, Zenon DEF Infer
<1>3. <<"Bool">> \in Ground
  BY DEF Ground
<1>4. r[2] \in Ground => r[2] = <<"Bool">>
  BY <1>1, <1>2, <1>3, GroundUnify
<1> QED
  BY <1>1, <1>2, <1>4, Zenon DEF Ty

\* What infer promises of one accepted `when`, in any context: it is a boolean
\* or an error or has no type, no error if every argument was checked, and
\* its code leaves what the tree walk yields.
LEMMA AcceptedIsSafe ==
    ASSUME NEW e, NEW sz, Tree(e, sz), Len(e) <= EvalSteps, ~IsErr(Infer(e)), NEW ctx
    PROVE  LET v == Eval(e, ctx)
           IN /\ IsErr(v) \/ v[1] = "Bool" \/ Infer(e)[2][1] = "Unknown"
              /\ (\A i \in 1..Len(e) : ~Loose(e[i])) => v[1] = "Bool"
              /\ (\A i \in 1..Len(e) : Fits(e[i])) /\ ~IsErr(Emit(e)) =>
                     Emit(e) = Flag(Truthy(v))
<1>1. PICK v : v = Eval(e, ctx)
  OBVIOUS
<1>2. PICK r : r = Len(e)
  OBVIOUS
<1>3. v = EvalExpr(e, ctx)[r][EvalSteps][1]
  BY <1>1, <1>2 DEF Eval
<1>4. r \in 1..Len(e) /\ r \in Nat /\ sz[r] = r /\ EvalSteps \in Nat /\ EvalSteps >= sz[r]
  BY <1>2, DictumAssumption DEF Tree
<1>5. ~IsErr(InferExpr(e)[Len(e)]) /\ (Ty(e, r) \in Ground => Ty(e, r) = <<"Bool">>)
  BY <1>2, RootType
<1>6. \A x \in 1..Len(e) : ~IsErr(InferExpr(e)[x])
  BY <1>5, InferAll
<1>7. IsErr(v) \/ v[1] = "Bool" \/ Infer(e)[2][1] = "Unknown"
  <2>1. BoolOrErr(EvalExpr(e, ctx)[r][EvalSteps][1]) \/ Infer(e)[2] = <<"Unknown">>
    BY <1>2, <1>4, RootBool
  <2> QED
    BY <1>3, <2>1 DEF BoolOrErr
<1>8. ASSUME \A i \in 1..Len(e) : ~Loose(e[i]) PROVE v[1] = "Bool"
  <2>1. Typed(e, ctx, r, sz)
    BY <1>4, <1>6, <1>8, TypedRuns
  <2>2. PICK w, m : Yields(e, ctx, r, EvalSteps, w, m) /\ w[1] = Ty(e, r)[1]
    BY <1>4, <2>1 DEF Typed
  <2>3. Ty(e, r) \in Ground
    BY <1>4, <1>6, <1>8, GroundType
  <2>4. w = v
    BY <1>3, <2>2 DEF Yields
  <2> QED
    BY <1>5, <2>2, <2>3, <2>4
<1>9. ASSUME \A i \in 1..Len(e) : Fits(e[i]), ~IsErr(Emit(e)) PROVE Emit(e) = Flag(Truthy(v))
  <2>1. Coded(e, ctx, r, sz)
    BY <1>4, <1>6, <1>9, CodedRuns
  <2>2. Emit(e) = EmitExpr(e)[r]
    BY <1>2 DEF Emit
  <2>3. Ty(e, r) \in Ground
    BY <1>9, <2>1, <2>2 DEF Coded
  <2>4. PICK w, m : /\ Yields(e, ctx, r, EvalSteps, w, m) /\ w[1] = Ty(e, r)[1]
                    /\ Rep(EmitExpr(e)[r], w)
    BY <1>4, <1>9, <2>1, <2>2 DEF Coded
  <2>5. w = v /\ w[1] = "Bool"
    BY <1>3, <1>5, <2>3, <2>4 DEF Yields
  <2>6. PICK b \in BOOLEAN : w = Bool(b) /\ Emit(e) = Flag(b)
    BY <2>2, <2>4, <2>5, RepKinds
  <2>7. Truthy(w) = b
    BY <2>6 DEF Truthy, Bool
  <2> QED
    BY <2>5, <2>6, <2>7
<1> QED
  BY <1>1, <1>7, <1>8, <1>9, Zenon

\* types.rs, eval.rs and wasm.rs agree on every policy an author can write,
\* whatever the leaves, names, requests, bounds and integer width are: a `when`
\* that infer accepts passes the validator, is a boolean or an error on every
\* request unless its type was never determined, is no error when every
\* argument was checked, and its WASM code computes what the tree walk does.
THEOREM TypedPrograms == DictumSpec => []TypedProgramsSafe
<1>1. DraftInv => TypedProgramsSafe
  <2> SUFFICES ASSUME DraftInv, Len(draft) = 1, ~IsErr(Infer(draft[1]))
               PROVE  /\ ValidateExpr(draft[1])
                      /\ \A r \in Requests :
                           LET v == Eval(draft[1], BuildOverlayContext(r))
                           IN /\ IsErr(v) \/ v[1] = "Bool" \/ Infer(draft[1])[2][1] = "Unknown"
                              /\ (\A i \in 1..Len(draft[1]) : ~Loose(draft[1][i])) => v[1] = "Bool"
                              /\ (\A i \in 1..Len(draft[1]) : Fits(draft[1][i]))
                                   /\ ~IsErr(Emit(draft[1])) =>
                                     Emit(draft[1]) = Flag(Truthy(v))
    BY Zenon DEF TypedProgramsSafe
  <2>1. PICK e : e = draft[1]
    OBVIOUS
  <2>2. \E sz : Tree(e, sz)
    <3>1. 1 \in 1..Len(draft)
      OBVIOUS
    <3> QED
      BY <2>1, <3>1 DEF DraftInv
  <2>3. PICK sz : Tree(e, sz)
    BY <2>2
  <2>4. Len(e) <= EvalSteps
    <3>1. Len(e) <= MaxNodes /\ Len(e) \in Nat
      BY <2>1, <2>3 DEF DraftInv, Tree
    <3> QED
      BY <3>1, DictumAssumption
  <2>5. ValidateExpr(e)
    BY <2>1, <2>3, RootType, TypedIsValid
  <2>6. ASSUME NEW r \in Requests
        PROVE  LET v == Eval(e, BuildOverlayContext(r))
               IN /\ IsErr(v) \/ v[1] = "Bool" \/ Infer(e)[2][1] = "Unknown"
                  /\ (\A i \in 1..Len(e) : ~Loose(e[i])) => v[1] = "Bool"
                  /\ (\A i \in 1..Len(e) : Fits(e[i])) /\ ~IsErr(Emit(e)) =>
                         Emit(e) = Flag(Truthy(v))
    BY <2>1, <2>3, <2>4, AcceptedIsSafe, Zenon
  <2> QED
    BY <2>1, <2>5, <2>6, Zenon
<1> QED
  BY <1>1, DraftInvariance, PTL

\* dictum_overlay.rs: a typo in a path is an error when the overlay is loaded.
\* Each path of a loaded program leads somewhere in the context of every request
\* that has the conditional roots, outside the subtrees that are the caller's.
THEOREM OverlayPathsResolve == DictumSpec => []LoadedPathsResolve
  BY PathsResolve, PTL

-----------------------------------------------------------------------------
(* The parser reads back what is written.  Its methods and its loops first:   *)
(* the functions that they are exist, and a loop ends where its token ends.   *)

\* f is the methods, with up to m calls open.
IsMethods(f, t, m) ==
    f = [n \in 0..m |-> [rule \in Rules |-> [j \in Nat |->
            IF n = 0 THEN Fail ELSE ParseRule(f[n-1], t, rule, j)]]]

\* There are such functions.
LEMMA MethodsExist ==
    ASSUME NEW t, NEW m \in Nat
    PROVE  \E f : IsMethods(f, t, m)
<1> DEFINE P == {k \in Nat : \E f : IsMethods(f, t, k)}
<1>1. 0 \in P
  <2>1. PICK none : none = [rule \in Rules |-> [j \in Nat |-> Fail]]
    OBVIOUS
  <2>2. PICK f : f = [n \in 0..0 |-> none]
    OBVIOUS
  <2>3. f = [n \in 0..0 |-> [rule \in Rules |-> [j \in Nat |->
                IF n = 0 THEN Fail ELSE ParseRule(f[n-1], t, rule, j)]]]
    BY <2>1, <2>2
  <2> QED
    BY <2>3 DEF IsMethods
<1>2. ASSUME NEW k \in P PROVE k + 1 \in P
  <2>1. PICK f : IsMethods(f, t, k)
    OBVIOUS
  <2>2. PICK last : last = [rule \in Rules |-> [j \in Nat |-> ParseRule(f[k], t, rule, j)]]
    OBVIOUS
  <2>3. PICK g : g = [n \in 0..(k + 1) |-> IF n <= k THEN f[n] ELSE last]
    OBVIOUS
  <2>4. k \in Nat /\ \A n \in 0..k : g[n] = f[n]
    BY <2>3
  <2>5. ASSUME NEW n \in 0..(k + 1)
        PROVE  g[n] = [rule \in Rules |-> [j \in Nat |->
                          IF n = 0 THEN Fail ELSE ParseRule(g[n-1], t, rule, j)]]
    <3>1. CASE n \in 0..k
      <4>1. n # 0 => n - 1 \in 0..k
        BY <2>4, <3>1
      <4>2. n # 0 => g[n-1] = f[n-1]
        BY <2>4, <4>1
      <4>3. f[n] = [rule \in Rules |-> [j \in Nat |->
                          IF n = 0 THEN Fail ELSE ParseRule(f[n-1], t, rule, j)]]
        BY <2>1, <3>1 DEF IsMethods
      <4> QED
        BY <2>4, <3>1, <4>2, <4>3
    <3>2. CASE n = k + 1
      <4>1. n # 0 /\ n - 1 = k /\ g[n] = last /\ g[n-1] = f[k]
        BY <2>3, <2>4, <3>2
      <4> QED
        BY <2>2, <4>1
    <3> QED
      BY <2>4, <3>1, <3>2
  <2>6. IsMethods(g, t, k + 1)
    BY <2>3, <2>5 DEF IsMethods
  <2> QED
    BY <2>4, <2>6
<1> HIDE DEF P
<1>3. P = Nat
  <2>1. P \in SUBSET Nat
    BY DEF P
  <2> QED
    BY <1>1, <1>2, <2>1, NatInd
<1> QED
  BY <1>3 DEF P

\* A method, with a call of it open.
LEMMA MethodIs ==
    ASSUME NEW t, Len(t) \in Nat, NEW n \in 1..OpenCalls(t), NEW rule \in Rules, NEW j \in Nat
    PROVE  Methods(t)[n][rule][j] = ParseRule(Methods(t)[n-1], t, rule, j)
<1>1. OpenCalls(t) \in Nat
  BY DEF OpenCalls
<1>2. \E f : IsMethods(f, t, OpenCalls(t))
  BY <1>1, MethodsExist
<1>3. IsMethods(Methods(t), t, OpenCalls(t))
  BY <1>2 DEF IsMethods, Methods
<1>4. PICK f : f = Methods(t)
  OBVIOUS
<1>5. n \in 0..OpenCalls(t) /\ n # 0
  BY <1>1
<1>6. f[n] = [r \in Rules |-> [i \in Nat |->
                 IF n = 0 THEN Fail ELSE ParseRule(f[n-1], t, r, i)]]
  BY <1>3, <1>4, <1>5, ZenonT(40) DEF IsMethods
<1>7. f[n][rule][j] = ParseRule(f[n-1], t, rule, j)
  BY <1>5, <1>6
<1> QED
  BY <1>4, <1>7

\* A loop that is over stays as it is, so all the turns after which it is over
\* are the same.
LEMMA OverStays ==
    ASSUME NEW f, NEW L \in Nat, NEW E \in SUBSET (0..L),
           \A k \in E : k + 1 \in 0..L => k + 1 \in E /\ f[k+1] = f[k],
           NEW a \in E, NEW b \in E, a <= b
    PROVE  f[a] = f[b]
<1> DEFINE P == {d \in Nat : a + d \in 0..L => a + d \in E /\ f[a + d] = f[a]}
<1>0. a \in Nat /\ b \in Nat
  OBVIOUS
<1>1. 0 \in P
  BY <1>0
<1>2. ASSUME NEW d \in P PROVE d + 1 \in P
  <2>1. d \in Nat /\ a + (d + 1) = (a + d) + 1 /\ a + d \in Nat /\ d + 1 \in Nat
    BY <1>0
  <2>2. SUFFICES ASSUME a + (d + 1) \in 0..L
                 PROVE  a + (d + 1) \in E /\ f[a + (d + 1)] = f[a]
    BY <2>1
  <2>3. a + d \in 0..L
    BY <2>1, <2>2
  <2>4. a + d \in E /\ f[a + d] = f[a]
    BY <2>3
  <2> QED
    BY <2>1, <2>2, <2>4
<1> HIDE DEF P
<1>3. P = Nat
  <2>1. P \in SUBSET Nat
    BY DEF P
  <2> QED
    BY <1>1, <1>2, <2>1, NatInd
<1>4. b - a \in Nat /\ a + (b - a) = b
  BY <1>0
<1>5. b - a \in P
  BY <1>3, <1>4
<1> QED
  BY <1>4, <1>5 DEF P

\* f is what a loop of an expression has after each of m turns.
IsLoop(f, p, t, sep, first, m) == f = [k \in 0..m |-> IF k = 0 THEN first ELSE Turn(p, t, sep, f[k-1])]
\* ... and r what it has after k.
LoopAt(p, t, sep, first, k, r) == \A f : IsLoop(f, p, t, sep, first, Len(t)) => f[k] = r

\* The loop is a function of the turns.
LEMMA LoopExists ==
    ASSUME NEW p, NEW t, NEW sep, NEW first, NEW m \in Nat
    PROVE  \E f : IsLoop(f, p, t, sep, first, m)
<1> DEFINE P == {k \in Nat : \E f : IsLoop(f, p, t, sep, first, k)}
<1>0. PICK start : start = first
  OBVIOUS
<1>1. 0 \in P
  <2>1. PICK f : f = [k \in 0..0 |-> start]
    OBVIOUS
  <2>2. f = [k \in 0..0 |-> IF k = 0 THEN start ELSE Turn(p, t, sep, f[k-1])]
    BY <2>1
  <2> QED
    BY <1>0, <2>2 DEF IsLoop
<1>2. ASSUME NEW k \in P PROVE k + 1 \in P
  <2>1. PICK f : IsLoop(f, p, t, sep, first, k)
    OBVIOUS
  <2>2. PICK last : last = Turn(p, t, sep, f[k])
    OBVIOUS
  <2>3. PICK g : g = [n \in 0..(k + 1) |-> IF n <= k THEN f[n] ELSE last]
    OBVIOUS
  <2>4. k \in Nat /\ \A n \in 0..k : g[n] = f[n]
    BY <2>3
  <2>5. ASSUME NEW n \in 0..(k + 1)
        PROVE  g[n] = IF n = 0 THEN start ELSE Turn(p, t, sep, g[n-1])
    <3>1. CASE n \in 0..k
      <4>1. n # 0 => n - 1 \in 0..k
        BY <2>4, <3>1
      <4>2. n # 0 => g[n-1] = f[n-1]
        BY <2>4, <4>1
      <4>3. f[n] = IF n = 0 THEN start ELSE Turn(p, t, sep, f[n-1])
        BY <1>0, <2>1, <3>1 DEF IsLoop
      <4> QED
        BY <2>4, <3>1, <4>2, <4>3
    <3>2. CASE n = k + 1
      <4>1. n # 0 /\ n - 1 = k /\ g[n] = last /\ g[n-1] = f[k]
        BY <2>3, <2>4, <3>2
      <4> QED
        BY <2>2, <4>1
    <3> QED
      BY <2>4, <3>1, <3>2
  <2>6. IsLoop(g, p, t, sep, first, k + 1)
    BY <1>0, <2>3, <2>5 DEF IsLoop
  <2> QED
    BY <2>4, <2>6
<1> HIDE DEF P
<1>3. P = Nat
  <2>1. P \in SUBSET Nat
    BY DEF P
  <2> QED
    BY <1>1, <1>2, <2>1, NatInd
<1> QED
  BY <1>3 DEF P

\* Its turns, one by one.
LEMMA LoopTurns ==
    ASSUME NEW p, NEW t, NEW sep, NEW first, Len(t) \in Nat
    PROVE  /\ LoopAt(p, t, sep, first, 0, first)
           /\ \A k \in Nat : \A r, q :
                 /\ k + 1 <= Len(t) /\ LoopAt(p, t, sep, first, k, r)
                 /\ Turn(p, t, sep, r) = q
                 => LoopAt(p, t, sep, first, k + 1, q)
<1>0. PICK start : start = first
  OBVIOUS
<1>1. LoopAt(p, t, sep, first, 0, start)
  <2>1. ASSUME NEW f, IsLoop(f, p, t, sep, first, Len(t)) PROVE f[0] = start
    BY <1>0, <2>1 DEF IsLoop
  <2> QED
    BY <2>1 DEF LoopAt
<1>2. ASSUME NEW k \in Nat, NEW r, NEW q, k + 1 <= Len(t), LoopAt(p, t, sep, first, k, r),
             Turn(p, t, sep, r) = q
      PROVE  LoopAt(p, t, sep, first, k + 1, q)
  <2>1. ASSUME NEW f, IsLoop(f, p, t, sep, first, Len(t)) PROVE f[k+1] = q
    <3>1. f[k] = r
      BY <1>2, <2>1 DEF LoopAt
    <3>2. k + 1 \in 0..Len(t) /\ k + 1 # 0 /\ (k + 1) - 1 = k
      BY <1>2
    <3>3. f[k+1] = Turn(p, t, sep, f[(k + 1) - 1])
      BY <2>1, <3>2 DEF IsLoop
    <3> QED
      BY <1>2, <3>1, <3>2, <3>3
  <2> QED
    BY <2>1 DEF LoopAt
<1> QED
  BY <1>0, <1>1, <1>2

\* It returns what it has when it is over.
LEMMA LoopEnds ==
    ASSUME NEW p, NEW t, NEW sep, NEW first, Len(t) \in Nat, NEW k \in 0..Len(t), NEW r,
           LoopAt(p, t, sep, first, k, r), Over(t, sep, r)
    PROVE  Loop(p, t, sep, first) = r
<1>1. PICK f : /\ IsLoop(f, p, t, sep, first, Len(t))
               /\ Loop(p, t, sep, first) = f[CHOOSE n \in 0..Len(t) : Over(t, sep, f[n])]
  <2>1. \E f : IsLoop(f, p, t, sep, first, Len(t))
    BY LoopExists
  <2> QED
    BY <2>1 DEF IsLoop, Loop, Final
<1>2. f[k] = r
  BY <1>1 DEF LoopAt
<1>3. PICK E : E = {n \in 0..Len(t) : Over(t, sep, f[n])}
  OBVIOUS
<1>4. E \in SUBSET (0..Len(t)) /\ k \in E
  BY <1>2, <1>3
<1>5. PICK last : last = CHOOSE n \in 0..Len(t) : Over(t, sep, f[n])
  OBVIOUS
<1>6. last \in E
  BY <1>3, <1>4, <1>5
<1>7. ASSUME NEW n \in E, n + 1 \in 0..Len(t) PROVE n + 1 \in E /\ f[n+1] = f[n]
  <2>1. n \in Nat /\ n + 1 # 0 /\ (n + 1) - 1 = n /\ Over(t, sep, f[n])
    BY <1>3, <1>4
  <2>2. f[n+1] = Turn(p, t, sep, f[(n + 1) - 1])
    BY <1>1, <1>7, <2>1 DEF IsLoop
  <2>3. f[n+1] = f[n]
    BY <2>1, <2>2 DEF Turn
  <2> QED
    BY <1>3, <1>7, <2>1, <2>3
<1>8. f[last] = r
  <2>1. CASE last <= k
    BY <1>2, <1>4, <1>6, <1>7, <2>1, OverStays
  <2>2. CASE k <= last
    BY <1>2, <1>4, <1>6, <1>7, <2>2, OverStays
  <2> QED
    BY <1>4, <1>6, <2>1, <2>2
<1> QED
  BY <1>1, <1>5, <1>8

\* f is what parse_action has after each of m turns.
IsAttrs(f, t, i, m) == f = [k \in 0..m |-> IF k = 0 THEN <<<<<<>>, <<>>>>, i>> ELSE Attribute(t, f[k-1])]
\* ... and r what it has after k.
AttrsAt(t, i, k, r) == \A f : IsAttrs(f, t, i, Len(t)) => f[k] = r

\* The loop is a function of the turns.
LEMMA AttrsExists ==
    ASSUME NEW t, NEW i, NEW m \in Nat
    PROVE  \E f : IsAttrs(f, t, i, m)
<1> DEFINE P == {k \in Nat : \E f : IsAttrs(f, t, i, k)}
<1>0. PICK start : start = <<<<<<>>, <<>>>>, i>>
  OBVIOUS
<1>1. 0 \in P
  <2>1. PICK f : f = [k \in 0..0 |-> start]
    OBVIOUS
  <2>2. f = [k \in 0..0 |-> IF k = 0 THEN start ELSE Attribute(t, f[k-1])]
    BY <2>1
  <2> QED
    BY <1>0, <2>2 DEF IsAttrs
<1>2. ASSUME NEW k \in P PROVE k + 1 \in P
  <2>1. PICK f : IsAttrs(f, t, i, k)
    OBVIOUS
  <2>2. PICK last : last = Attribute(t, f[k])
    OBVIOUS
  <2>3. PICK g : g = [n \in 0..(k + 1) |-> IF n <= k THEN f[n] ELSE last]
    OBVIOUS
  <2>4. k \in Nat /\ \A n \in 0..k : g[n] = f[n]
    BY <2>3
  <2>5. ASSUME NEW n \in 0..(k + 1)
        PROVE  g[n] = IF n = 0 THEN start ELSE Attribute(t, g[n-1])
    <3>1. CASE n \in 0..k
      <4>1. n # 0 => n - 1 \in 0..k
        BY <2>4, <3>1
      <4>2. n # 0 => g[n-1] = f[n-1]
        BY <2>4, <4>1
      <4>3. f[n] = IF n = 0 THEN start ELSE Attribute(t, f[n-1])
        BY <1>0, <2>1, <3>1 DEF IsAttrs
      <4> QED
        BY <2>4, <3>1, <4>2, <4>3
    <3>2. CASE n = k + 1
      <4>1. n # 0 /\ n - 1 = k /\ g[n] = last /\ g[n-1] = f[k]
        BY <2>3, <2>4, <3>2
      <4> QED
        BY <2>2, <4>1
    <3> QED
      BY <2>4, <3>1, <3>2
  <2>6. IsAttrs(g, t, i, k + 1)
    BY <1>0, <2>3, <2>5 DEF IsAttrs
  <2> QED
    BY <2>4, <2>6
<1> HIDE DEF P
<1>3. P = Nat
  <2>1. P \in SUBSET Nat
    BY DEF P
  <2> QED
    BY <1>1, <1>2, <2>1, NatInd
<1> QED
  BY <1>3 DEF P

\* Its turns, one by one.
LEMMA AttrsTurns ==
    ASSUME NEW t, NEW i, Len(t) \in Nat
    PROVE  /\ AttrsAt(t, i, 0, <<<<<<>>, <<>>>>, i>>)
           /\ \A k \in Nat : \A r, q :
                 /\ k + 1 <= Len(t) /\ AttrsAt(t, i, k, r)
                 /\ Attribute(t, r) = q
                 => AttrsAt(t, i, k + 1, q)
<1>0. PICK start : start = <<<<<<>>, <<>>>>, i>>
  OBVIOUS
<1>1. AttrsAt(t, i, 0, start)
  <2>1. ASSUME NEW f, IsAttrs(f, t, i, Len(t)) PROVE f[0] = start
    BY <1>0, <2>1 DEF IsAttrs
  <2> QED
    BY <2>1 DEF AttrsAt
<1>2. ASSUME NEW k \in Nat, NEW r, NEW q, k + 1 <= Len(t), AttrsAt(t, i, k, r),
             Attribute(t, r) = q
      PROVE  AttrsAt(t, i, k + 1, q)
  <2>1. ASSUME NEW f, IsAttrs(f, t, i, Len(t)) PROVE f[k+1] = q
    <3>1. f[k] = r
      BY <1>2, <2>1 DEF AttrsAt
    <3>2. k + 1 \in 0..Len(t) /\ k + 1 # 0 /\ (k + 1) - 1 = k
      BY <1>2
    <3>3. f[k+1] = Attribute(t, f[(k + 1) - 1])
      BY <2>1, <3>2 DEF IsAttrs
    <3> QED
      BY <1>2, <3>1, <3>2, <3>3
  <2> QED
    BY <2>1 DEF AttrsAt
<1> QED
  BY <1>0, <1>1, <1>2

\* parse_action has no more attributes to read.
AttrsOver(t, r) == Over(t, ",", r)

\* It returns what it has when it is over.
LEMMA AttrsEnds ==
    ASSUME NEW t, NEW i, Len(t) \in Nat, NEW k \in 0..Len(t), NEW r,
           AttrsAt(t, i, k, r), AttrsOver(t, r)
    PROVE  ParseAttrs(t, i) = r
<1>1. PICK f : /\ IsAttrs(f, t, i, Len(t))
               /\ ParseAttrs(t, i) = f[CHOOSE n \in 0..Len(t) : AttrsOver(t, f[n])]
  <2>1. \E f : IsAttrs(f, t, i, Len(t))
    BY AttrsExists
  <2> QED
    BY <2>1 DEF IsAttrs, ParseAttrs, AttrsOver, Final
<1>2. f[k] = r
  BY <1>1 DEF AttrsAt
<1>3. PICK E : E = {n \in 0..Len(t) : AttrsOver(t, f[n])}
  OBVIOUS
<1>4. E \in SUBSET (0..Len(t)) /\ k \in E
  BY <1>2, <1>3
<1>5. PICK last : last = CHOOSE n \in 0..Len(t) : AttrsOver(t, f[n])
  OBVIOUS
<1>6. last \in E
  BY <1>3, <1>4, <1>5
<1>7. ASSUME NEW n \in E, n + 1 \in 0..Len(t) PROVE n + 1 \in E /\ f[n+1] = f[n]
  <2>1. n \in Nat /\ n + 1 # 0 /\ (n + 1) - 1 = n /\ AttrsOver(t, f[n])
    BY <1>3, <1>4
  <2>2. f[n+1] = Attribute(t, f[(n + 1) - 1])
    BY <1>1, <1>7, <2>1 DEF IsAttrs
  <2>3. f[n+1] = f[n]
    BY <2>1, <2>2 DEF Attribute, AttrsOver
  <2> QED
    BY <1>3, <1>7, <2>1, <2>3
<1>8. f[last] = r
  <2>1. CASE last <= k
    BY <1>2, <1>4, <1>6, <1>7, <2>1, OverStays
  <2>2. CASE k <= last
    BY <1>2, <1>4, <1>6, <1>7, <2>2, OverStays
  <2> QED
    BY <1>4, <1>6, <2>1, <2>2
<1> QED
  BY <1>1, <1>5, <1>8

\* f is what parse has after each of m turns.
IsPolicies(f, t, m) == f = [k \in 0..m |-> IF k = 0 THEN <<<<>>, 1>> ELSE NextPolicy(t, f[k-1])]
\* ... and r what it has after k.
PoliciesAt(t, k, r) == \A f : IsPolicies(f, t, Len(t)) => f[k] = r

\* The loop is a function of the turns.
LEMMA PoliciesExists ==
    ASSUME NEW t, NEW m \in Nat
    PROVE  \E f : IsPolicies(f, t, m)
<1> DEFINE P == {k \in Nat : \E f : IsPolicies(f, t, k)}
<1>0. PICK start : start = <<<<>>, 1>>
  OBVIOUS
<1>1. 0 \in P
  <2>1. PICK f : f = [k \in 0..0 |-> start]
    OBVIOUS
  <2>2. f = [k \in 0..0 |-> IF k = 0 THEN start ELSE NextPolicy(t, f[k-1])]
    BY <2>1
  <2> QED
    BY <1>0, <2>2 DEF IsPolicies
<1>2. ASSUME NEW k \in P PROVE k + 1 \in P
  <2>1. PICK f : IsPolicies(f, t, k)
    OBVIOUS
  <2>2. PICK last : last = NextPolicy(t, f[k])
    OBVIOUS
  <2>3. PICK g : g = [n \in 0..(k + 1) |-> IF n <= k THEN f[n] ELSE last]
    OBVIOUS
  <2>4. k \in Nat /\ \A n \in 0..k : g[n] = f[n]
    BY <2>3
  <2>5. ASSUME NEW n \in 0..(k + 1)
        PROVE  g[n] = IF n = 0 THEN start ELSE NextPolicy(t, g[n-1])
    <3>1. CASE n \in 0..k
      <4>1. n # 0 => n - 1 \in 0..k
        BY <2>4, <3>1
      <4>2. n # 0 => g[n-1] = f[n-1]
        BY <2>4, <4>1
      <4>3. f[n] = IF n = 0 THEN start ELSE NextPolicy(t, f[n-1])
        BY <1>0, <2>1, <3>1 DEF IsPolicies
      <4> QED
        BY <2>4, <3>1, <4>2, <4>3
    <3>2. CASE n = k + 1
      <4>1. n # 0 /\ n - 1 = k /\ g[n] = last /\ g[n-1] = f[k]
        BY <2>3, <2>4, <3>2
      <4> QED
        BY <2>2, <4>1
    <3> QED
      BY <2>4, <3>1, <3>2
  <2>6. IsPolicies(g, t, k + 1)
    BY <1>0, <2>3, <2>5 DEF IsPolicies
  <2> QED
    BY <2>4, <2>6
<1> HIDE DEF P
<1>3. P = Nat
  <2>1. P \in SUBSET Nat
    BY DEF P
  <2> QED
    BY <1>1, <1>2, <2>1, NatInd
<1> QED
  BY <1>3 DEF P

\* Its turns, one by one.
LEMMA PoliciesTurns ==
    ASSUME NEW t, Len(t) \in Nat
    PROVE  /\ PoliciesAt(t, 0, <<<<>>, 1>>)
           /\ \A k \in Nat : \A r, q :
                 /\ k + 1 <= Len(t) /\ PoliciesAt(t, k, r)
                 /\ NextPolicy(t, r) = q
                 => PoliciesAt(t, k + 1, q)
<1>0. PICK start : start = <<<<>>, 1>>
  OBVIOUS
<1>1. PoliciesAt(t, 0, start)
  <2>1. ASSUME NEW f, IsPolicies(f, t, Len(t)) PROVE f[0] = start
    BY <1>0, <2>1 DEF IsPolicies
  <2> QED
    BY <2>1 DEF PoliciesAt
<1>2. ASSUME NEW k \in Nat, NEW r, NEW q, k + 1 <= Len(t), PoliciesAt(t, k, r),
             NextPolicy(t, r) = q
      PROVE  PoliciesAt(t, k + 1, q)
  <2>1. ASSUME NEW f, IsPolicies(f, t, Len(t)) PROVE f[k+1] = q
    <3>1. f[k] = r
      BY <1>2, <2>1 DEF PoliciesAt
    <3>2. k + 1 \in 0..Len(t) /\ k + 1 # 0 /\ (k + 1) - 1 = k
      BY <1>2
    <3>3. f[k+1] = NextPolicy(t, f[(k + 1) - 1])
      BY <2>1, <3>2 DEF IsPolicies
    <3> QED
      BY <1>2, <3>1, <3>2, <3>3
  <2> QED
    BY <2>1 DEF PoliciesAt
<1> QED
  BY <1>0, <1>1, <1>2

\* It returns what it has when it is over.
LEMMA PoliciesEnds ==
    ASSUME NEW t, Len(t) \in Nat, NEW k \in 0..Len(t), NEW r,
           PoliciesAt(t, k, r), AtEnd(t, r)
    PROVE  ParsePolicies(t) = r
<1>1. PICK f : /\ IsPolicies(f, t, Len(t))
               /\ ParsePolicies(t) = f[CHOOSE n \in 0..Len(t) : AtEnd(t, f[n])]
  <2>1. \E f : IsPolicies(f, t, Len(t))
    BY PoliciesExists
  <2> QED
    BY <2>1 DEF IsPolicies, ParsePolicies, Whole
<1>2. f[k] = r
  BY <1>1 DEF PoliciesAt
<1>3. PICK E : E = {n \in 0..Len(t) : AtEnd(t, f[n])}
  OBVIOUS
<1>4. E \in SUBSET (0..Len(t)) /\ k \in E
  BY <1>2, <1>3
<1>5. PICK last : last = CHOOSE n \in 0..Len(t) : AtEnd(t, f[n])
  OBVIOUS
<1>6. last \in E
  BY <1>3, <1>4, <1>5
<1>7. ASSUME NEW n \in E, n + 1 \in 0..Len(t) PROVE n + 1 \in E /\ f[n+1] = f[n]
  <2>1. n \in Nat /\ n + 1 # 0 /\ (n + 1) - 1 = n /\ AtEnd(t, f[n])
    BY <1>3, <1>4
  <2>2. f[n+1] = NextPolicy(t, f[(n + 1) - 1])
    BY <1>1, <1>7, <2>1 DEF IsPolicies
  <2>3. f[n+1] = f[n]
    BY <2>1, <2>2 DEF NextPolicy
  <2> QED
    BY <1>3, <1>7, <2>1, <2>3
<1>8. f[last] = r
  <2>1. CASE last <= k
    BY <1>2, <1>4, <1>6, <1>7, <2>1, OverStays
  <2>2. CASE k <= last
    BY <1>2, <1>4, <1>6, <1>7, <2>2, OverStays
  <2> QED
    BY <1>4, <1>6, <2>1, <2>2
<1> QED
  BY <1>1, <1>5, <1>8

-----------------------------------------------------------------------------
(* What each method reads.                                                 *)

\* The tokens of a program that an author writes.
Lits == {"Bool", "Int", "Str"} \X (BOOLEAN \cup Nat \cup Seq(Nat))
Idents == STRING \cup Contents
Words ==
    BinOps \cup {"not", "in", "(", ")", ",", ".", "policy", "{", "when", "then", "block", "review",
                "evidence", "reason", "=", "}"}
Tok == {<<w>> : w \in Words} \cup ({"lit"} \X Lits) \cup ({"ident"} \X Idents)
Text(s) == s \in Seq(Tok) /\ Len(s) > 0 /\ s[1][1] # ")"

\* The tokens s stand at position j of t.
Stands(t, j, s) ==
    /\ j \in Nat /\ j > 0 /\ j + Len(s) <= Len(t) + 1
    /\ \A k \in 1..Len(s) : t[(j + k) - 1] = s[k]

\* One text after another.
LEMMA StandBoth ==
    ASSUME NEW t, Len(t) \in Nat, NEW j, NEW a \in Seq(Tok), NEW b \in Seq(Tok),
           Stands(t, j, a \o b)
    PROVE  Stands(t, j, a) /\ Stands(t, j + Len(a), b) /\ Len(a \o b) = Len(a) + Len(b)
<1>1. PICK c : c = a \o b
  OBVIOUS
<1>2. /\ Len(c) = Len(a) + Len(b) /\ Len(a) \in Nat /\ Len(b) \in Nat
      /\ \A i \in 1..Len(a) : c[i] = a[i]
      /\ \A i \in 1..Len(b) : c[Len(a) + i] = b[i]
  BY <1>1, ConcatFacts
<1>3. /\ j \in Nat /\ j > 0 /\ j + Len(c) <= Len(t) + 1
      /\ \A k \in 1..Len(c) : t[(j + k) - 1] = c[k]
  BY <1>1 DEF Stands
<1>4. ASSUME NEW k \in 1..Len(a) PROVE t[(j + k) - 1] = a[k]
  <2>1. k \in 1..Len(c)
    BY <1>2
  <2> QED
    BY <1>2, <1>3, <2>1
<1>5. ASSUME NEW k \in 1..Len(b) PROVE t[((j + Len(a)) + k) - 1] = b[k]
  <2>1. PICK i : i = Len(a) + k
    OBVIOUS
  <2>2. i \in 1..Len(c) /\ ((j + Len(a)) + k) - 1 = (j + i) - 1
    BY <1>2, <1>3, <2>1
  <2>3. t[(j + i) - 1] = c[i]
    BY <1>3, <2>2
  <2> QED
    BY <1>2, <2>1, <2>2, <2>3
<1>6. /\ j + Len(a) \in Nat /\ j + Len(a) > 0 /\ (j + Len(a)) + Len(b) <= Len(t) + 1
      /\ j + Len(a) <= Len(t) + 1
  BY <1>2, <1>3
<1> QED
  BY <1>1, <1>2, <1>3, <1>4, <1>5, <1>6 DEF Stands

\* One token.
LEMMA StandOne ==
    ASSUME NEW t, Len(t) \in Nat, NEW j, NEW x, Stands(t, j, <<x>>)
    PROVE  t[j] = x /\ Peek(t, j) = x[1] /\ j \in Nat /\ j > 0 /\ j <= Len(t)
<1>1. /\ j \in Nat /\ j > 0 /\ j + 1 <= Len(t) + 1 /\ t[(j + 1) - 1] = x
  BY DEF Stands
<1>2. t[j] = x /\ j <= Len(t)
  BY <1>1
<1> QED
  BY <1>1, <1>2 DEF Peek

\* The first token of a text.
LEMMA StandFirst ==
    ASSUME NEW t, Len(t) \in Nat, NEW j, NEW s, Text(s), Stands(t, j, s)
    PROVE  /\ Peek(t, j) = s[1][1] /\ j \in Nat /\ j > 0 /\ Len(s) \in Nat /\ Len(s) > 0
           /\ j + Len(s) \in Nat /\ j + Len(s) > 0 /\ j + Len(s) <= Len(t) + 1
<1>1. Len(s) \in Nat /\ Len(s) > 0
  BY DEF Text
<1>2. j \in Nat /\ j > 0 /\ j + Len(s) <= Len(t) + 1 /\ t[(j + 1) - 1] = s[1]
  BY <1>1 DEF Stands
<1>3. t[j] = s[1] /\ j <= Len(t)
  BY <1>1, <1>2
<1> QED
  BY <1>1, <1>2, <1>3 DEF Peek

\* Tokens, and texts of one.
LEMMA Tokens1 ==
    /\ \A w \in Words : <<<<w>>>> \in Seq(Tok) /\ Len(<<<<w>>>>) = 1
    /\ \A v \in Lits : <<<<"lit", v>>>> \in Seq(Tok) /\ Len(<<<<"lit", v>>>>) = 1
    /\ \A f \in Idents : <<<<"ident", f>>>> \in Seq(Tok) /\ Len(<<<<"ident", f>>>>) = 1
<1>1. ASSUME NEW x \in Tok PROVE <<x>> \in Seq(Tok) /\ Len(<<x>>) = 1
  OBVIOUS
<1>2. \A w \in Words : <<w>> \in Tok
  BY DEF Tok
<1>3. \A v \in Lits : <<"lit", v>> \in Tok
  BY DEF Tok
<1>4. \A f \in Idents : <<"ident", f>> \in Tok
  BY DEF Tok
<1> QED
  BY <1>1, <1>2, <1>3, <1>4

\* The methods, one call each.
LEMMA MethodsAre ==
    ASSUME NEW t, Len(t) \in Nat, NEW n \in 1..OpenCalls(t), NEW j \in Nat
    PROVE  /\ Methods(t)[n]["or"][j] = ParseOr(Methods(t)[n-1], t, j)
           /\ Methods(t)[n]["and"][j] = ParseAnd(Methods(t)[n-1], t, j)
           /\ Methods(t)[n]["not"][j] = ParseNot(Methods(t)[n-1], t, j)
           /\ Methods(t)[n]["compare"][j] = ParseCompare(Methods(t)[n-1], t, j)
           /\ Methods(t)[n]["membership"][j] = ParseMembership(Methods(t)[n-1], t, j)
           /\ Methods(t)[n]["primary"][j] = ParsePrimary(Methods(t)[n-1], t, j)
<1>1. PICK m, p : m = Methods(t)[n] /\ p = Methods(t)[n-1]
  OBVIOUS
<1>2. ASSUME NEW rule \in Rules PROVE m[rule][j] = ParseRule(p, t, rule, j)
  BY <1>1, MethodIs
<1>3. /\ m["or"][j] = ParseRule(p, t, "or", j) /\ m["and"][j] = ParseRule(p, t, "and", j)
      /\ m["not"][j] = ParseRule(p, t, "not", j)
      /\ m["compare"][j] = ParseRule(p, t, "compare", j)
      /\ m["membership"][j] = ParseRule(p, t, "membership", j)
      /\ m["primary"][j] = ParseRule(p, t, "primary", j)
  BY <1>2, Zenon DEF Rules
<1>4. /\ ParseRule(p, t, "or", j) = ParseOr(p, t, j)
      /\ ParseRule(p, t, "and", j) = ParseAnd(p, t, j)
      /\ ParseRule(p, t, "not", j) = ParseNot(p, t, j)
      /\ ParseRule(p, t, "compare", j) = ParseCompare(p, t, j)
      /\ ParseRule(p, t, "membership", j) = ParseMembership(p, t, j)
      /\ ParseRule(p, t, "primary", j) = ParsePrimary(p, t, j)
  BY DEF ParseRule
<1> QED
  BY <1>1, <1>3, <1>4, Zenon

-----------------------------------------------------------------------------
(* A text is read at a level of the precedence table: the method of the level *)
(* returns the expression and the position after the text, whatever the       *)
(* program around it, if the token that follows is none that the method, or   *)
(* one that it calls, goes on with.  calls is how many open calls it takes.   *)

PrimaryGoes == {".", "("}
MembershipGoes == PrimaryGoes \cup {"in", "not"}
CompareGoes == MembershipGoes \cup Comparisons
AndGoes == CompareGoes \cup {"and"}
OrGoes == AndGoes \cup {"or"}

\* The text s stands at j, and n calls may be open.
Placed(t, j, s, goes, calls, n) ==
    /\ t \in Seq(Tok) /\ Stands(t, j, s) /\ Peek(t, j + Len(s)) \notin goes
    /\ n \in Nat /\ n >= 6 * Len(s) + calls /\ n <= OpenCalls(t)
Primary(x, s) ==
    /\ Text(s) /\ s[1][1] # "not"
    /\ \A t, j, n : Placed(t, j, s, PrimaryGoes, 1, n) =>
           Methods(t)[n]["primary"][j] = <<x, j + Len(s)>>
Membership(x, s) ==
    /\ Text(s) /\ s[1][1] # "not"
    /\ \A t, j, n : Placed(t, j, s, MembershipGoes, 2, n) =>
           Methods(t)[n]["membership"][j] = <<x, j + Len(s)>>
Compare(x, s) ==
    /\ Text(s) /\ s[1][1] # "not"
    /\ \A t, j, n : Placed(t, j, s, CompareGoes, 3, n) =>
           Methods(t)[n]["compare"][j] = <<x, j + Len(s)>>
Negation(x, s) ==
    /\ Text(s)
    /\ \A t, j, n : Placed(t, j, s, CompareGoes, 4, n) =>
           Methods(t)[n]["not"][j] = <<x, j + Len(s)>>
\* The loops of parse_and and parse_or have x after some turns, and may go on.
Ands(x, s) ==
    /\ Text(s)
    /\ \A t, j, n : Placed(t, j, s, CompareGoes, 4, n) =>
           \E k \in Nat : /\ k < Len(s)
                          /\ LoopAt(Methods(t)[n], t, "and", Methods(t)[n]["not"][j], k,
                                    <<x, j + Len(s)>>)
Conjunction(x, s) ==
    /\ Text(s)
    /\ \A t, j, n : Placed(t, j, s, AndGoes, 5, n) =>
           Methods(t)[n]["and"][j] = <<x, j + Len(s)>>
Ors(x, s) ==
    /\ Text(s)
    /\ \A t, j, n : Placed(t, j, s, AndGoes, 5, n) =>
           \E k \in Nat : /\ k < Len(s)
                          /\ LoopAt(Methods(t)[n], t, "or", Methods(t)[n]["and"][j], k,
                                    <<x, j + Len(s)>>)
Disjunction(x, s) ==
    /\ Text(s)
    /\ \A t, j, n : Placed(t, j, s, OrGoes, 6, n) =>
           Methods(t)[n]["or"][j] = <<x, j + Len(s)>>

\* What a place gives.
LEMMA PlacedFacts ==
    ASSUME NEW s, Text(s), NEW t, NEW j, NEW n, NEW goes, NEW calls \in Nat,
           Placed(t, j, s, goes, calls, n)
    PROVE  /\ t \in Seq(Tok) /\ Len(t) \in Nat /\ j \in Nat /\ j > 0 /\ Stands(t, j, s)
           /\ Peek(t, j) = s[1][1] /\ Peek(t, j + Len(s)) \notin goes
           /\ Len(s) \in Nat /\ Len(s) > 0
           /\ j + Len(s) \in Nat /\ j + Len(s) > 0 /\ j + Len(s) <= Len(t) + 1
           /\ n \in Nat /\ n >= 1 /\ n - 1 \in Nat /\ n <= OpenCalls(t)
           /\ n >= 6 * Len(s) + calls /\ OpenCalls(t) \in Nat
<1>1. t \in Seq(Tok) /\ Len(t) \in Nat /\ Stands(t, j, s) /\ Peek(t, j + Len(s)) \notin goes
  BY DEF Placed
<1>2. /\ Peek(t, j) = s[1][1] /\ j \in Nat /\ j > 0 /\ Len(s) \in Nat /\ Len(s) > 0
      /\ j + Len(s) \in Nat /\ j + Len(s) > 0 /\ j + Len(s) <= Len(t) + 1
  BY <1>1, StandFirst
<1>3. n \in Nat /\ n >= 6 * Len(s) + calls /\ n <= OpenCalls(t)
  BY DEF Placed
<1>4. n >= 1 /\ n - 1 \in Nat
  BY <1>2, <1>3
<1>5. OpenCalls(t) \in Nat
  BY <1>1 DEF OpenCalls
<1> QED
  BY <1>1, <1>2, <1>3, <1>4, <1>5

\* A primary alone.
LEMMA MembershipLift ==
    ASSUME NEW x, NEW s, Primary(x, s)
    PROVE  Membership(x, s)
<1>1. Text(s) /\ s[1][1] # "not"
  BY DEF Primary
<1>2. ASSUME NEW t, NEW j, NEW n, Placed(t, j, s, MembershipGoes, 2, n)
      PROVE  Methods(t)[n]["membership"][j] = <<x, j + Len(s)>>
  <2>1. /\ t \in Seq(Tok) /\ Len(t) \in Nat /\ j \in Nat /\ Stands(t, j, s)
        /\ Peek(t, j + Len(s)) \notin MembershipGoes
        /\ n \in Nat /\ n >= 1 /\ n - 1 \in Nat /\ n <= OpenCalls(t) /\ OpenCalls(t) \in Nat
        /\ n >= 6 * Len(s) + 2 /\ j + Len(s) \in Nat /\ j + Len(s) > 0 /\ Len(s) \in Nat
    BY <1>1, <1>2, PlacedFacts
  <2>2. PICK p, m : p = Methods(t)[n-1] /\ m = Methods(t)[n]
    OBVIOUS
  <2>3. Placed(t, j, s, PrimaryGoes, 1, n - 1)
    BY <2>1 DEF Placed, MembershipGoes
  <2>4. p["primary"][j] = <<x, j + Len(s)>>
    BY <2>2, <2>3 DEF Primary
  <2>5. m["membership"][j] = ParseMembership(p, t, j)
    <3>1. Len(t) \in Nat /\ n \in 1..OpenCalls(t) /\ j \in Nat
      BY <2>1
    <3> QED
      BY <3>1, <2>2, MethodsAre, Zenon
  <2>6. PICK i : i = j + Len(s)
    OBVIOUS
  <2>7. i # 0 /\ Peek(t, i) # "in" /\ Peek(t, i) # "not" /\ p["primary"][j] = <<x, i>>
    BY <2>1, <2>4, <2>6 DEF MembershipGoes
  <2>8. ParseMembership(p, t, j) = <<x, i>>
    BY <2>7 DEF ParseMembership, Failed
  <2> QED
    BY <2>2, <2>5, <2>6, <2>8
<1> QED
  BY <1>1, <1>2 DEF Membership

\* A membership alone.
LEMMA CompareLift ==
    ASSUME NEW x, NEW s, Membership(x, s)
    PROVE  Compare(x, s)
<1>1. Text(s) /\ s[1][1] # "not"
  BY DEF Membership
<1>2. ASSUME NEW t, NEW j, NEW n, Placed(t, j, s, CompareGoes, 3, n)
      PROVE  Methods(t)[n]["compare"][j] = <<x, j + Len(s)>>
  <2>1. /\ t \in Seq(Tok) /\ Len(t) \in Nat /\ j \in Nat /\ Stands(t, j, s)
        /\ Peek(t, j + Len(s)) \notin CompareGoes
        /\ n \in Nat /\ n >= 1 /\ n - 1 \in Nat /\ n <= OpenCalls(t) /\ OpenCalls(t) \in Nat
        /\ n >= 6 * Len(s) + 3 /\ j + Len(s) \in Nat /\ j + Len(s) > 0 /\ Len(s) \in Nat
    BY <1>1, <1>2, PlacedFacts
  <2>2. PICK p, m : p = Methods(t)[n-1] /\ m = Methods(t)[n]
    OBVIOUS
  <2>3. Placed(t, j, s, MembershipGoes, 2, n - 1)
    BY <2>1 DEF Placed, CompareGoes
  <2>4. p["membership"][j] = <<x, j + Len(s)>>
    BY <2>2, <2>3 DEF Membership
  <2>5. m["compare"][j] = ParseCompare(p, t, j)
    <3>1. Len(t) \in Nat /\ n \in 1..OpenCalls(t) /\ j \in Nat
      BY <2>1
    <3> QED
      BY <3>1, <2>2, MethodsAre, Zenon
  <2>6. PICK i : i = j + Len(s)
    OBVIOUS
  <2>7. i # 0 /\ Peek(t, i) \notin Comparisons /\ p["membership"][j] = <<x, i>>
    BY <2>1, <2>4, <2>6 DEF CompareGoes
  <2>8. ParseCompare(p, t, j) = <<x, i>>
    BY <2>7 DEF ParseCompare, Failed
  <2> QED
    BY <2>2, <2>5, <2>6, <2>8
<1> QED
  BY <1>1, <1>2 DEF Compare

\* A comparison does not begin with `not`.
LEMMA NegationLift ==
    ASSUME NEW x, NEW s, Compare(x, s)
    PROVE  Negation(x, s)
<1>1. Text(s) /\ s[1][1] # "not"
  BY DEF Compare
<1>2. ASSUME NEW t, NEW j, NEW n, Placed(t, j, s, CompareGoes, 4, n)
      PROVE  Methods(t)[n]["not"][j] = <<x, j + Len(s)>>
  <2>1. /\ t \in Seq(Tok) /\ Len(t) \in Nat /\ j \in Nat /\ Stands(t, j, s)
        /\ Peek(t, j) = s[1][1] /\ Peek(t, j + Len(s)) \notin CompareGoes
        /\ n \in Nat /\ n >= 1 /\ n - 1 \in Nat /\ n <= OpenCalls(t) /\ OpenCalls(t) \in Nat
        /\ n >= 6 * Len(s) + 4 /\ j + Len(s) \in Nat /\ Len(s) \in Nat
    BY <1>1, <1>2, PlacedFacts
  <2>2. PICK p, m : p = Methods(t)[n-1] /\ m = Methods(t)[n]
    OBVIOUS
  <2>3. Placed(t, j, s, CompareGoes, 3, n - 1)
    BY <2>1 DEF Placed
  <2>4. p["compare"][j] = <<x, j + Len(s)>>
    BY <2>2, <2>3 DEF Compare
  <2>5. m["not"][j] = ParseNot(p, t, j)
    <3>1. Len(t) \in Nat /\ n \in 1..OpenCalls(t) /\ j \in Nat
      BY <2>1
    <3> QED
      BY <3>1, <2>2, MethodsAre, Zenon
  <2>6. ParseNot(p, t, j) = p["compare"][j]
    BY <1>1, <2>1 DEF ParseNot
  <2> QED
    BY <2>2, <2>4, <2>5, <2>6
<1> QED
  BY <1>1, <1>2 DEF Negation

\* One operand is a chain without turns.
LEMMA AndsLift ==
    ASSUME NEW x, NEW s, Negation(x, s)
    PROVE  Ands(x, s)
<1>1. Text(s)
  BY DEF Negation
<1>2. ASSUME NEW t, NEW j, NEW n, Placed(t, j, s, CompareGoes, 4, n)
      PROVE  \E k \in Nat : /\ k < Len(s)
                            /\ LoopAt(Methods(t)[n], t, "and", Methods(t)[n]["not"][j], k,
                                      <<x, j + Len(s)>>)
  <2>1. Len(t) \in Nat /\ Len(s) \in Nat /\ Len(s) > 0
    BY <1>1, <1>2, PlacedFacts
  <2>2. PICK m, first, sep : m = Methods(t)[n] /\ first = Methods(t)[n]["not"][j] /\ sep = "and"
    OBVIOUS
  <2>3. first = <<x, j + Len(s)>>
    BY <1>2, <2>2 DEF Negation
  <2>4. LoopAt(m, t, sep, first, 0, first)
    BY <2>1, LoopTurns
  <2>5. LoopAt(m, t, sep, first, 0, <<x, j + Len(s)>>)
    BY <2>3, <2>4, Zenon
  <2>6. 0 \in Nat /\ 0 < Len(s)
    BY <2>1
  <2>7. LoopAt(Methods(t)[n], t, "and", Methods(t)[n]["not"][j], 0, <<x, j + Len(s)>>)
    BY <2>2, <2>5, Zenon
  <2> QED
    BY <2>6, <2>7, Zenon
<1> QED
  BY <1>1, <1>2, Zenon DEF Ands

\* A chain that is not followed by its operator.
LEMMA ConjunctionLift ==
    ASSUME NEW x, NEW s, Ands(x, s)
    PROVE  Conjunction(x, s)
<1>1. Text(s)
  BY DEF Ands
<1>2. ASSUME NEW t, NEW j, NEW n, Placed(t, j, s, AndGoes, 5, n)
      PROVE  Methods(t)[n]["and"][j] = <<x, j + Len(s)>>
  <2>1. /\ t \in Seq(Tok) /\ Len(t) \in Nat /\ j \in Nat /\ Stands(t, j, s)
        /\ Peek(t, j + Len(s)) \notin AndGoes /\ j > 0 /\ j + Len(s) <= Len(t) + 1
        /\ n \in Nat /\ n >= 1 /\ n - 1 \in Nat /\ n <= OpenCalls(t) /\ OpenCalls(t) \in Nat
        /\ n >= 6 * Len(s) + 5 /\ j + Len(s) \in Nat /\ j + Len(s) > 0 /\ Len(s) \in Nat
    BY <1>1, <1>2, PlacedFacts
  <2>2. PICK p, m, sep, first : /\ p = Methods(t)[n-1] /\ m = Methods(t)[n] /\ sep = "and"
                                /\ first = p["not"][j]
    OBVIOUS
  <2>3. Placed(t, j, s, CompareGoes, 4, n - 1)
    BY <2>1 DEF Placed, AndGoes
  <2>4. PICK i : i = j + Len(s)
    OBVIOUS
  <2>5. PICK k \in Nat : k < Len(s) /\ LoopAt(p, t, sep, first, k, <<x, i>>)
    BY <2>2, <2>3, <2>4, Zenon DEF Ands
  <2>6. m["and"][j] = ParseAnd(p, t, j)
    <3>1. Len(t) \in Nat /\ n \in 1..OpenCalls(t) /\ j \in Nat
      BY <2>1
    <3> QED
      BY <3>1, <2>2, MethodsAre, Zenon
  <2>7. Over(t, sep, <<x, i>>)
    BY <2>1, <2>2, <2>4 DEF Over, AndGoes
  <2>8. k \in 0..Len(t)
    BY <2>1, <2>5
  <2>9. Loop(p, t, sep, first) = <<x, i>>
    BY <2>1, <2>5, <2>7, <2>8, LoopEnds
  <2>10. ParseAnd(p, t, j) = Loop(p, t, sep, first)
    BY <2>2, Zenon DEF ParseAnd
  <2> QED
    BY <2>2, <2>4, <2>6, <2>9, <2>10, Zenon
<1> QED
  BY <1>1, <1>2, Zenon DEF Conjunction

\* The same for `or`.
LEMMA OrsLift ==
    ASSUME NEW x, NEW s, Conjunction(x, s)
    PROVE  Ors(x, s)
<1>1. Text(s)
  BY DEF Conjunction
<1>2. ASSUME NEW t, NEW j, NEW n, Placed(t, j, s, AndGoes, 5, n)
      PROVE  \E k \in Nat : /\ k < Len(s)
                            /\ LoopAt(Methods(t)[n], t, "or", Methods(t)[n]["and"][j], k,
                                      <<x, j + Len(s)>>)
  <2>1. Len(t) \in Nat /\ Len(s) \in Nat /\ Len(s) > 0
    BY <1>1, <1>2, PlacedFacts
  <2>2. PICK m, first, sep : m = Methods(t)[n] /\ first = Methods(t)[n]["and"][j] /\ sep = "or"
    OBVIOUS
  <2>3. first = <<x, j + Len(s)>>
    BY <1>2, <2>2 DEF Conjunction
  <2>4. LoopAt(m, t, sep, first, 0, first)
    BY <2>1, LoopTurns
  <2>5. LoopAt(m, t, sep, first, 0, <<x, j + Len(s)>>)
    BY <2>3, <2>4, Zenon
  <2>6. 0 \in Nat /\ 0 < Len(s)
    BY <2>1
  <2>7. LoopAt(Methods(t)[n], t, "or", Methods(t)[n]["and"][j], 0, <<x, j + Len(s)>>)
    BY <2>2, <2>5, Zenon
  <2> QED
    BY <2>6, <2>7, Zenon
<1> QED
  BY <1>1, <1>2, Zenon DEF Ors

\* A chain of `or` that ends here is what parse_or returns.
LEMMA DisjunctionLift ==
    ASSUME NEW x, NEW s, Ors(x, s)
    PROVE  Disjunction(x, s)
<1>1. Text(s)
  BY DEF Ors
<1>2. ASSUME NEW t, NEW j, NEW n, Placed(t, j, s, OrGoes, 6, n)
      PROVE  Methods(t)[n]["or"][j] = <<x, j + Len(s)>>
  <2>1. /\ t \in Seq(Tok) /\ Len(t) \in Nat /\ j \in Nat /\ Stands(t, j, s)
        /\ Peek(t, j + Len(s)) \notin OrGoes /\ j > 0 /\ j + Len(s) <= Len(t) + 1
        /\ n \in Nat /\ n >= 1 /\ n - 1 \in Nat /\ n <= OpenCalls(t) /\ OpenCalls(t) \in Nat
        /\ n >= 6 * Len(s) + 6 /\ j + Len(s) \in Nat /\ j + Len(s) > 0 /\ Len(s) \in Nat
    BY <1>1, <1>2, PlacedFacts
  <2>2. PICK p, m, sep, first : /\ p = Methods(t)[n-1] /\ m = Methods(t)[n] /\ sep = "or"
                                /\ first = p["and"][j]
    OBVIOUS
  <2>3. Placed(t, j, s, AndGoes, 5, n - 1)
    BY <2>1 DEF Placed, OrGoes
  <2>4. PICK i : i = j + Len(s)
    OBVIOUS
  <2>5. PICK k \in Nat : k < Len(s) /\ LoopAt(p, t, sep, first, k, <<x, i>>)
    BY <2>2, <2>3, <2>4, Zenon DEF Ors
  <2>6. m["or"][j] = ParseOr(p, t, j)
    <3>1. Len(t) \in Nat /\ n \in 1..OpenCalls(t) /\ j \in Nat
      BY <2>1
    <3> QED
      BY <3>1, <2>2, MethodsAre, Zenon
  <2>7. Over(t, sep, <<x, i>>)
    BY <2>1, <2>2, <2>4 DEF Over, OrGoes
  <2>8. k \in 0..Len(t)
    BY <2>1, <2>5
  <2>9. Loop(p, t, sep, first) = <<x, i>>
    BY <2>1, <2>5, <2>7, <2>8, LoopEnds
  <2>10. ParseOr(p, t, j) = Loop(p, t, sep, first)
    BY <2>2, Zenon DEF ParseOr
  <2> QED
    BY <2>2, <2>4, <2>6, <2>9, <2>10, Zenon
<1> QED
  BY <1>1, <1>2, Zenon DEF Disjunction

-----------------------------------------------------------------------------
(* The constructs, each read at its level when its parts are at theirs.      *)

\* Concatenation, kept whole where only the lemmas below matter.
Both(a, b) == a \o b
Between(a, w, b) == a \o <<<<w>>>> \o b

\* A text and what comes after it.
LEMMA TextJoin ==
    ASSUME NEW a, Text(a), NEW b \in Seq(Tok)
    PROVE  /\ Text(Both(a, b)) /\ Both(a, b) \in Seq(Tok)
           /\ Len(Both(a, b)) = Len(a) + Len(b) /\ Both(a, b)[1] = a[1]
<1>1. a \in Seq(Tok) /\ Len(a) \in Nat /\ Len(a) > 0 /\ Len(b) \in Nat
  BY DEF Text
<1>2. PICK c : c = a \o b
  OBVIOUS
<1>3. c \in Seq(Tok) /\ Len(c) = Len(a) + Len(b) /\ \A i \in 1..Len(a) : c[i] = a[i]
  BY <1>1, <1>2, ConcatFacts
<1>4. 1 \in 1..Len(a) /\ Len(c) > 0
  BY <1>1, <1>3
<1>5. Text(c) /\ c[1] = a[1]
  BY <1>3, <1>4 DEF Text
<1>6. c = Both(a, b)
  BY <1>2, Zenon DEF Both
<1> QED
  BY <1>3, <1>5, <1>6, Zenon

\* It stands where the whole stands.
LEMMA StandJoin ==
    ASSUME NEW a \in Seq(Tok), NEW b \in Seq(Tok), NEW t, Len(t) \in Nat, NEW j,
           Stands(t, j, Both(a, b))
    PROVE  Stands(t, j, a) /\ Stands(t, j + Len(a), b)
<1>1. Stands(t, j, a \o b)
  BY Zenon DEF Both
<1> QED
  BY <1>1, StandBoth, Zenon

\* A word between two texts.
LEMMA Infix ==
    ASSUME NEW a, Text(a), NEW b, Text(b), NEW w \in Words
    PROVE  /\ Text(Between(a, w, b)) /\ Len(Between(a, w, b)) = Len(a) + Len(b) + 1
           /\ Between(a, w, b)[1] = a[1]
           /\ \A t, j : Len(t) \in Nat /\ Stands(t, j, Between(a, w, b)) =>
                  /\ Stands(t, j, a) /\ Peek(t, j + Len(a)) = w
                  /\ Stands(t, (j + Len(a)) + 1, b)
<1>1. a \in Seq(Tok) /\ b \in Seq(Tok) /\ Len(a) \in Nat /\ Len(b) \in Nat /\ Len(a) > 0
  BY DEF Text
<1>2. PICK o : o = <<<<w>>>>
  OBVIOUS
<1>3. o \in Seq(Tok) /\ Len(o) = 1
  BY <1>2, Tokens1
<1>4. PICK d : d = Both(a, o)
  OBVIOUS
<1>5. Text(d) /\ d \in Seq(Tok) /\ Len(d) = Len(a) + Len(o) /\ d[1] = a[1]
  BY <1>3, <1>4, TextJoin, Zenon
<1>6. PICK c : c = Both(d, b)
  OBVIOUS
<1>7. Text(c) /\ Len(c) = Len(d) + Len(b) /\ c[1] = d[1]
  BY <1>1, <1>5, <1>6, TextJoin, Zenon
<1>8. ASSUME NEW t, NEW j, Len(t) \in Nat, Stands(t, j, c)
      PROVE  /\ Stands(t, j, a) /\ Peek(t, j + Len(a)) = w
             /\ Stands(t, (j + Len(a)) + 1, b)
  <2>1. Stands(t, j, d) /\ Stands(t, j + Len(d), b)
    BY <1>1, <1>5, <1>6, <1>8, StandJoin, Zenon
  <2>2. Stands(t, j, a) /\ Stands(t, j + Len(a), o)
    BY <1>1, <1>3, <1>4, <1>8, <2>1, StandJoin, Zenon
  <2>3. j + Len(d) = (j + Len(a)) + 1
    BY <1>1, <1>3, <1>5, <2>2 DEF Stands
  <2>4. Stands(t, j + Len(a), <<<<w>>>>)
    BY <1>2, <2>2, Zenon
  <2>5. Peek(t, j + Len(a)) = <<w>>[1]
    BY <1>8, <2>4, StandOne, Zenon
  <2> QED
    BY <2>1, <2>2, <2>3, <2>5
<1>9. Len(c) = Len(a) + Len(b) + 1 /\ c[1] = a[1]
  BY <1>1, <1>3, <1>5, <1>7
<1>10. c = Between(a, w, b)
  BY <1>2, <1>4, <1>6, Zenon DEF Both, Between
<1> QED
  BY <1>7, <1>8, <1>9, <1>10, Zenon

\* A text in parentheses.
LEMMA Parenthesis ==
    ASSUME NEW s, Text(s)
    PROVE  /\ Text(Parens(s)) /\ Len(Parens(s)) = Len(s) + 2 /\ Parens(s)[1][1] = "("
           /\ \A t, j : Len(t) \in Nat /\ Stands(t, j, Parens(s)) =>
                  /\ Peek(t, j) = "(" /\ Stands(t, j + 1, s)
                  /\ Peek(t, (j + 1) + Len(s)) = ")"
<1>1. s \in Seq(Tok) /\ Len(s) \in Nat /\ Len(s) > 0
  BY DEF Text
<1>2. PICK o, q : o = <<<<"(">>>> /\ q = <<<<")">>>>
  OBVIOUS
<1>3. Text(o) /\ o \in Seq(Tok) /\ Len(o) = 1 /\ q \in Seq(Tok) /\ Len(q) = 1 /\ o[1][1] = "("
  <2>1. "(" \in Words /\ ")" \in Words
    BY DEF Words
  <2>2. o \in Seq(Tok) /\ Len(o) = 1 /\ q \in Seq(Tok) /\ Len(q) = 1
    BY <1>2, <2>1, Tokens1, Zenon
  <2>3. o[1][1] = "("
    BY <1>2
  <2> QED
    BY <2>2, <2>3 DEF Text
<1>4. PICK d : d = Both(o, s)
  OBVIOUS
<1>5. Text(d) /\ d \in Seq(Tok) /\ Len(d) = Len(o) + Len(s) /\ d[1] = o[1]
  BY <1>1, <1>3, <1>4, TextJoin, Zenon
<1>6. PICK c : c = Both(d, q)
  OBVIOUS
<1>7. Text(c) /\ Len(c) = Len(d) + Len(q) /\ c[1] = d[1]
  BY <1>3, <1>5, <1>6, TextJoin, Zenon
<1>8. ASSUME NEW t, NEW j, Len(t) \in Nat, Stands(t, j, c)
      PROVE  /\ Peek(t, j) = "(" /\ Stands(t, j + 1, s)
             /\ Peek(t, (j + 1) + Len(s)) = ")"
  <2>1. Stands(t, j, d) /\ Stands(t, j + Len(d), q)
    BY <1>3, <1>5, <1>6, <1>8, StandJoin, Zenon
  <2>2. Stands(t, j, o) /\ Stands(t, j + Len(o), s)
    BY <1>1, <1>3, <1>4, <1>8, <2>1, StandJoin, Zenon
  <2>3. j + Len(d) = (j + 1) + Len(s) /\ j + Len(o) = j + 1
    BY <1>1, <1>3, <1>5, <2>2 DEF Stands
  <2>4. Stands(t, j, <<<<"(">>>>) /\ Stands(t, (j + 1) + Len(s), <<<<")">>>>)
    BY <1>2, <2>1, <2>2, <2>3
  <2>5. Peek(t, j) = <<"(">>[1] /\ Peek(t, (j + 1) + Len(s)) = <<")">>[1]
    BY <1>8, <2>4, StandOne
  <2> QED
    BY <2>2, <2>3, <2>5
<1>9. Len(c) = Len(s) + 2 /\ c[1][1] = "("
  BY <1>1, <1>3, <1>5, <1>7
<1>10. c = Parens(s)
  BY <1>2, <1>4, <1>6, Zenon DEF Both, Parens
<1> QED
  BY <1>7, <1>8, <1>9, <1>10, Zenon

\* parse_primary reads what it finds in parentheses with parse_expr.
LEMMA ParensRead ==
    ASSUME NEW x, NEW s, Disjunction(x, s)
    PROVE  Primary(x, Parens(s))
<1>1. Text(s)
  BY DEF Disjunction
<1>2. PICK c : c = Parens(s)
  OBVIOUS
<1>3. Text(c) /\ Len(c) = Len(s) + 2 /\ c[1][1] = "("
  BY <1>1, <1>2, Parenthesis, Zenon
<1>4. ASSUME NEW t, NEW j, NEW n, Placed(t, j, c, PrimaryGoes, 1, n)
      PROVE  Methods(t)[n]["primary"][j] = <<x, j + Len(c)>>
  <2>1. /\ t \in Seq(Tok) /\ Len(t) \in Nat /\ j \in Nat /\ j > 0 /\ Stands(t, j, c)
        /\ n \in Nat /\ n >= 1 /\ n - 1 \in Nat /\ n <= OpenCalls(t) /\ OpenCalls(t) \in Nat
        /\ n >= 6 * Len(c) + 1
    BY <1>3, <1>4, PlacedFacts
  <2>2. PICK p, m : p = Methods(t)[n-1] /\ m = Methods(t)[n]
    OBVIOUS
  <2>3. Peek(t, j) = "(" /\ Stands(t, j + 1, s) /\ Peek(t, (j + 1) + Len(s)) = ")"
    BY <1>1, <1>2, <2>1, Parenthesis, Zenon
  <2>4. Peek(t, (j + 1) + Len(s)) \notin OrGoes
    BY <2>3 DEF OrGoes, AndGoes, CompareGoes, MembershipGoes, PrimaryGoes, Comparisons
  <2>5. Len(s) \in Nat /\ Len(s) > 0
    BY <1>1 DEF Text
  <2>6. Placed(t, j + 1, s, OrGoes, 6, n - 1)
    <3>1. n - 1 >= 6 * Len(s) + 6 /\ n - 1 <= OpenCalls(t)
      BY <1>3, <2>1, <2>5
    <3> QED
      BY <2>1, <2>3, <2>4, <3>1 DEF Placed
  <2>7. p["or"][j + 1] = <<x, (j + 1) + Len(s)>>
    BY <2>2, <2>6 DEF Disjunction
  <2>8. m["primary"][j] = ParsePrimary(p, t, j)
    <3>1. Len(t) \in Nat /\ n \in 1..OpenCalls(t) /\ j \in Nat
      BY <2>1
    <3> QED
      BY <3>1, <2>2, MethodsAre, Zenon
  <2>9. PICK i : i = (j + 1) + Len(s)
    OBVIOUS
  <2>10. i # 0 /\ Peek(t, i) = ")" /\ p["or"][j + 1] = <<x, i>> /\ i + 1 = j + Len(c)
    BY <1>3, <2>1, <2>3, <2>5, <2>7, <2>9
  <2>11. ParsePrimary(p, t, j) = <<x, i + 1>>
    BY <2>3, <2>10 DEF ParsePrimary, Failed, Closed
  <2> QED
    BY <2>2, <2>8, <2>10, <2>11
<1>5. Primary(x, c)
  BY <1>3, <1>4 DEF Primary
<1> QED
  BY <1>2, <1>5, Zenon

\* A literal.
LEMMA LitRead ==
    ASSUME NEW v \in Lits
    PROVE  Primary(Leaf(<<"lit", v, <<>>>>), <<<<"lit", v>>>>)
<1>1. PICK c, x : c = <<<<"lit", v>>>> /\ x = Leaf(<<"lit", v, <<>>>>)
  OBVIOUS
<1>2. c \in Seq(Tok) /\ Len(c) = 1 /\ c[1][1] = "lit"
  BY <1>1, Tokens1
<1>3. Text(c)
  BY <1>2 DEF Text
<1>4. ASSUME NEW t, NEW j, NEW n, Placed(t, j, c, PrimaryGoes, 1, n)
      PROVE  Methods(t)[n]["primary"][j] = <<x, j + Len(c)>>
  <2>1. /\ t \in Seq(Tok) /\ Len(t) \in Nat /\ j \in Nat /\ j > 0 /\ Stands(t, j, c)
        /\ n \in Nat /\ n >= 1 /\ n <= OpenCalls(t)
    BY <1>3, <1>4, PlacedFacts
  <2>2. PICK p, m : p = Methods(t)[n-1] /\ m = Methods(t)[n]
    OBVIOUS
  <2>3. t[j] = <<"lit", v>> /\ Peek(t, j) = <<"lit", v>>[1]
    BY <1>1, <2>1, StandOne
  <2>4. m["primary"][j] = ParsePrimary(p, t, j)
    <3>1. Len(t) \in Nat /\ n \in 1..OpenCalls(t) /\ j \in Nat
      BY <2>1
    <3> QED
      BY <3>1, <2>2, MethodsAre, Zenon
  <2>5. Peek(t, j) = "lit" /\ t[j][2] = v
    BY <2>3
  <2>6. ParsePrimary(p, t, j) = <<Leaf(<<"lit", t[j][2], <<>>>>), j + 1>>
    BY <2>5 DEF ParsePrimary
  <2>7. ParsePrimary(p, t, j) = <<x, j + 1>>
    BY <1>1, <2>5, <2>6, Zenon
  <2> QED
    BY <1>2, <2>2, <2>4, <2>7
<1>5. Primary(x, c)
  BY <1>2, <1>3, <1>4 DEF Primary
<1> QED
  BY <1>1, <1>5, Zenon

-----------------------------------------------------------------------------
\* x in y.
LEMMA InRead ==
    ASSUME NEW l, NEW a, Primary(l, a), NEW r, NEW b, Primary(r, b)
    PROVE  Membership(Binary("in", FALSE, l, r), a \o <<<<"in">>>> \o b)
<1>1. Text(a) /\ Text(b) /\ a[1][1] # "not"
  BY DEF Primary
<1>0. PICK w : w = "in"
  OBVIOUS
<1>2. PICK c, x : c = Between(a, w, b) /\ x = Binary("in", FALSE, l, r)
  OBVIOUS
<1>3. w \in Words
  BY <1>0 DEF Words
<1>4. Text(c) /\ Len(c) = Len(a) + Len(b) + 1 /\ c[1] = a[1]
  BY <1>1, <1>2, <1>3, Infix, Zenon
<1>5. ASSUME NEW t, NEW j, NEW n, Placed(t, j, c, MembershipGoes, 2, n)
      PROVE  Methods(t)[n]["membership"][j] = <<x, j + Len(c)>>
  <2>1. /\ t \in Seq(Tok) /\ Len(t) \in Nat /\ j \in Nat /\ j > 0 /\ Stands(t, j, c)
        /\ n \in Nat /\ n >= 1 /\ n - 1 \in Nat /\ n <= OpenCalls(t) /\ OpenCalls(t) \in Nat
        /\ n >= 6 * Len(c) + 2 /\ Peek(t, j + Len(c)) \notin MembershipGoes
    BY <1>4, <1>5, PlacedFacts
  <2>0. PICK p, m : p = Methods(t)[n-1] /\ m = Methods(t)[n]
    OBVIOUS
  <2>2. PICK i, e : i = j + Len(a) /\ e = j + Len(c)
    OBVIOUS
  <2>3. Stands(t, j, a) /\ Peek(t, i) = w /\ Stands(t, i + 1, b)
    <3>1. Stands(t, j, a) /\ Peek(t, j + Len(a)) = w /\ Stands(t, (j + Len(a)) + 1, b)
      BY <1>1, <1>2, <1>3, <2>1, Infix, Zenon
    <3> QED
      BY <2>2, <3>1
  <2>4. /\ Len(a) \in Nat /\ Len(b) \in Nat /\ Len(a) > 0 /\ Len(b) > 0
    BY <1>1 DEF Text
  <2>5. /\ i \in Nat /\ i # 0 /\ e \in Nat /\ e # 0 /\ (i + 1) + Len(b) = e
        /\ n - 1 >= 6 * Len(a) + 1 /\ n - 1 >= 6 * Len(b) + 1 /\ n - 1 <= OpenCalls(t)
    BY <1>4, <2>1, <2>2, <2>4
  <2>6. Placed(t, j, a, PrimaryGoes, 1, n - 1)
    BY <1>0, <2>1, <2>2, <2>3, <2>5 DEF Placed, PrimaryGoes
  <2>7. Placed(t, i + 1, b, PrimaryGoes, 1, n - 1)
    BY <2>1, <2>2, <2>3, <2>5 DEF Placed, MembershipGoes
  <2>8. p["primary"][j] = <<l, i>> /\ p["primary"][i + 1] = <<r, e>>
    BY <2>0, <2>2, <2>5, <2>6, <2>7, SMTT(40) DEF Primary
  <2>9. m["membership"][j] = ParseMembership(p, t, j)
    <3>1. Len(t) \in Nat /\ n \in 1..OpenCalls(t) /\ j \in Nat
      BY <2>1
    <3> QED
      BY <3>1, <2>0, MethodsAre, Zenon
  <2>10. ParseMembership(p, t, j) = Haystack(p, l, FALSE, i + 1)
    BY <1>0, <2>3, <2>5, <2>8 DEF ParseMembership, Failed
  <2>11. Haystack(p, l, FALSE, i + 1) = <<Binary("in", FALSE, l, r), e>>
    <3>1. PICK q : q = p["primary"][i + 1]
      OBVIOUS
    <3>2. q[1] = r /\ q[2] = e /\ ~Failed(q)
      BY <2>5, <2>8, <3>1 DEF Failed
    <3>3. Haystack(p, l, FALSE, i + 1) = <<Binary("in", FALSE, l, q[1]), q[2]>>
      BY <3>1, <3>2, Zenon DEF Haystack
    <3> QED
      BY <3>2, <3>3, Zenon
  <2> QED
    BY <1>2, <2>0, <2>2, <2>9, <2>10, <2>11
<1>6. Membership(x, c)
  BY <1>1, <1>4, <1>5 DEF Membership
<1> QED
  BY <1>0, <1>2, <1>6, Zenon DEF Both, Between

\* x not in y.
LEMMA NotInRead ==
    ASSUME NEW l, NEW a, Primary(l, a), NEW r, NEW b, Primary(r, b)
    PROVE  Membership(Binary("in", TRUE, l, r), a \o <<<<"not">>>> \o <<<<"in">>>> \o b)
<1>1. Text(a) /\ Text(b) /\ a[1][1] # "not"
  BY DEF Primary
<1>2. PICK c, d, o, w, x :
          /\ w = "in" /\ o = <<<<"not">>>> /\ d = Both(a, o)
          /\ c = Between(d, w, b) /\ x = Binary("in", TRUE, l, r)
  OBVIOUS
<1>3. w \in Words /\ o \in Seq(Tok) /\ Len(o) = 1
  <2>1. "not" \in Words /\ w \in Words
    BY <1>2 DEF Words
  <2> QED
    BY <1>2, <2>1, Tokens1, Zenon
<1>4. Text(d) /\ Len(d) = Len(a) + 1 /\ d[1] = a[1] /\ a \in Seq(Tok) /\ Len(a) \in Nat
  <2>1. Text(d) /\ Len(d) = Len(a) + Len(o) /\ d[1] = a[1]
    BY <1>1, <1>2, <1>3, TextJoin, Zenon
  <2> QED
    BY <1>1, <1>3, <2>1 DEF Text
<1>5. c = Between(d, w, b)
  BY <1>2
<1>6. Text(c) /\ Len(c) = Len(d) + Len(b) + 1 /\ c[1] = d[1]
  BY <1>1, <1>3, <1>4, <1>5, Infix, Zenon
<1>7. ASSUME NEW t, NEW j, NEW n, Placed(t, j, c, MembershipGoes, 2, n)
      PROVE  Methods(t)[n]["membership"][j] = <<x, j + Len(c)>>
  <2>1. /\ t \in Seq(Tok) /\ Len(t) \in Nat /\ j \in Nat /\ j > 0 /\ Stands(t, j, c)
        /\ n \in Nat /\ n >= 1 /\ n - 1 \in Nat /\ n <= OpenCalls(t) /\ OpenCalls(t) \in Nat
        /\ n >= 6 * Len(c) + 2 /\ Peek(t, j + Len(c)) \notin MembershipGoes
    BY <1>6, <1>7, PlacedFacts
  <2>0. PICK p, m : p = Methods(t)[n-1] /\ m = Methods(t)[n]
    OBVIOUS
  <2>2. PICK i, e : i = j + Len(a) /\ e = j + Len(c)
    OBVIOUS
  <2>3. Stands(t, j, d) /\ Peek(t, j + Len(d)) = w /\ Stands(t, (j + Len(d)) + 1, b)
    BY <1>1, <1>3, <1>4, <1>5, <2>1, Infix, Zenon
  <2>4. Stands(t, j, a) /\ Stands(t, i, <<<<"not">>>>)
    <3>1. Stands(t, j, a \o o)
      BY <1>2, <2>3, Zenon DEF Both
    <3> QED
      BY <1>2, <1>3, <1>4, <2>1, <2>2, <3>1, StandBoth, Zenon
  <2>5. Peek(t, i) = "not"
    <3>1. Peek(t, i) = <<"not">>[1]
      BY <2>1, <2>4, StandOne, Zenon
    <3> QED
      BY <3>1
  <2>6. /\ Len(a) \in Nat /\ Len(b) \in Nat /\ Len(a) > 0 /\ Len(b) > 0
    BY <1>1 DEF Text
  <2>7. /\ i \in Nat /\ i # 0 /\ e \in Nat /\ e # 0 /\ (i + 2) + Len(b) = e
        /\ j + Len(d) = i + 1 /\ (j + Len(d)) + 1 = i + 2
        /\ n - 1 >= 6 * Len(a) + 1 /\ n - 1 >= 6 * Len(b) + 1 /\ n - 1 <= OpenCalls(t)
    BY <1>4, <1>6, <2>1, <2>2, <2>6
  <2>8. Placed(t, j, a, PrimaryGoes, 1, n - 1)
    BY <2>1, <2>2, <2>4, <2>5, <2>7 DEF Placed, PrimaryGoes
  <2>9. Placed(t, i + 2, b, PrimaryGoes, 1, n - 1)
    BY <2>1, <2>2, <2>3, <2>7 DEF Placed, MembershipGoes
  <2>10. p["primary"][j] = <<l, i>> /\ p["primary"][i + 2] = <<r, e>>
    <3>1. p["primary"][j] = <<l, j + Len(a)>>
      BY <2>0, <2>8, Zenon DEF Primary
    <3>2. p["primary"][i + 2] = <<r, (i + 2) + Len(b)>>
      BY <2>0, <2>9, Zenon DEF Primary
    <3> QED
      BY <2>2, <2>7, <3>1, <3>2
  <2>11. m["membership"][j] = ParseMembership(p, t, j)
    <3>1. Len(t) \in Nat /\ n \in 1..OpenCalls(t) /\ j \in Nat
      BY <2>1
    <3> QED
      BY <3>1, <2>0, MethodsAre, Zenon
  <2>12. Peek(t, i + 1) = "in"
    BY <1>2, <2>3, <2>7
  <2>13. ParseMembership(p, t, j) = Haystack(p, l, TRUE, i + 2)
    BY <2>5, <2>7, <2>10, <2>12 DEF ParseMembership, Failed
  <2>14. Haystack(p, l, TRUE, i + 2) = <<Binary("in", TRUE, l, r), e>>
    <3>1. PICK q : q = p["primary"][i + 2]
      OBVIOUS
    <3>2. q[1] = r /\ q[2] = e /\ ~Failed(q)
      BY <2>7, <2>10, <3>1 DEF Failed
    <3>3. Haystack(p, l, TRUE, i + 2) = <<Binary("in", TRUE, l, q[1]), q[2]>>
      BY <3>1, <3>2, Zenon DEF Haystack
    <3> QED
      BY <3>2, <3>3, Zenon
  <2> QED
    BY <1>2, <2>0, <2>2, <2>11, <2>13, <2>14
<1>8. Membership(x, c)
  BY <1>1, <1>4, <1>6, <1>7 DEF Membership
<1> QED
  BY <1>2, <1>8, Zenon DEF Both, Between

\* A comparison.
LEMMA CompareRead ==
    ASSUME NEW l, NEW a, Membership(l, a), NEW r, NEW b, Membership(r, b), NEW op \in Comparisons
    PROVE  Compare(Binary(op, {}, l, r), a \o <<<<op>>>> \o b)
<1>1. Text(a) /\ Text(b) /\ a[1][1] # "not"
  BY DEF Membership
<1>2. PICK c, x : c = Between(a, op, b) /\ x = Binary(op, {}, l, r)
  OBVIOUS
<1>3. op \in Words /\ op \notin MembershipGoes
  BY DEF Words, BinOps, Comparisons, MembershipGoes, PrimaryGoes
<1>4. Text(c) /\ Len(c) = Len(a) + Len(b) + 1 /\ c[1] = a[1]
  BY <1>1, <1>2, <1>3, Infix, Zenon
<1>5. ASSUME NEW t, NEW j, NEW n, Placed(t, j, c, CompareGoes, 3, n)
      PROVE  Methods(t)[n]["compare"][j] = <<x, j + Len(c)>>
  <2>1. /\ t \in Seq(Tok) /\ Len(t) \in Nat /\ j \in Nat /\ j > 0 /\ Stands(t, j, c)
        /\ n \in Nat /\ n >= 1 /\ n - 1 \in Nat /\ n <= OpenCalls(t) /\ OpenCalls(t) \in Nat
        /\ n >= 6 * Len(c) + 3 /\ Peek(t, j + Len(c)) \notin CompareGoes
    BY <1>4, <1>5, PlacedFacts
  <2>0. PICK p, m : p = Methods(t)[n-1] /\ m = Methods(t)[n]
    OBVIOUS
  <2>2. PICK i, e : i = j + Len(a) /\ e = j + Len(c)
    OBVIOUS
  <2>3. Stands(t, j, a) /\ Peek(t, i) = op /\ Stands(t, i + 1, b)
    <3>1. Stands(t, j, a) /\ Peek(t, j + Len(a)) = op /\ Stands(t, (j + Len(a)) + 1, b)
      BY <1>1, <1>2, <1>3, <2>1, Infix, Zenon
    <3> QED
      BY <2>2, <3>1
  <2>4. /\ Len(a) \in Nat /\ Len(b) \in Nat /\ Len(a) > 0 /\ Len(b) > 0
    BY <1>1 DEF Text
  <2>5. /\ i \in Nat /\ i # 0 /\ e \in Nat /\ e # 0 /\ (i + 1) + Len(b) = e
        /\ n - 1 >= 6 * Len(a) + 2 /\ n - 1 >= 6 * Len(b) + 2 /\ n - 1 <= OpenCalls(t)
    <3>1. Len(c) = Len(a) + Len(b) + 1
      BY <1>4
    <3>2. /\ j \in Nat /\ j > 0 /\ n \in Nat /\ n <= OpenCalls(t) /\ OpenCalls(t) \in Nat
          /\ n >= 6 * Len(c) + 3
      BY <2>1
    <3> QED
      BY <2>2, <2>4, <3>1, <3>2
  <2>6. Placed(t, j, a, MembershipGoes, 2, n - 1)
    BY <1>3, <2>1, <2>2, <2>3, <2>5 DEF Placed
  <2>7. Placed(t, i + 1, b, MembershipGoes, 2, n - 1)
    BY <2>1, <2>2, <2>3, <2>5 DEF Placed, CompareGoes
  <2>8. p["membership"][j] = <<l, i>> /\ p["membership"][i + 1] = <<r, e>>
    BY <2>0, <2>2, <2>5, <2>6, <2>7, SMTT(40) DEF Membership
  <2>9. m["compare"][j] = ParseCompare(p, t, j)
    <3>1. Len(t) \in Nat /\ n \in 1..OpenCalls(t) /\ j \in Nat
      BY <2>1
    <3> QED
      BY <3>1, <2>0, MethodsAre, Zenon
  <2>10. ParseCompare(p, t, j) = <<Binary(op, {}, l, r), e>>
    BY <2>3, <2>5, <2>8 DEF ParseCompare, Failed
  <2> QED
    BY <1>2, <2>0, <2>2, <2>9, <2>10
<1>6. Compare(x, c)
  BY <1>1, <1>4, <1>5 DEF Compare
<1> QED
  BY <1>2, <1>6, Zenon DEF Both, Between

\* A negation.
LEMMA NotRead ==
    ASSUME NEW l, NEW a, Negation(l, a)
    PROVE  Negation(Unary("not", {}, l), <<<<"not">>>> \o a)
<1>1. Text(a) /\ a \in Seq(Tok)
  BY DEF Negation, Text
<1>2. PICK c, o, x : o = <<<<"not">>>> /\ c = Both(o, a) /\ x = Unary("not", {}, l)
  OBVIOUS
<1>3. Text(o) /\ o \in Seq(Tok) /\ Len(o) = 1
  <2>1. "not" \in Words
    BY DEF Words
  <2>2. o \in Seq(Tok) /\ Len(o) = 1 /\ o[1] = <<"not">> /\ <<"not">>[1] # ")"
    BY <1>2, <2>1, Tokens1
  <2> QED
    BY <2>2 DEF Text
<1>4. Text(c) /\ Len(c) = 1 + Len(a)
  <2>1. c = Both(o, a)
    BY <1>2
  <2> QED
    BY <1>1, <1>3, <2>1, TextJoin, Zenon
<1>5. ASSUME NEW t, NEW j, NEW n, Placed(t, j, c, CompareGoes, 4, n)
      PROVE  Methods(t)[n]["not"][j] = <<x, j + Len(c)>>
  <2>1. /\ t \in Seq(Tok) /\ Len(t) \in Nat /\ j \in Nat /\ j > 0 /\ Stands(t, j, c)
        /\ n \in Nat /\ n >= 1 /\ n - 1 \in Nat /\ n <= OpenCalls(t) /\ OpenCalls(t) \in Nat
        /\ n >= 6 * Len(c) + 4 /\ Peek(t, j + Len(c)) \notin CompareGoes
    BY <1>4, <1>5, PlacedFacts
  <2>0. PICK p, m : p = Methods(t)[n-1] /\ m = Methods(t)[n]
    OBVIOUS
  <2>2. PICK e : e = j + Len(c)
    OBVIOUS
  <2>3. Stands(t, j, <<<<"not">>>>) /\ Stands(t, j + 1, a)
    <3>1. Stands(t, j, o \o a)
      BY <1>2, <2>1, Zenon DEF Both
    <3>2. Stands(t, j, o) /\ Stands(t, j + Len(o), a)
      BY <1>1, <1>3, <2>1, <3>1, StandBoth, Zenon
    <3> QED
      BY <1>2, <1>3, <3>2
  <2>4. Peek(t, j) = "not"
    <3>1. Peek(t, j) = <<"not">>[1]
      BY <2>1, <2>3, StandOne, Zenon
    <3> QED
      BY <3>1
  <2>5. Len(a) \in Nat /\ Len(a) > 0
    BY <1>1 DEF Text
  <2>6. /\ e \in Nat /\ e # 0 /\ (j + 1) + Len(a) = e
        /\ n - 1 >= 6 * Len(a) + 4 /\ n - 1 <= OpenCalls(t)
    BY <1>4, <2>1, <2>2, <2>5
  <2>7. Placed(t, j + 1, a, CompareGoes, 4, n - 1)
    BY <2>1, <2>2, <2>3, <2>6 DEF Placed
  <2>8. p["not"][j + 1] = <<l, e>>
    BY <2>0, <2>2, <2>6, <2>7 DEF Negation
  <2>9. m["not"][j] = ParseNot(p, t, j)
    <3>1. Len(t) \in Nat /\ n \in 1..OpenCalls(t) /\ j \in Nat
      BY <2>1
    <3> QED
      BY <3>1, <2>0, MethodsAre, Zenon
  <2>10. ParseNot(p, t, j) = <<Unary("not", {}, l), e>>
    BY <2>4, <2>6, <2>8 DEF ParseNot, Failed
  <2> QED
    BY <1>2, <2>0, <2>2, <2>9, <2>10
<1>6. Negation(x, c)
  BY <1>4, <1>5 DEF Negation
<1> QED
  BY <1>2, <1>6, Zenon DEF Both, Between

-----------------------------------------------------------------------------
\* A chain of `and`, one operand longer.
LEMMA AndsRead ==
    ASSUME NEW l, NEW a, Ands(l, a), NEW r, NEW b, Negation(r, b)
    PROVE  Ands(Binary("and", {}, l, r), Between(a, "and", b))
<1>0. PICK sep : sep = "and"
  OBVIOUS
<1>1. Text(a) /\ Text(b)
  BY DEF Ands, Negation
<1>2. PICK c, x : c = Between(a, sep, b) /\ x = Binary(sep, {}, l, r)
  OBVIOUS
<1>3. sep \in Words /\ sep \notin CompareGoes
  BY <1>0 DEF Words, BinOps, AndGoes, CompareGoes, MembershipGoes, PrimaryGoes, Comparisons
<1>4. Text(c) /\ Len(c) = Len(a) + Len(b) + 1
  BY <1>1, <1>2, <1>3, Infix, Zenon
<1>5. ASSUME NEW t, NEW j, NEW n, Placed(t, j, c, CompareGoes, 4, n)
      PROVE  \E k \in Nat : /\ k < Len(c)
                            /\ LoopAt(Methods(t)[n], t, sep, Methods(t)[n]["not"][j], k,
                                      <<x, j + Len(c)>>)
  <2>1. /\ t \in Seq(Tok) /\ Len(t) \in Nat /\ j \in Nat /\ j > 0 /\ Stands(t, j, c)
        /\ n \in Nat /\ n <= OpenCalls(t) /\ OpenCalls(t) \in Nat
        /\ n >= 6 * Len(c) + 4 /\ Peek(t, j + Len(c)) \notin CompareGoes
        /\ j + Len(c) <= Len(t) + 1
    BY <1>4, <1>5, PlacedFacts
  <2>0. PICK m, first : m = Methods(t)[n] /\ first = m["not"][j]
    OBVIOUS
  <2>2. PICK i, e : i = j + Len(a) /\ e = j + Len(c)
    OBVIOUS
  <2>3. Stands(t, j, a) /\ Peek(t, i) = sep /\ Stands(t, i + 1, b)
    <3>1. Stands(t, j, a) /\ Peek(t, j + Len(a)) = sep /\ Stands(t, (j + Len(a)) + 1, b)
      BY <1>1, <1>2, <1>3, <2>1, Infix, Zenon
    <3> QED
      BY <2>2, <3>1
  <2>4. Len(a) \in Nat /\ Len(b) \in Nat /\ Len(a) > 0 /\ Len(b) > 0
    BY <1>1 DEF Text
  <2>5. /\ i \in Nat /\ i # 0 /\ e \in Nat /\ e # 0 /\ (i + 1) + Len(b) = e
        /\ n >= 6 * Len(a) + 4 /\ n >= 6 * Len(b) + 4
    BY <1>4, <2>1, <2>2, <2>4
  <2>6. Placed(t, j, a, CompareGoes, 4, n)
    BY <1>3, <2>1, <2>2, <2>3, <2>5 DEF Placed
  <2>7. Placed(t, i + 1, b, CompareGoes, 4, n)
    BY <2>1, <2>2, <2>3, <2>5 DEF Placed
  <2>8. PICK k \in Nat : k < Len(a) /\ LoopAt(m, t, sep, first, k, <<l, i>>)
    BY <1>0, <2>0, <2>2, <2>6, Zenon DEF Ands
  <2>9. m["not"][i + 1] = <<r, e>>
    <3>1. m["not"][i + 1] = <<r, (i + 1) + Len(b)>>
      BY <2>0, <2>7, Zenon DEF Negation
    <3> QED
      BY <2>5, <3>1
  <2>10. Turn(m, t, sep, <<l, i>>) = <<x, e>>
    <3>1. PICK v : v = <<l, i>>
      OBVIOUS
    <3>2. v[1] = l /\ v[2] = i /\ ~Over(t, sep, v)
      BY <2>3, <2>5, <3>1 DEF Over, Failed
    <3>3. PICK y : y = Operand(m, t, sep, v[2] + 1)
      OBVIOUS
    <3>4. y = m["not"][i + 1]
      BY <1>0, <3>2, <3>3 DEF Operand
    <3>5. y[1] = r /\ y[2] = e /\ ~Failed(y)
      BY <2>5, <2>9, <3>4 DEF Failed
    <3>6. Turn(m, t, sep, v) = <<Joined(sep, v[1], y[1]), y[2]>>
      BY <3>2, <3>3, <3>5, Zenon DEF Turn, Extended
    <3>7. Joined(sep, l, r) = x
      BY <1>0, <1>2 DEF Joined
    <3> QED
      BY <3>1, <3>2, <3>5, <3>6, <3>7, Zenon
  <2>11. k + 1 \in Nat /\ k + 1 < Len(c) /\ k + 1 <= Len(t)
    BY <1>4, <2>1, <2>4, <2>8
  <2>12. LoopAt(m, t, sep, first, k + 1, <<x, e>>)
    BY <2>1, <2>8, <2>10, <2>11, LoopTurns, Zenon
  <2> QED
    BY <2>0, <2>2, <2>11, <2>12, Zenon
<1>6. Ands(x, c)
  BY <1>0, <1>4, <1>5, Zenon DEF Ands
<1> QED
  BY <1>0, <1>2, <1>6, Zenon

\* A chain of `or`, one operand longer.
LEMMA OrsRead ==
    ASSUME NEW l, NEW a, Ors(l, a), NEW r, NEW b, Conjunction(r, b)
    PROVE  Ors(Binary("or", {}, l, r), Between(a, "or", b))
<1>0. PICK sep : sep = "or"
  OBVIOUS
<1>1. Text(a) /\ Text(b)
  BY DEF Ors, Conjunction
<1>2. PICK c, x : c = Between(a, sep, b) /\ x = Binary(sep, {}, l, r)
  OBVIOUS
<1>3. sep \in Words /\ sep \notin AndGoes
  BY <1>0 DEF Words, BinOps, AndGoes, CompareGoes, MembershipGoes, PrimaryGoes, Comparisons
<1>4. Text(c) /\ Len(c) = Len(a) + Len(b) + 1
  BY <1>1, <1>2, <1>3, Infix, Zenon
<1>5. ASSUME NEW t, NEW j, NEW n, Placed(t, j, c, AndGoes, 5, n)
      PROVE  \E k \in Nat : /\ k < Len(c)
                            /\ LoopAt(Methods(t)[n], t, sep, Methods(t)[n]["and"][j], k,
                                      <<x, j + Len(c)>>)
  <2>1. /\ t \in Seq(Tok) /\ Len(t) \in Nat /\ j \in Nat /\ j > 0 /\ Stands(t, j, c)
        /\ n \in Nat /\ n <= OpenCalls(t) /\ OpenCalls(t) \in Nat
        /\ n >= 6 * Len(c) + 5 /\ Peek(t, j + Len(c)) \notin AndGoes
        /\ j + Len(c) <= Len(t) + 1
    BY <1>4, <1>5, PlacedFacts
  <2>0. PICK m, first : m = Methods(t)[n] /\ first = m["and"][j]
    OBVIOUS
  <2>2. PICK i, e : i = j + Len(a) /\ e = j + Len(c)
    OBVIOUS
  <2>3. Stands(t, j, a) /\ Peek(t, i) = sep /\ Stands(t, i + 1, b)
    <3>1. Stands(t, j, a) /\ Peek(t, j + Len(a)) = sep /\ Stands(t, (j + Len(a)) + 1, b)
      BY <1>1, <1>2, <1>3, <2>1, Infix, Zenon
    <3> QED
      BY <2>2, <3>1
  <2>4. Len(a) \in Nat /\ Len(b) \in Nat /\ Len(a) > 0 /\ Len(b) > 0
    BY <1>1 DEF Text
  <2>5. /\ i \in Nat /\ i # 0 /\ e \in Nat /\ e # 0 /\ (i + 1) + Len(b) = e
        /\ n >= 6 * Len(a) + 5 /\ n >= 6 * Len(b) + 5
    BY <1>4, <2>1, <2>2, <2>4
  <2>6. Placed(t, j, a, AndGoes, 5, n)
    BY <1>3, <2>1, <2>2, <2>3, <2>5 DEF Placed
  <2>7. Placed(t, i + 1, b, AndGoes, 5, n)
    BY <2>1, <2>2, <2>3, <2>5 DEF Placed
  <2>8. PICK k \in Nat : k < Len(a) /\ LoopAt(m, t, sep, first, k, <<l, i>>)
    BY <1>0, <2>0, <2>2, <2>6, Zenon DEF Ors
  <2>9. m["and"][i + 1] = <<r, e>>
    <3>1. m["and"][i + 1] = <<r, (i + 1) + Len(b)>>
      BY <2>0, <2>7, Zenon DEF Conjunction
    <3> QED
      BY <2>5, <3>1
  <2>10. Turn(m, t, sep, <<l, i>>) = <<x, e>>
    <3>1. PICK v : v = <<l, i>>
      OBVIOUS
    <3>2. v[1] = l /\ v[2] = i /\ ~Over(t, sep, v)
      BY <2>3, <2>5, <3>1 DEF Over, Failed
    <3>3. PICK y : y = Operand(m, t, sep, v[2] + 1)
      OBVIOUS
    <3>4. y = m["and"][i + 1]
      BY <1>0, <3>2, <3>3 DEF Operand
    <3>5. y[1] = r /\ y[2] = e /\ ~Failed(y)
      BY <2>5, <2>9, <3>4 DEF Failed
    <3>6. Turn(m, t, sep, v) = <<Joined(sep, v[1], y[1]), y[2]>>
      BY <3>2, <3>3, <3>5, Zenon DEF Turn, Extended
    <3>7. Joined(sep, l, r) = x
      BY <1>0, <1>2 DEF Joined
    <3> QED
      BY <3>1, <3>2, <3>5, <3>6, <3>7, Zenon
  <2>11. k + 1 \in Nat /\ k + 1 < Len(c) /\ k + 1 <= Len(t)
    BY <1>4, <2>1, <2>4, <2>8
  <2>12. LoopAt(m, t, sep, first, k + 1, <<x, e>>)
    BY <2>1, <2>8, <2>10, <2>11, LoopTurns, Zenon
  <2> QED
    BY <2>0, <2>2, <2>11, <2>12, Zenon
<1>6. Ors(x, c)
  BY <1>0, <1>4, <1>5, Zenon DEF Ors
<1> QED
  BY <1>0, <1>2, <1>6, Zenon

-----------------------------------------------------------------------------
\* f is what FlattenSeq has of the first n sequences of s.
IsFlat(f, s, n) == f = [i \in 1..n |-> IF i = 1 THEN s[i] ELSE f[i-1] \o s[i]]

\* There is such a function.
LEMMA FlatExists ==
    ASSUME NEW s, NEW m \in Nat
    PROVE  \E f : IsFlat(f, s, m)
<1> DEFINE P == {k \in Nat : \E f : IsFlat(f, s, k)}
<1>1. 0 \in P
  <2>1. PICK f : f = [i \in 1..0 |-> s[1]]
    OBVIOUS
  <2>2. f = [i \in 1..0 |-> IF i = 1 THEN s[i] ELSE f[i-1] \o s[i]]
    BY <2>1
  <2> QED
    BY <2>2 DEF IsFlat
<1>2. ASSUME NEW k \in P PROVE k + 1 \in P
  <2>1. PICK f : IsFlat(f, s, k)
    OBVIOUS
  <2>2. PICK last : last = IF k = 0 THEN s[1] ELSE f[k] \o s[k+1]
    OBVIOUS
  <2>3. PICK g : g = [n \in 1..(k + 1) |-> IF n <= k THEN f[n] ELSE last]
    OBVIOUS
  <2>4. k \in Nat /\ \A n \in 1..k : g[n] = f[n]
    BY <2>3
  <2>5. ASSUME NEW n \in 1..(k + 1)
        PROVE  g[n] = IF n = 1 THEN s[n] ELSE g[n-1] \o s[n]
    <3>1. CASE n \in 1..k
      <4>1. n # 1 => n - 1 \in 1..k
        BY <2>4, <3>1
      <4>2. n # 1 => g[n-1] = f[n-1]
        BY <2>4, <4>1
      <4>3. f[n] = IF n = 1 THEN s[n] ELSE f[n-1] \o s[n]
        BY <2>1, <3>1 DEF IsFlat
      <4> QED
        BY <2>4, <3>1, <4>2, <4>3, Zenon
    <3>2. CASE n = k + 1 /\ k = 0
      <4>1. n = 1 /\ g[n] = last
        BY <2>3, <2>4, <3>2
      <4> QED
        BY <2>2, <3>2, <4>1
    <3>3. CASE n = k + 1 /\ k # 0
      <4>1. n # 1 /\ n - 1 = k /\ k \in 1..k /\ g[n] = last
        BY <2>3, <2>4, <3>3
      <4>2. g[n-1] = f[k]
        BY <2>4, <4>1
      <4> QED
        BY <2>2, <3>3, <4>1, <4>2, Zenon
    <3> QED
      BY <2>4, <3>1, <3>2, <3>3
  <2>6. IsFlat(g, s, k + 1)
    BY <2>3, <2>5, Zenon DEF IsFlat
  <2> QED
    BY <2>4, <2>6
<1> HIDE DEF P
<1>3. P = Nat
  <2>1. P \in SUBSET Nat
    BY DEF P
  <2> QED
    BY <1>1, <1>2, <2>1, NatInd
<1> QED
  BY <1>3 DEF P

\* FlattenSeq, one sequence after another.
LEMMA FlatIs ==
    ASSUME NEW s, Len(s) \in Nat, Len(s) > 0
    PROVE  \E f : /\ FlattenSeq(s) = f[Len(s)] /\ f[1] = s[1]
                  /\ \A i \in 1..Len(s) : i # 1 => f[i] = f[i-1] \o s[i]
<1>1. \E f : IsFlat(f, s, Len(s))
  BY FlatExists
<1>2. Len(s) # 0
  OBVIOUS
<1>3. PICK f : IsFlat(f, s, Len(s)) /\ FlattenSeq(s) = f[Len(s)]
  BY <1>1, <1>2, Zenon DEF IsFlat, FlattenSeq
<1>4. 1 \in 1..Len(s)
  OBVIOUS
<1>5. ASSUME NEW i \in 1..Len(s) PROVE f[i] = IF i = 1 THEN s[i] ELSE f[i-1] \o s[i]
  <2>1. PICK g : g = [k \in 1..Len(s) |-> IF k = 1 THEN s[k] ELSE f[k-1] \o s[k]]
    OBVIOUS
  <2>2. f = g
    BY <1>3, <2>1, Zenon DEF IsFlat
  <2>3. g[i] = IF i = 1 THEN s[i] ELSE f[i-1] \o s[i]
    BY <2>1, Zenon
  <2> QED
    BY <2>2, <2>3, Zenon
<1>6. f[1] = s[1]
  BY <1>4, <1>5, Zenon
<1>7. \A i \in 1..Len(s) : i # 1 => f[i] = f[i-1] \o s[i]
  BY <1>5, Zenon
<1> QED
  BY <1>3, <1>6, <1>7, Zenon

\* Of none, one and two.
LEMMA FlatShort ==
    ASSUME NEW a, NEW b
    PROVE  /\ Len(FlattenSeq(<<>>)) = 0 /\ FlattenSeq(<<a>>) = a
           /\ FlattenSeq(<<a, b>>) = a \o b
<1>1. Len(FlattenSeq(<<>>)) = 0
  BY DEF FlattenSeq
<1>2. FlattenSeq(<<a>>) = a
  <2>1. PICK s : s = <<a>>
    OBVIOUS
  <2>2. Len(s) \in Nat /\ Len(s) > 0 /\ Len(s) = 1 /\ s[1] = a
    BY <2>1
  <2>3. PICK f : FlattenSeq(s) = f[Len(s)] /\ f[1] = s[1]
    BY <2>2, FlatIs, Zenon
  <2> QED
    BY <2>1, <2>2, <2>3, Zenon
<1>3. FlattenSeq(<<a, b>>) = a \o b
  <2>1. PICK s : s = <<a, b>>
    OBVIOUS
  <2>2. Len(s) \in Nat /\ Len(s) > 0 /\ Len(s) = 2 /\ s[1] = a /\ s[2] = b
    BY <2>1
  <2>3. PICK f : /\ FlattenSeq(s) = f[Len(s)] /\ f[1] = s[1]
                 /\ \A i \in 1..Len(s) : i # 1 => f[i] = f[i-1] \o s[i]
    BY <2>2, FlatIs, Zenon
  <2>4. 2 \in 1..Len(s) /\ 2 # 1 /\ 2 - 1 = 1
    BY <2>2
  <2>5. f[2] = f[2-1] \o s[2]
    BY <2>3, <2>4, Zenon
  <2> QED
    BY <2>1, <2>2, <2>3, <2>4, <2>5, Zenon
<1> QED
  BY <1>1, <1>2, <1>3, Zenon

\* The calls that parse_primary makes are those that the author writes.
LEMMA CallIs ==
    ASSUME NEW f, NEW a, NEW b
    PROVE  /\ Call(f, <<a>>) = Unary("call", f, a)
           /\ Call(f, <<a, b>>) = Binary("call", f, a, b)
<1>1. Call(f, <<a>>) = Unary("call", f, a)
  <2>1. PICK s : s = <<a>>
    OBVIOUS
  <2>2. PICK parts : parts = [k \in 1..Len(s) |-> Len(FlattenSeq(SubSeq(s, k + 1, Len(s)))) + 1]
    OBVIOUS
  <2>3. Len(s) = 1 /\ SubSeq(s, 1 + 1, Len(s)) = <<>>
    BY <2>1
  <2>4. Len(FlattenSeq(SubSeq(s, 1 + 1, Len(s)))) = 0
    BY <2>3, FlatShort, Zenon
  <2>5. parts = [k \in 1..1 |-> 1]
    BY <2>2, <2>3, <2>4
  <2>6. parts = <<1>>
    BY <2>5
  <2>7. Call(f, s) = Append(FlattenSeq(s), <<"call", f, parts>>)
    BY <2>2, Zenon DEF Call
  <2>8. FlattenSeq(s) = a
    BY <2>1, FlatShort, Zenon
  <2> QED
    BY <2>1, <2>6, <2>7, <2>8, Zenon DEF Unary
<1>2. Call(f, <<a, b>>) = Binary("call", f, a, b)
  <2>1. PICK s : s = <<a, b>>
    OBVIOUS
  <2>2. PICK parts : parts = [k \in 1..Len(s) |-> Len(FlattenSeq(SubSeq(s, k + 1, Len(s)))) + 1]
    OBVIOUS
  <2>3. Len(s) = 2 /\ SubSeq(s, 1 + 1, Len(s)) = <<b>> /\ SubSeq(s, 2 + 1, Len(s)) = <<>>
    <3>1. s \in Seq({a, b}) /\ Len(s) = 2 /\ s[2] = b
      BY <2>1
    <3>2. PICK u : u = SubSeq(s, 2, 2)
      OBVIOUS
    <3>3. u \in Seq({a, b}) /\ Len(u) = 1 /\ u[1] = s[2]
      BY <3>1, <3>2
    <3>4. u = <<b>>
      BY <3>1, <3>3
    <3>5. SubSeq(s, 3, 2) = <<>>
      BY <3>1
    <3>6. 1 + 1 = 2 /\ 2 + 1 = 3
      OBVIOUS
    <3> QED
      BY <3>1, <3>2, <3>4, <3>5, <3>6, Zenon
  <2>4. /\ Len(FlattenSeq(SubSeq(s, 1 + 1, Len(s)))) = Len(b)
        /\ Len(FlattenSeq(SubSeq(s, 2 + 1, Len(s)))) = 0
    BY <2>3, FlatShort, Zenon
  <2>5. parts = [k \in 1..2 |-> IF k = 1 THEN Len(b) + 1 ELSE 1]
    BY <2>2, <2>3, <2>4
  <2>6. parts = <<Len(b) + 1, 1>>
    BY <2>5
  <2>7. Call(f, s) = Append(FlattenSeq(s), <<"call", f, parts>>)
    BY <2>2, Zenon DEF Call
  <2>8. FlattenSeq(s) = a \o b
    BY <2>1, FlatShort, Zenon
  <2> QED
    BY <2>1, <2>6, <2>7, <2>8, Zenon DEF Binary
<1> QED
  BY <1>1, <1>2, Zenon

-----------------------------------------------------------------------------
\* The text A, up to the closing parenthesis, is read as the arguments args.
ArgsPlaced(t, j, A, n) ==
    /\ t \in Seq(Tok) /\ Stands(t, j, A) /\ Peek(t, j + Len(A)) = ")"
    /\ n \in Nat /\ n >= 6 * Len(A) + 6 /\ n <= OpenCalls(t)
Arguments(args, A) ==
    /\ Text(A)
    /\ \A t, j, n : ArgsPlaced(t, j, A, n) =>
           ParseArgs(Methods(t)[n], t, j) = <<args, (j + Len(A)) + 1>>

\* The loop over the arguments ends at the parenthesis.
LEMMA ArgsEnd ==
    ASSUME NEW p, NEW t, NEW j, NEW q, q = p["or"][j], q[2] # 0, NEW v, v[2] # 0,
           Loop(p, t, ",", <<<<q[1]>>, q[2]>>) = v, Peek(t, v[2]) = ")"
    PROVE  ParseArgs(p, t, j) = <<v[1], v[2] + 1>>
  BY Zenon DEF ParseArgs, Failed, Closed

\* One argument.
LEMMA OneArgument ==
    ASSUME NEW x, NEW a, Disjunction(x, a)
    PROVE  Arguments(<<x>>, a)
<1>1. Text(a)
  BY DEF Disjunction
<1>2. ASSUME NEW t, NEW j, NEW n, ArgsPlaced(t, j, a, n)
      PROVE  ParseArgs(Methods(t)[n], t, j) = <<<<x>>, (j + Len(a)) + 1>>
  <2>1. /\ t \in Seq(Tok) /\ Len(t) \in Nat /\ Stands(t, j, a) /\ Peek(t, j + Len(a)) = ")"
        /\ n \in Nat /\ n >= 6 * Len(a) + 6 /\ n <= OpenCalls(t)
    BY <1>2 DEF ArgsPlaced
  <2>2. Peek(t, j + Len(a)) \notin OrGoes
    BY <2>1 DEF OrGoes, AndGoes, CompareGoes, MembershipGoes, PrimaryGoes, Comparisons
  <2>3. Placed(t, j, a, OrGoes, 6, n)
    BY <2>1, <2>2 DEF Placed
  <2>4. PICK p, e : p = Methods(t)[n] /\ e = j + Len(a)
    OBVIOUS
  <2>5. p["or"][j] = <<x, e>>
    BY <2>3, <2>4, Zenon DEF Disjunction
  <2>6. e \in Nat /\ e # 0
    BY <1>1, <2>1, <2>4, StandFirst
  <2>7. Peek(t, e) = ")"
    BY <2>1, <2>4
  <2>8. Loop(p, t, ",", <<<<x>>, e>>) = <<<<x>>, e>>
    <3>1. PICK sep, v : sep = "," /\ v = <<<<x>>, e>>
      OBVIOUS
    <3>2. LoopAt(p, t, sep, v, 0, v)
      BY <2>1, LoopTurns, Zenon
    <3>3. Over(t, sep, v) /\ 0 \in 0..Len(t)
      <4>1. v[2] = e /\ sep # ")"
        BY <3>1
      <4>2. Peek(t, v[2]) # sep
        BY <2>7, <4>1, Zenon
      <4>3. 0 \in 0..Len(t)
        BY <2>1
      <4> QED
        BY <4>2, <4>3, Zenon DEF Over
    <3>4. Loop(p, t, sep, v) = v
      BY <2>1, <3>2, <3>3, LoopEnds, Zenon
    <3> QED
      BY <3>1, <3>4, Zenon
  <2>9. ParseArgs(p, t, j) = <<<<x>>, e + 1>>
    <3>1. PICK q, v : q = p["or"][j] /\ v = <<<<x>>, e>>
      OBVIOUS
    <3>2. q[1] = x /\ q[2] = e /\ v[1] = <<x>> /\ v[2] = e
      BY <2>5, <3>1
    <3>3. Loop(p, t, ",", <<<<q[1]>>, q[2]>>) = v
      BY <2>8, <3>1, <3>2, Zenon
    <3>4. q[2] # 0 /\ v[2] # 0 /\ Peek(t, v[2]) = ")"
      BY <2>6, <2>7, <3>2, Zenon
    <3>5. ParseArgs(p, t, j) = <<v[1], v[2] + 1>>
      BY <3>1, <3>3, <3>4, ArgsEnd, Zenon
    <3> QED
      BY <3>2, <3>5, Zenon
  <2> QED
    BY <2>4, <2>9, Zenon
<1> QED
  BY <1>1, <1>2, Zenon DEF Arguments

\* Two arguments.
LEMMA TwoArguments ==
    ASSUME NEW x, NEW a, Disjunction(x, a), NEW y, NEW b, Disjunction(y, b)
    PROVE  Arguments(<<x, y>>, Between(a, ",", b))
<1>0. PICK sep : sep = ","
  OBVIOUS
<1>1. Text(a) /\ Text(b)
  BY DEF Disjunction
<1>2. PICK c : c = Between(a, sep, b)
  OBVIOUS
<1>3. sep \in Words /\ sep \notin OrGoes
  BY <1>0 DEF Words, OrGoes, AndGoes, CompareGoes, MembershipGoes, PrimaryGoes, Comparisons
<1>4. Text(c) /\ Len(c) = Len(a) + Len(b) + 1
  BY <1>1, <1>2, <1>3, Infix, Zenon
<1>5. ASSUME NEW t, NEW j, NEW n, ArgsPlaced(t, j, c, n)
      PROVE  ParseArgs(Methods(t)[n], t, j) = <<<<x, y>>, (j + Len(c)) + 1>>
  <2>1. /\ t \in Seq(Tok) /\ Len(t) \in Nat /\ Stands(t, j, c) /\ Peek(t, j + Len(c)) = ")"
        /\ n \in Nat /\ n >= 6 * Len(c) + 6 /\ n <= OpenCalls(t)
    BY <1>5 DEF ArgsPlaced
  <2>2. Peek(t, j + Len(c)) \notin OrGoes
    BY <2>1 DEF OrGoes, AndGoes, CompareGoes, MembershipGoes, PrimaryGoes, Comparisons
  <2>3. PICK p, i, e : p = Methods(t)[n] /\ i = j + Len(a) /\ e = j + Len(c)
    OBVIOUS
  <2>4. Stands(t, j, a) /\ Peek(t, i) = sep /\ Stands(t, i + 1, b)
    <3>1. Stands(t, j, a) /\ Peek(t, j + Len(a)) = sep /\ Stands(t, (j + Len(a)) + 1, b)
      BY <1>1, <1>2, <1>3, <2>1, Infix, Zenon
    <3> QED
      BY <2>3, <3>1
  <2>5. /\ j \in Nat /\ j > 0 /\ j + Len(c) <= Len(t) + 1
        /\ Len(a) \in Nat /\ Len(b) \in Nat /\ Len(a) > 0 /\ Len(b) > 0
    BY <1>1, <2>1 DEF Text, Stands
  <2>6. /\ i \in Nat /\ i # 0 /\ e \in Nat /\ e # 0 /\ (i + 1) + Len(b) = e
        /\ n >= 6 * Len(a) + 6 /\ n >= 6 * Len(b) + 6 /\ 0 + 1 <= Len(t) /\ 0 + 1 \in 0..Len(t)
    BY <1>4, <2>1, <2>3, <2>5
  <2>7. Placed(t, j, a, OrGoes, 6, n)
    BY <1>3, <2>1, <2>3, <2>4, <2>6 DEF Placed
  <2>8. Placed(t, i + 1, b, OrGoes, 6, n)
    BY <2>1, <2>2, <2>3, <2>4, <2>6 DEF Placed
  <2>9. p["or"][j] = <<x, i>> /\ p["or"][i + 1] = <<y, e>>
    <3>1. p["or"][j] = <<x, j + Len(a)>> /\ p["or"][i + 1] = <<y, (i + 1) + Len(b)>>
      BY <2>3, <2>7, <2>8, Zenon DEF Disjunction
    <3> QED
      BY <2>3, <2>6, <3>1
  <2>10. PICK v : v = <<<<x>>, i>>
    OBVIOUS
  <2>11. Turn(p, t, sep, v) = <<<<x, y>>, e>>
    <3>1. v[1] = <<x>> /\ v[2] = i /\ ~Over(t, sep, v)
      BY <2>4, <2>6, <2>10 DEF Over, Failed
    <3>2. PICK q : q = Operand(p, t, sep, v[2] + 1)
      OBVIOUS
    <3>3. q = p["or"][i + 1]
      BY <1>0, <3>1, <3>2 DEF Operand
    <3>4. q[1] = y /\ q[2] = e /\ ~Failed(q)
      BY <2>6, <2>9, <3>3 DEF Failed
    <3>5. Turn(p, t, sep, v) = <<Joined(sep, v[1], q[1]), q[2]>>
      BY <3>1, <3>2, <3>4, Zenon DEF Turn, Extended
    <3>6. Joined(sep, <<x>>, y) = Append(<<x>>, y)
      BY <1>0 DEF Joined
    <3>7. Append(<<x>>, y) = <<x, y>>
      BY AppendPair, Zenon
    <3> QED
      BY <3>1, <3>4, <3>5, <3>6, <3>7, Zenon
  <2>12. LoopAt(p, t, sep, v, 0, v)
    BY <2>1, LoopTurns, Zenon
  <2>13. LoopAt(p, t, sep, v, 0 + 1, <<<<x, y>>, e>>)
    <3>1. 0 \in Nat
      OBVIOUS
    <3> QED
      BY <2>1, <2>6, <2>11, <2>12, <3>1, LoopTurns, Zenon
  <2>14. Peek(t, e) = ")"
    BY <2>1, <2>3
  <2>15. Loop(p, t, ",", <<<<x>>, i>>) = <<<<x, y>>, e>>
    <3>1. PICK w : w = <<<<x, y>>, e>>
      OBVIOUS
    <3>2. Over(t, sep, w)
      BY <1>0, <2>6, <2>14, <3>1 DEF Over
    <3>3. Loop(p, t, sep, v) = w
      BY <2>1, <2>6, <2>13, <3>1, <3>2, LoopEnds, Zenon
    <3> QED
      BY <1>0, <2>10, <3>1, <3>3, Zenon
  <2>16. ParseArgs(p, t, j) = <<<<x, y>>, e + 1>>
    <3>1. PICK q, w : q = p["or"][j] /\ w = <<<<x, y>>, e>>
      OBVIOUS
    <3>2. q[1] = x /\ q[2] = i /\ w[1] = <<x, y>> /\ w[2] = e
      BY <2>9, <3>1
    <3>3. Loop(p, t, ",", <<<<q[1]>>, q[2]>>) = w
      BY <2>15, <3>1, <3>2, Zenon
    <3>4. q[2] # 0 /\ w[2] # 0 /\ Peek(t, w[2]) = ")"
      BY <2>6, <2>14, <3>2, Zenon
    <3>5. ParseArgs(p, t, j) = <<w[1], w[2] + 1>>
      BY <3>1, <3>3, <3>4, ArgsEnd, Zenon
    <3> QED
      BY <3>2, <3>5, Zenon
  <2> QED
    BY <2>3, <2>16, Zenon
<1> QED
  BY <1>0, <1>2, <1>4, <1>5, Zenon DEF Arguments

\* A call.
LEMMA CallRead ==
    ASSUME NEW f \in Idents, NEW args, NEW A, Arguments(args, A)
    PROVE  Primary(Call(f, args), Both(<<<<"ident", f>>>>, Parens(A)))
<1>1. Text(A) /\ Len(A) \in Nat /\ Len(A) > 0 /\ A[1][1] # ")"
  BY DEF Arguments, Text
<1>2. PICK o, b, x : o = <<<<"ident", f>>>> /\ b = Parens(A) /\ x = Call(f, args)
  OBVIOUS
<1>3. o \in Seq(Tok) /\ Len(o) = 1 /\ o[1] = <<"ident", f>> /\ o[1][1] = "ident"
  BY <1>2, Tokens1
<1>4. Text(o)
  BY <1>3 DEF Text
<1>5. Text(b) /\ b \in Seq(Tok) /\ Len(b) = Len(A) + 2
  <2>1. Text(b) /\ Len(b) = Len(A) + 2
    BY <1>1, <1>2, Parenthesis, Zenon
  <2> QED
    BY <2>1 DEF Text
<1>6. PICK c : c = Both(o, b)
  OBVIOUS
<1>7. Text(c) /\ Len(c) = Len(A) + 3 /\ c[1][1] = "ident"
  <2>1. Text(c) /\ Len(c) = Len(o) + Len(b) /\ c[1] = o[1]
    BY <1>4, <1>5, <1>6, TextJoin, Zenon
  <2> QED
    BY <1>1, <1>3, <1>5, <2>1
<1>8. ASSUME NEW t, NEW j, NEW n, Placed(t, j, c, PrimaryGoes, 1, n)
      PROVE  Methods(t)[n]["primary"][j] = <<x, j + Len(c)>>
  <2>1. /\ t \in Seq(Tok) /\ Len(t) \in Nat /\ j \in Nat /\ j > 0 /\ Stands(t, j, c)
        /\ n \in Nat /\ n >= 1 /\ n - 1 \in Nat /\ n <= OpenCalls(t) /\ OpenCalls(t) \in Nat
        /\ n >= 6 * Len(c) + 1
    BY <1>7, <1>8, PlacedFacts
  <2>2. PICK p, m : p = Methods(t)[n-1] /\ m = Methods(t)[n]
    OBVIOUS
  <2>3. Stands(t, j, o) /\ Stands(t, j + 1, b)
    <3>1. Stands(t, j, o) /\ Stands(t, j + Len(o), b)
      BY <1>3, <1>5, <1>6, <2>1, StandJoin, Zenon
    <3> QED
      BY <1>3, <3>1
  <2>4. t[j] = <<"ident", f>> /\ Peek(t, j) = <<"ident", f>>[1]
    BY <1>2, <2>1, <2>3, StandOne, Zenon
  <2>5. /\ Peek(t, j + 1) = "(" /\ Stands(t, (j + 1) + 1, A)
        /\ Peek(t, ((j + 1) + 1) + Len(A)) = ")"
    BY <1>1, <1>2, <2>1, <2>3, Parenthesis, Zenon
  <2>6. (j + 1) + 1 = j + 2
    BY <2>1
  <2>7. Stands(t, j + 2, A) /\ Peek(t, (j + 2) + Len(A)) = ")"
    BY <2>5, <2>6
  <2>8. Peek(t, j + 2) # ")"
    <3>1. Peek(t, j + 2) = A[1][1]
      BY <1>1, <2>1, <2>7, StandFirst, Zenon
    <3> QED
      BY <1>1, <3>1
  <2>9. n - 1 >= 6 * Len(A) + 6 /\ n - 1 <= OpenCalls(t)
    BY <1>1, <1>7, <2>1
  <2>10. ArgsPlaced(t, j + 2, A, n - 1)
    BY <2>1, <2>7, <2>9, Zenon DEF ArgsPlaced
  <2>11. PICK q : q = ParseArgs(p, t, j + 2)
    OBVIOUS
  <2>12. q = <<args, ((j + 2) + Len(A)) + 1>>
    BY <2>2, <2>10, <2>11, Zenon DEF Arguments
  <2>13. q[1] = args /\ q[2] = j + Len(c) /\ ~Failed(q)
    BY <1>1, <1>7, <2>1, <2>12 DEF Failed
  <2>14. m["primary"][j] = ParsePrimary(p, t, j)
    <3>1. Len(t) \in Nat /\ n \in 1..OpenCalls(t) /\ j \in Nat
      BY <2>1
    <3> QED
      BY <3>1, <2>2, MethodsAre, Zenon
  <2>15. Peek(t, j) = "ident" /\ t[j][2] = f
    BY <2>4
  <2>16. ParsePrimary(p, t, j) = <<Call(t[j][2], q[1]), q[2]>>
    BY <2>5, <2>8, <2>11, <2>13, <2>15 DEF ParsePrimary, CallOf
  <2> QED
    BY <1>2, <2>2, <2>13, <2>14, <2>15, <2>16, Zenon
<1>9. c[1][1] # "not"
  BY <1>7
<1>10. Primary(x, c)
  BY <1>7, <1>8, <1>9, Zenon DEF Primary
<1> QED
  BY <1>2, <1>6, <1>10, Zenon

-----------------------------------------------------------------------------
\* Two tokens.
LEMMA TokenPair ==
    ASSUME NEW x \in Tok, NEW y \in Tok
    PROVE  /\ <<x>> \o <<y>> \in Seq(Tok) /\ Len(<<x>> \o <<y>>) = 2
           /\ (<<x>> \o <<y>>)[1] = x /\ (<<x>> \o <<y>>)[2] = y
<1>0. PICK a, b : a = <<x>> /\ b = <<y>>
  BY Zenon
<1>1. PICK c : c = a \o b
  OBVIOUS
<1>2. a \in Seq(Tok) /\ b \in Seq(Tok) /\ Len(a) = 1 /\ Len(b) = 1 /\ a[1] = x /\ b[1] = y
  BY <1>0
<1>3. /\ c \in Seq(Tok) /\ Len(c) = Len(a) + Len(b)
      /\ \A i \in 1..Len(a) : c[i] = a[i]
      /\ \A i \in 1..Len(b) : c[Len(a) + i] = b[i]
  BY <1>1, <1>2, ConcatFacts
<1>4. Len(c) = 2 /\ c[1] = x /\ c[2] = y
  BY <1>2, <1>3
<1> QED
  BY <1>0, <1>1, <1>3, <1>4, Zenon

\* FlattenSeq of pairs: their tokens in turn.
LEMMA FlatPairs ==
    ASSUME NEW u, Len(u) \in Nat, Len(u) > 0,
           \A k \in 1..Len(u) : u[k] \in Seq(Tok) /\ Len(u[k]) = 2
    PROVE  /\ FlattenSeq(u) \in Seq(Tok) /\ Len(FlattenSeq(u)) = 2 * Len(u)
           /\ \A l \in 1..Len(u) : /\ FlattenSeq(u)[2 * l - 1] = u[l][1]
                                   /\ FlattenSeq(u)[2 * l] = u[l][2]
<1>1. PICK f : /\ FlattenSeq(u) = f[Len(u)] /\ f[1] = u[1]
               /\ \A i \in 1..Len(u) : i # 1 => f[i] = f[i-1] \o u[i]
  BY FlatIs, Zenon
<1> DEFINE Good(k) == /\ f[k] \in Seq(Tok) /\ Len(f[k]) = 2 * k
                      /\ \A l \in 1..k : f[k][2 * l - 1] = u[l][1] /\ f[k][2 * l] = u[l][2]
<1> DEFINE P == {k \in Nat : k + 1 <= Len(u) => Good(k + 1)}
<1>2. 0 \in P
  <2>1. 1 \in 1..Len(u)
    OBVIOUS
  <2>2. f[1] \in Seq(Tok) /\ Len(f[1]) = 2 /\ f[1] = u[1]
    BY <1>1, <2>1
  <2>3. \A l \in 1..1 : f[1][2 * l - 1] = u[l][1] /\ f[1][2 * l] = u[l][2]
    BY <2>2
  <2>4. Good(1)
    BY <2>2, <2>3
  <2> HIDE DEF Good
  <2>5. 0 \in Nat /\ 0 + 1 = 1
    OBVIOUS
  <2> QED
    BY <2>4, <2>5
<1>3. ASSUME NEW k \in P PROVE k + 1 \in P
  <2>0. k \in Nat /\ k + 1 \in Nat
    OBVIOUS
  <2>1. SUFFICES ASSUME (k + 1) + 1 <= Len(u) PROVE Good((k + 1) + 1)
    BY <2>0
  <2>2. PICK n : n = k + 1
    OBVIOUS
  <2>3. n \in 1..Len(u) /\ n + 1 \in 1..Len(u) /\ n + 1 # 1 /\ (n + 1) - 1 = n
    BY <2>0, <2>1, <2>2
  <2>4. Good(n)
    BY <2>0, <2>1, <2>2, <2>3
  <2>5. PICK a, b, c : a = f[n] /\ b = u[n + 1] /\ c = f[n + 1]
    OBVIOUS
  <2>6. c = a \o b
    BY <1>1, <2>3, <2>5, Zenon
  <2>7. b \in Seq(Tok) /\ Len(b) = 2 /\ a \in Seq(Tok) /\ Len(a) = 2 * n
    BY <2>3, <2>4, <2>5
  <2>8. /\ c \in Seq(Tok) /\ Len(c) = Len(a) + Len(b)
        /\ \A i \in 1..Len(a) : c[i] = a[i]
        /\ \A i \in 1..Len(b) : c[Len(a) + i] = b[i]
    <3>1. a \in Seq(Tok) /\ b \in Seq(Tok)
      BY <2>7
    <3> HIDE DEF Good, P
    <3> QED
      BY <2>6, <3>1, ConcatFacts
  <2>9. ASSUME NEW l \in 1..(n + 1) PROVE c[2 * l - 1] = u[l][1] /\ c[2 * l] = u[l][2]
    <3>1. CASE l <= n
      <4>1. 2 * l - 1 \in 1..Len(a) /\ 2 * l \in 1..Len(a) /\ l \in 1..n
        BY <2>3, <2>7, <3>1
      <4>2. a[2 * l - 1] = u[l][1] /\ a[2 * l] = u[l][2]
        BY <2>4, <2>5, <4>1
      <4> QED
        BY <2>8, <4>1, <4>2
    <3>2. CASE l = n + 1
      <4>1. 2 * l - 1 = Len(a) + 1 /\ 2 * l = Len(a) + 2 /\ 1 \in 1..Len(b) /\ 2 \in 1..Len(b)
        BY <2>3, <2>7, <3>2
      <4> QED
        BY <2>5, <2>8, <3>2, <4>1
    <3> QED
      BY <2>3, <3>1, <3>2
  <2>10. Len(c) = 2 * (n + 1)
    BY <2>3, <2>7, <2>8
  <2>11. Good(n + 1)
    BY <2>5, <2>8, <2>9, <2>10
  <2> HIDE DEF Good
  <2> QED
    BY <2>2, <2>11
<1> HIDE DEF Good
<1>4. P = Nat
  <2>1. P \in SUBSET Nat
    OBVIOUS
  <2> HIDE DEF P
  <2> QED
    BY <1>2, <1>3, <2>1, NatInd
<1>5. PICK k \in Nat : k + 1 = Len(u)
  BY <1>1
<1>6. Good(Len(u))
  <2>1. Good(k + 1)
    <3>1. k \in P
      BY <1>4, Zenon
    <3>2. k + 1 <= Len(u)
      BY <1>5
    <3> QED
      BY <3>1, <3>2, Zenon
  <2> QED
    BY <1>5, <2>1, Zenon
<1> QED
  BY <1>1, <1>6, Zenon DEF Good

\* The text of a path: its segments, a dot between each two.
Dotted(segs) == Listed(<<".">>, [k \in 1..Len(segs) |-> <<<<"ident", segs[k]>>>>])

\* A path of n segments has n - 1 dots.
LEMMA DottedIs ==
    ASSUME NEW segs \in Seq(STRING), Len(segs) > 0
    PROVE  /\ Dotted(segs) \in Seq(Tok) /\ Len(Dotted(segs)) = 2 * Len(segs) - 1
           /\ \A k \in 1..Len(segs) : Dotted(segs)[2 * k - 1] = <<"ident", segs[k]>>
           /\ \A k \in 1..(Len(segs) - 1) : Dotted(segs)[2 * k] = <<".">>
<1>1. PICK d, s, m : /\ d = <<".">> /\ m = Len(segs)
                     /\ s = [k \in 1..m |-> <<<<"ident", segs[k]>>>>]
  OBVIOUS
<1>2. m \in Nat /\ m > 0 /\ s # <<>> /\ Len(s) = m
  BY <1>1
<1>3. PICK u : u = [k \in 1..m |-> <<d>> \o s[k]]
  OBVIOUS
<1>4. d \in Tok
  BY <1>1 DEF Tok, Words
<1>5. ASSUME NEW k \in 1..m
      PROVE  u[k] \in Seq(Tok) /\ Len(u[k]) = 2 /\ u[k][1] = d /\ u[k][2] = <<"ident", segs[k]>>
  <2>1. PICK y : y = <<"ident", segs[k]>>
    OBVIOUS
  <2>2. y \in Tok
    BY <1>1, <2>1 DEF Tok, Idents
  <2>3. s[k] = <<y>>
    BY <1>1, <2>1
  <2>4. u[k] = <<d>> \o <<y>>
    BY <1>3, <2>3, Zenon
  <2>5. /\ <<d>> \o <<y>> \in Seq(Tok) /\ Len(<<d>> \o <<y>>) = 2
        /\ (<<d>> \o <<y>>)[1] = d /\ (<<d>> \o <<y>>)[2] = y
    BY <1>4, <2>2, TokenPair, Zenon
  <2> QED
    BY <2>1, <2>4, <2>5, Zenon
<1>6. Len(u) = m
  BY <1>2, <1>3
<1>7. PICK F : F = FlattenSeq(u)
  OBVIOUS
<1>8. /\ F \in Seq(Tok) /\ Len(F) = 2 * m
      /\ \A l \in 1..m : F[2 * l - 1] = u[l][1] /\ F[2 * l] = u[l][2]
  <2>1. /\ Len(u) \in Nat /\ Len(u) > 0
        /\ \A k \in 1..Len(u) : u[k] \in Seq(Tok) /\ Len(u[k]) = 2
    BY <1>2, <1>5, <1>6
  <2>2. /\ FlattenSeq(u) \in Seq(Tok) /\ Len(FlattenSeq(u)) = 2 * Len(u)
        /\ \A l \in 1..Len(u) : /\ FlattenSeq(u)[2 * l - 1] = u[l][1]
                                /\ FlattenSeq(u)[2 * l] = u[l][2]
    BY <2>1, FlatPairs, Zenon
  <2> QED
    BY <1>6, <1>7, <2>2, Zenon
<1>9. PICK c : c = Tail(F)
  OBVIOUS
<1>10. F # <<>>
  BY <1>2, <1>8
<1>11. /\ c \in Seq(Tok) /\ Len(c) = 2 * m - 1
       /\ \A i \in 1..Len(c) : c[i] = F[i + 1]
  BY <1>2, <1>8, <1>9, <1>10
<1>12. ASSUME NEW k \in 1..m PROVE c[2 * k - 1] = <<"ident", segs[k]>>
  <2>1. 2 * k - 1 \in 1..Len(c) /\ (2 * k - 1) + 1 = 2 * k
    BY <1>2, <1>11
  <2> QED
    BY <1>5, <1>8, <1>11, <2>1
<1>13. ASSUME NEW k \in 1..(m - 1) PROVE c[2 * k] = d
  <2>1. 2 * k \in 1..Len(c) /\ 2 * k + 1 = 2 * (k + 1) - 1 /\ k + 1 \in 1..m
    BY <1>2, <1>11
  <2> QED
    BY <1>5, <1>8, <1>11, <2>1
<1>14. Dotted(segs) = c
  <2>1. Listed(d, s) = Tail(FlattenSeq([k \in 1..Len(s) |-> <<d>> \o s[k]]))
    BY <1>2, Zenon DEF Listed
  <2>2. Dotted(segs) = Listed(d, s)
    BY <1>1, Zenon DEF Dotted
  <2> QED
    BY <1>2, <1>3, <1>7, <1>9, <2>1, <2>2, Zenon
<1> QED
  BY <1>1, <1>11, <1>12, <1>13, <1>14, Zenon

-----------------------------------------------------------------------------
\* One more segment of a path.
LEMMA SubSeqGrows ==
    ASSUME NEW S, NEW s \in Seq(S), NEW k \in Nat, k >= 1, k + 1 <= Len(s)
    PROVE  Append(SubSeq(s, 1, k), s[k + 1]) = SubSeq(s, 1, k + 1)
<1>1. PICK a : a = SubSeq(s, 1, k)
  BY Zenon
<1>2. PICK b : b = SubSeq(s, 1, k + 1)
  BY Zenon
<1>3. /\ a \in Seq(S) /\ Len(a) = k /\ \A i \in 1..k : a[i] = s[i]
  BY <1>1
<1>4. /\ b \in Seq(S) /\ Len(b) = k + 1 /\ \A i \in 1..(k + 1) : b[i] = s[i]
  BY <1>2
<1>5. s[k + 1] \in S
  OBVIOUS
<1>6. PICK c, x : x = s[k + 1] /\ c = Append(a, x)
  OBVIOUS
<1>7. /\ c \in Seq(S) /\ Len(c) = Len(a) + 1 /\ c[Len(a) + 1] = x
      /\ \A i \in 1..Len(a) : c[i] = a[i]
  BY <1>3, <1>5, <1>6, AppendFacts
<1>8. Len(c) = Len(b) /\ \A i \in 1..Len(b) : c[i] = b[i]
  BY <1>3, <1>4, <1>6, <1>7
<1>9. c = b
  BY <1>4, <1>7, <1>8
<1> QED
  BY <1>1, <1>2, <1>6, <1>9, Zenon

\* One more turn of parse_primary over a path.
LEMMA PathTurn ==
    ASSUME NEW p, NEW t, NEW r, r[2] # 0, Peek(t, r[2]) = ".",
           Peek(t, r[2] + 1) = "ident", (r[2] + 1) + 1 # 0
    PROVE  Turn(p, t, ".", r) = <<Append(r[1], t[r[2] + 1][2]), (r[2] + 1) + 1>>
<1> PICK l : l = r[2] + 1
  OBVIOUS
<1>0. PICK sep : sep = "."
  OBVIOUS
<1>1. ~Over(t, sep, r)
  BY <1>0 DEF Over, Failed
<1>2. PICK q : q = Operand(p, t, sep, r[2] + 1)
  OBVIOUS
<1>3. q = <<t[l][2], l + 1>>
  <2>1. Operand(p, t, ".", l) = <<t[l][2], l + 1>>
    BY DEF Operand
  <2> QED
    BY <1>0, <1>2, <2>1, Zenon
<1>4. q[1] = t[l][2] /\ q[2] = l + 1 /\ ~Failed(q)
  BY <1>3 DEF Failed
<1>5. Joined(sep, r[1], q[1]) = Append(r[1], q[1])
  BY <1>0 DEF Joined
<1>6. Turn(p, t, sep, r) = <<Joined(sep, r[1], q[1]), q[2]>>
  BY <1>1, <1>2, <1>4, Zenon DEF Turn, Extended
<1> QED
  BY <1>0, <1>4, <1>5, <1>6, Zenon

\* A path.
LEMMA PathRead ==
    ASSUME NEW segs \in Seq(STRING), Len(segs) > 0
    PROVE  Primary(Leaf(<<"path", segs, <<>>>>), Dotted(segs))
<1>1. PICK c, m : c = Dotted(segs) /\ m = Len(segs)
  OBVIOUS
<1>2. m \in Nat /\ m > 0
  BY <1>1
<1>3. /\ c \in Seq(Tok) /\ Len(c) = 2 * m - 1
      /\ \A k \in 1..m : c[2 * k - 1] = <<"ident", segs[k]>>
      /\ \A k \in 1..(m - 1) : c[2 * k] = <<".">>
  BY <1>1, DottedIs, Zenon
<1>4. c[1] = <<"ident", segs[1]>> /\ c[1][1] = "ident"
  <2>1. 1 \in 1..m /\ 2 * 1 - 1 = 1
    BY <1>2
  <2> QED
    BY <1>3, <2>1
<1>5. Text(c) /\ c[1][1] # "not"
  BY <1>2, <1>3, <1>4 DEF Text
<1>6. ASSUME NEW t, NEW j, NEW n, Placed(t, j, c, PrimaryGoes, 1, n)
      PROVE  Methods(t)[n]["primary"][j] = <<Leaf(<<"path", segs, <<>>>>), j + Len(c)>>
  <2>1. /\ t \in Seq(Tok) /\ Len(t) \in Nat /\ j \in Nat /\ j > 0 /\ Stands(t, j, c)
        /\ Peek(t, j + Len(c)) \notin PrimaryGoes /\ j + Len(c) <= Len(t) + 1
        /\ n \in Nat /\ n >= 1 /\ n - 1 \in Nat /\ n <= OpenCalls(t) /\ OpenCalls(t) \in Nat
    BY <1>5, <1>6, PlacedFacts
  <2>2. PICK p, m2 : p = Methods(t)[n-1] /\ m2 = Methods(t)[n]
    OBVIOUS
  <2>3. m2["primary"][j] = ParsePrimary(p, t, j)
    <3>1. Len(t) \in Nat /\ n \in 1..OpenCalls(t) /\ j \in Nat
      BY <2>1
    <3> QED
      BY <3>1, <2>2, MethodsAre, Zenon
  <2>4. \A k \in 1..Len(c) : t[(j + k) - 1] = c[k]
    BY <2>1 DEF Stands
  <2>5. ASSUME NEW k \in 1..m
        PROVE  /\ Peek(t, (j + 2 * k) - 2) = "ident" /\ t[(j + 2 * k) - 2][2] = segs[k]
               /\ k + 1 <= m => Peek(t, (j + 2 * k) - 1) = "."
    <3>1. 2 * k - 1 \in 1..Len(c) /\ (j + (2 * k - 1)) - 1 = (j + 2 * k) - 2
      BY <1>2, <1>3, <2>1
    <3>2. t[(j + 2 * k) - 2] = <<"ident", segs[k]>>
      BY <1>3, <2>4, <3>1
    <3>3. (j + 2 * k) - 2 <= Len(t)
      BY <1>2, <1>3, <2>1
    <3>4. ASSUME k + 1 <= m PROVE Peek(t, (j + 2 * k) - 1) = "."
      <4>1. 2 * k \in 1..Len(c) /\ k \in 1..(m - 1) /\ (j + 2 * k) - 1 <= Len(t)
        BY <1>2, <1>3, <2>1, <3>4
      <4>2. t[(j + 2 * k) - 1] = <<".">>
        BY <1>3, <2>4, <4>1
      <4> QED
        BY <4>1, <4>2 DEF Peek
    <3> QED
      BY <3>2, <3>3, <3>4 DEF Peek
  <2>6. PICK sep, first : sep = "." /\ first = <<<<t[j][2]>>, j + 1>>
    OBVIOUS
  <2>7. Peek(t, j) = "ident" /\ t[j][2] = segs[1]
    <3>1. 1 \in 1..m /\ (j + 2 * 1) - 2 = j
      BY <1>2, <2>1
    <3> QED
      BY <2>5, <3>1
  <2>8. first = <<SubSeq(segs, 1, 1), j + 1>>
    <3>1. PICK s : s = SubSeq(segs, 1, 1)
      OBVIOUS
    <3>2. s \in Seq(STRING) /\ Len(s) = 1 /\ s[1] = segs[1]
      BY <1>1, <1>2, <3>1
    <3>3. s = <<segs[1]>>
      BY <3>2
    <3> QED
      BY <2>6, <2>7, <3>1, <3>3, Zenon
  <2> DEFINE Has(k) == <<SubSeq(segs, 1, k + 1), (j + 1) + 2 * k>>
  <2> DEFINE P == {k \in Nat : k + 1 <= m => LoopAt(p, t, sep, first, k, Has(k))}
  <2>9. 0 \in P
    <3>1. LoopAt(p, t, sep, first, 0, first)
      BY <2>1, LoopTurns, Zenon
    <3>2. 0 + 1 = 1 /\ (j + 1) + 2 * 0 = j + 1 /\ 0 \in Nat
      BY <2>1
    <3>3. Has(0) = first
      BY <2>8, <3>2, Zenon
    <3> HIDE DEF Has
    <3> QED
      BY <3>1, <3>2, <3>3, Zenon
  <2>10. ASSUME NEW k \in P PROVE k + 1 \in P
    <3>1. k \in Nat /\ k + 1 \in Nat
      OBVIOUS
    <3>2. SUFFICES ASSUME (k + 1) + 1 <= m PROVE LoopAt(p, t, sep, first, k + 1, Has(k + 1))
      BY <3>1, Zenon
    <3>3. k + 1 <= m /\ k + 1 \in 1..m /\ (k + 1) + 1 \in 1..m /\ k + 2 <= Len(segs)
      BY <1>1, <1>2, <3>1, <3>2
    <3>4. LoopAt(p, t, sep, first, k, Has(k))
      BY <3>3, Zenon
    <3>5. PICK i : i = (j + 1) + 2 * k
      OBVIOUS
    <3>6. /\ (j + 2 * (k + 1)) - 1 = i /\ (j + 2 * ((k + 1) + 1)) - 2 = i + 1
          /\ (j + 1) + 2 * (k + 1) = (i + 1) + 1 /\ i \in Nat /\ i # 0
      BY <2>1, <3>1, <3>5
    <3>7. Peek(t, i) = "." /\ Peek(t, i + 1) = "ident" /\ t[i + 1][2] = segs[(k + 1) + 1]
      <4>1. Peek(t, (j + 2 * (k + 1)) - 1) = "."
        BY <2>5, <3>2, <3>3, Zenon
      <4>2. /\ Peek(t, (j + 2 * ((k + 1) + 1)) - 2) = "ident"
            /\ t[(j + 2 * ((k + 1) + 1)) - 2][2] = segs[(k + 1) + 1]
        BY <2>5, <3>3, Zenon
      <4> QED
        BY <3>6, <4>1, <4>2, Zenon
    <3>8. PICK l, r : l = i + 1 /\ r = <<SubSeq(segs, 1, k + 1), i>>
      BY Zenon
    <3>9. Turn(p, t, sep, Has(k)) = Has(k + 1)
      <4>1. r[1] = SubSeq(segs, 1, k + 1) /\ r[2] = i /\ l + 1 # 0
        BY <3>6, <3>8
      <4>2. /\ sep = "." /\ r[2] # 0 /\ Peek(t, r[2]) = "."
            /\ l = r[2] + 1 /\ Peek(t, l) = "ident" /\ t[l][2] = segs[(k + 1) + 1]
        BY <2>6, <3>6, <3>7, <3>8, <4>1, Zenon
      <4>3. Turn(p, t, ".", r) = <<Append(r[1], t[l][2]), l + 1>>
        <5>1. r[2] # 0 /\ Peek(t, r[2]) = "." /\ Peek(t, r[2] + 1) = "ident" /\ (r[2] + 1) + 1 # 0
          BY <4>1, <4>2, Zenon
        <5>2. Turn(p, t, ".", r) = <<Append(r[1], t[r[2] + 1][2]), (r[2] + 1) + 1>>
          BY <5>1, PathTurn, Zenon
        <5> QED
          BY <4>2, <5>2, Zenon
      <4>4. Append(SubSeq(segs, 1, k + 1), segs[(k + 1) + 1]) = SubSeq(segs, 1, (k + 1) + 1)
        <5>1. k + 1 >= 1 /\ (k + 1) + 1 <= Len(segs)
          BY <1>1, <3>1, <3>2
        <5> QED
          BY <3>1, <5>1, SubSeqGrows, Zenon
      <4> QED
        BY <3>5, <3>6, <3>8, <4>1, <4>2, <4>3, <4>4, Zenon
    <3>10. k + 1 <= Len(t)
      BY <1>2, <1>3, <2>1, <3>1, <3>2
    <3> HIDE DEF Has, P
    <3> QED
      BY <2>1, <3>1, <3>4, <3>9, <3>10, LoopTurns, Zenon
  <2>11. P = Nat
    <3>1. P \in SUBSET Nat
      OBVIOUS
    <3> HIDE DEF P
    <3> QED
      BY <2>9, <2>10, <3>1, NatInd
  <2>12. PICK k \in Nat : k + 1 = m
    BY <1>2
  <2>13. k + 1 <= m /\ (j + 1) + 2 * k = j + Len(c) /\ k \in 0..Len(t) /\ j + Len(c) # 0
    BY <1>2, <1>3, <2>1, <2>12
  <2>14. LoopAt(p, t, sep, first, k, Has(k))
    BY <2>11, <2>13, Zenon
  <2> HIDE DEF P
  <2>15. PICK e, r : e = j + Len(c) /\ r = <<segs, e>>
    OBVIOUS
  <2>16. Has(k) = r
    <3>1. SubSeq(segs, 1, k + 1) = segs
      BY <1>1, <2>12
    <3> QED
      BY <2>13, <2>15, <3>1, Zenon
  <2>17. r[1] = segs /\ r[2] = e /\ e # 0
    BY <2>13, <2>15
  <2>18. Over(t, sep, r)
    <3>1. Peek(t, e) # "."
      BY <2>1, <2>15 DEF PrimaryGoes
    <3> QED
      BY <2>6, <2>17, <3>1 DEF Over
  <2>19. Loop(p, t, sep, first) = r
    <3> HIDE DEF Has
    <3> QED
      BY <2>1, <2>13, <2>14, <2>16, <2>18, LoopEnds, Zenon
  <2>20. Peek(t, j + 1) # "("
    <3>1. CASE m = 1
      <4>1. j + Len(c) = j + 1
        BY <1>3, <3>1
      <4> QED
        BY <2>1, <4>1 DEF PrimaryGoes
    <3>2. CASE m # 1
      <4>1. 1 \in 1..m /\ 1 + 1 <= m /\ (j + 2 * 1) - 1 = j + 1
        BY <1>2, <2>1, <3>2
      <4>2. Peek(t, (j + 2 * 1) - 1) = "."
        BY <2>5, <4>1, Zenon
      <4> QED
        BY <4>1, <4>2
    <3> QED
      BY <3>1, <3>2
  <2>21. PICK w : w = Loop(p, t, ".", <<<<t[j][2]>>, j + 1>>)
    OBVIOUS
  <2>22. w = r
    BY <2>6, <2>19, <2>21, Zenon
  <2>23. w[1] = segs /\ w[2] = e /\ ~Failed(w)
    BY <2>17, <2>22, Zenon DEF Failed
  <2>24. ParsePrimary(p, t, j) = <<Leaf(<<"path", w[1], <<>>>>), w[2]>>
    BY <2>7, <2>20, <2>21, <2>23 DEF ParsePrimary, PathOf
  <2> QED
    BY <2>2, <2>3, <2>15, <2>23, <2>24, Zenon
<1> QED
  BY <1>1, <1>5, <1>6, Zenon DEF Primary

-----------------------------------------------------------------------------
(* A text at the level that its outermost operator binds at.                 *)

Level(x, s, b) ==
    /\ b = 6 => Primary(x, s)
    /\ b = 5 => Membership(x, s)
    /\ b = 4 => Compare(x, s)
    /\ b = 3 => Negation(x, s)
    /\ b = 2 => Ands(x, s)
    /\ b = 1 => Ors(x, s)

\* What is read at a level is read at every looser one.
LEMMA Loosen ==
    ASSUME NEW x, NEW s, NEW b \in 1..6, Level(x, s, b), NEW place \in 1..6, b >= place
    PROVE  Level(x, s, place)
<1>1. Membership(x, s) => Compare(x, s)
  BY CompareLift, Zenon
<1>2. Primary(x, s) => Membership(x, s)
  BY MembershipLift, Zenon
<1>3. Compare(x, s) => Negation(x, s)
  BY NegationLift, Zenon
<1>4. Negation(x, s) => Ands(x, s)
  BY AndsLift, Zenon
<1>5. Ands(x, s) => Ors(x, s)
  BY ConjunctionLift, OrsLift, Zenon
<1>6. /\ b \in {1, 2, 3, 4, 5, 6} /\ place \in {1, 2, 3, 4, 5, 6}
  OBVIOUS
<1>7. /\ (b = 6 => Primary(x, s)) /\ (b = 5 => Membership(x, s)) /\ (b = 4 => Compare(x, s))
      /\ (b = 3 => Negation(x, s)) /\ (b = 2 => Ands(x, s)) /\ (b = 1 => Ors(x, s))
  BY Zenon DEF Level
<1>8. /\ place = 6 => Primary(x, s) 
      /\ place = 5 => Membership(x, s)
      /\ place = 4 => Compare(x, s)
      /\ place = 3 => Negation(x, s)
      /\ place = 2 => Ands(x, s)
      /\ place = 1 => Ors(x, s)
  BY <1>1, <1>2, <1>3, <1>4, <1>5, <1>6, <1>7
<1> QED
  BY <1>8, Zenon DEF Level

\* ... by parse_or at the end.
LEMMA ReadsAsExpr ==
    ASSUME NEW x, NEW s, NEW b \in 1..6, Level(x, s, b)
    PROVE  Disjunction(x, s)
<1>1. 1 \in 1..6 /\ b >= 1
  OBVIOUS
<1>2. Level(x, s, 1)
  BY <1>1, Loosen, Zenon
<1>3. Ors(x, s)
  BY <1>2, Zenon DEF Level
<1> QED
  BY <1>3, DisjunctionLift, Zenon

\* The author writes a part with a parenthesis where its place asks for one.
InPlace(s, b, place) == IF b >= place THEN s ELSE Parens(s)

\* A part is read at the level its place asks for.
LEMMA PartReads ==
    ASSUME NEW x, NEW s, NEW b \in 1..6, Level(x, s, b), NEW place \in 1..6
    PROVE  Level(x, InPlace(s, b, place), place)
<1>1. CASE b >= place
  <2>1. InPlace(s, b, place) = s
    BY <1>1, Zenon DEF InPlace
  <2>2. Level(x, s, place)
    BY <1>1, Loosen, Zenon
  <2> QED
    BY <2>1, <2>2, Zenon
<1>2. CASE ~(b >= place)
  <2>1. InPlace(s, b, place) = Parens(s)
    BY <1>2, Zenon DEF InPlace
  <2>2. Primary(x, Parens(s))
    BY ReadsAsExpr, ParensRead, Zenon
  <2>3. PICK c : c = Parens(s)
    BY Zenon
  <2>4. Level(x, c, 6)
    BY <2>2, <2>3 DEF Level
  <2>5. 6 \in 1..6 /\ 6 >= place
    OBVIOUS
  <2>6. Level(x, c, place)
    BY <2>4, <2>5, Loosen, Zenon
  <2> QED
    BY <2>1, <2>3, <2>6, Zenon
<1> QED
  BY <1>1, <1>2, Zenon

-----------------------------------------------------------------------------
\* A part of an expression is a slice of it.
LEMMA SliceOne ==
    ASSUME NEW S, NEW e \in Seq(S), NEW a \in Nat, NEW i \in Nat, a >= 1, a <= i + 1,
           i + 1 <= Len(e)
    PROVE  SubSeq(e, a, i + 1) = Append(SubSeq(e, a, i), e[i + 1])
<1>1. PICK b : b = SubSeq(e, a, i)
  BY Zenon
<1>2. PICK d : d = SubSeq(e, a, i + 1)
  BY Zenon
<1>3. b \in Seq(S) /\ Len(b) = (i + 1) - a /\ \A k \in 1..((i + 1) - a) : b[k] = e[(a + k) - 1]
  BY <1>1
<1>4. d \in Seq(S) /\ Len(d) = (i + 2) - a /\ \A k \in 1..((i + 2) - a) : d[k] = e[(a + k) - 1]
  BY <1>2
<1>5. PICK x : x = e[i + 1] /\ x \in S
  OBVIOUS
<1>6. PICK c : c = Append(b, x)
  BY Zenon
<1>7. /\ c \in Seq(S) /\ Len(c) = Len(b) + 1 /\ c[Len(b) + 1] = x
      /\ \A k \in 1..Len(b) : c[k] = b[k]
  <2>1. b \in Seq(S) /\ x \in S
    BY <1>3, <1>5
  <2> QED
    BY <1>6, <2>1, AppendFacts
<1>8. Len(c) = Len(d) /\ \A k \in 1..Len(d) : c[k] = d[k]
  <2>1. Len(c) = Len(d)
    BY <1>3, <1>4, <1>7
  <2>2. ASSUME NEW k \in 1..Len(d) PROVE c[k] = d[k]
    <3>1. CASE k <= Len(b)
      <4>1. k \in 1..Len(b) /\ k \in 1..((i + 1) - a) /\ k \in 1..((i + 2) - a)
        BY <1>3, <1>4, <3>1
      <4> QED
        BY <1>3, <1>4, <1>7, <4>1
    <3>2. CASE k = Len(b) + 1
      <4>1. k \in 1..((i + 2) - a) /\ (a + k) - 1 = i + 1
        BY <1>3, <1>4, <3>2
      <4> QED
        BY <1>4, <1>5, <1>7, <3>2, <4>1
    <3> QED
      BY <1>3, <1>4, <3>1, <3>2
  <2> QED
    BY <2>1, <2>2
<1>9. c = d
  BY <1>4, <1>7, <1>8
<1> QED
  BY <1>1, <1>2, <1>5, <1>6, <1>9, Zenon

\* The length of a part.
LEMMA SliceLen ==
    ASSUME NEW S, NEW e \in Seq(S), NEW k \in Nat, NEW i \in Nat, k <= i, i <= Len(e)
    PROVE  Len(SubSeq(e, k + 1, i)) = i - k
  OBVIOUS

\* A part and the part after it.
LEMMA SliceTwo ==
    ASSUME NEW S, NEW e \in Seq(S), NEW a \in Nat, NEW k \in Nat, NEW i \in Nat, a >= 1,
           a <= k + 1, k <= i, i <= Len(e)
    PROVE  SubSeq(e, a, k) \o SubSeq(e, k + 1, i) = SubSeq(e, a, i)
<1>1. PICK l : l = SubSeq(e, a, k)
  BY Zenon
<1>2. PICK r : r = SubSeq(e, k + 1, i)
  BY Zenon
<1>3. PICK d : d = SubSeq(e, a, i)
  BY Zenon
<1>4. l \in Seq(S) /\ Len(l) = (k + 1) - a /\ \A n \in 1..((k + 1) - a) : l[n] = e[(a + n) - 1]
  BY <1>1
<1>5. r \in Seq(S) /\ Len(r) = i - k /\ \A n \in 1..(i - k) : r[n] = e[k + n]
  BY <1>2
<1>6. d \in Seq(S) /\ Len(d) = (i + 1) - a /\ \A n \in 1..((i + 1) - a) : d[n] = e[(a + n) - 1]
  BY <1>3
<1>7. PICK c : c = l \o r
  BY Zenon
<1>8. /\ c \in Seq(S) /\ Len(c) = Len(l) + Len(r)
      /\ \A n \in 1..Len(l) : c[n] = l[n]
      /\ \A n \in 1..Len(r) : c[Len(l) + n] = r[n]
  <2>1. l \in Seq(S) /\ r \in Seq(S)
    BY <1>4, <1>5
  <2> QED
    BY <1>7, <2>1, ConcatFacts
<1>9. ASSUME NEW n \in 1..Len(d) PROVE c[n] = d[n]
  <2>1. CASE n <= Len(l)
    BY <1>4, <1>6, <1>8, <2>1
  <2>2. CASE n > Len(l)
    <3>1. PICK m : m = n - Len(l)
      OBVIOUS
    <3>2. m \in 1..Len(r) /\ n = Len(l) + m /\ (a + n) - 1 = k + m /\ m \in 1..(i - k)
      BY <1>4, <1>5, <1>6, <2>2, <3>1
    <3> QED
      BY <1>5, <1>6, <1>8, <3>2
  <2> QED
    BY <1>4, <1>6, <2>1, <2>2
<1>10. Len(c) = Len(d)
  BY <1>4, <1>5, <1>6, <1>8, SMTT(40)
<1>11. c = d
  BY <1>6, <1>8, <1>9, <1>10
<1> QED
  BY <1>1, <1>2, <1>3, <1>7, <1>11, Zenon

-----------------------------------------------------------------------------
\* f is the text of the parts that end at each of the first n nodes.
IsText(f, e, n) == f = [i \in 1..n |-> Tokens(e, i, AtParts(e, i, f))]

\* There is such a function.
LEMMA TextExists ==
    ASSUME NEW e, NEW sz, Tree(e, sz)
    PROVE  \E f : IsText(f, e, Len(e))
<1> DEFINE P == {n \in Nat : n <= Len(e) => \E f : IsText(f, e, n)}
<1>1. 0 \in P
  <2>1. IsText([i \in 1..0 |-> 0], e, 0)
    BY DEF IsText
  <2> QED
    BY <2>1
<1>2. ASSUME NEW n \in P PROVE n + 1 \in P
  <2>1. SUFFICES ASSUME n + 1 <= Len(e) PROVE \E f : IsText(f, e, n + 1)
    OBVIOUS
  <2>2. n \in Nat /\ Len(e) \in Nat /\ n <= Len(e)
    BY <2>1 DEF Tree
  <2>3. PICK f : IsText(f, e, n)
    BY <2>2
  <2>4. PICK last : last = Tokens(e, n + 1, AtParts(e, n + 1, f))
    OBVIOUS
  <2>5. PICK g : g = [i \in 1..(n + 1) |-> IF i <= n THEN f[i] ELSE last]
    OBVIOUS
  <2>6. \A i \in 1..n : g[i] = f[i]
    BY <2>2, <2>5
  <2>7. ASSUME NEW i \in 1..(n + 1) PROVE g[i] = Tokens(e, i, AtParts(e, i, g))
    <3>1. AtParts(e, i, g) = AtParts(e, i, f)
      <4>1. i \in 1..Len(e) /\ \A j \in 1..(i-1) : j \in 1..n
        BY <2>1, <2>2
      <4>2. \A j \in 1..(i-1) : g[j] = f[j]
        BY <2>6, <4>1
      <4> QED
        BY <4>1, <4>2, AtPartsSame
    <3>2. CASE i \in 1..n
      <4>1. f[i] = Tokens(e, i, AtParts(e, i, f))
        BY <2>3, <3>2 DEF IsText
      <4> QED
        BY <2>6, <3>1, <3>2, <4>1
    <3>3. CASE i = n + 1
      <4>1. g[i] = last
        BY <2>2, <2>5, <3>3
      <4> QED
        BY <2>4, <3>1, <3>3, <4>1
    <3> QED
      BY <2>2, <3>2, <3>3
  <2>8. IsText(g, e, n + 1)
    BY <2>5, <2>7 DEF IsText
  <2> QED
    BY <2>8
<1> HIDE DEF P
<1>3. P = Nat
  <2>1. P \in SUBSET Nat
    BY DEF P
  <2> QED
    BY <1>1, <1>2, <2>1, NatInd
<1>4. Len(e) \in Nat
  BY DEF Tree
<1> QED
  BY <1>3, <1>4 DEF P

\* What the author writes, one node unfolded.
LEMMA WrittenIs ==
    ASSUME NEW e, NEW sz, Tree(e, sz)
    PROVE  \E f : /\ Written(e) = f[Len(e)]
                  /\ \A i \in 1..Len(e) : f[i] = Tokens(e, i, AtParts(e, i, f))
<1>1. \E f : IsText(f, e, Len(e))
  BY TextExists
<1>2. PICK f : IsText(f, e, Len(e)) /\ Written(e) = f[Len(e)]
  BY <1>1, Zenon DEF IsText, Written
<1>3. ASSUME NEW i \in 1..Len(e) PROVE f[i] = Tokens(e, i, AtParts(e, i, f))
  <2>1. PICK g : g = [k \in 1..Len(e) |-> Tokens(e, k, AtParts(e, k, f))]
    OBVIOUS
  <2>2. f = g
    BY <1>2, <2>1, Zenon DEF IsText
  <2>3. g[i] = Tokens(e, i, AtParts(e, i, f))
    BY <2>1, Zenon
  <2> QED
    BY <2>2, <2>3, Zenon
<1> QED
  BY <1>2, <1>3, Zenon

-----------------------------------------------------------------------------
\* The text of part k of node i where its place asks for a binding.
PartText(e, i, texts, k, place) == InPlace(texts[k], Binds(e[i - e[i][3][k]]), place)

\* How tightly each node binds.
LEMMA BindsIs ==
    ASSUME NEW node
    PROVE  /\ Binds(node) \in 1..6
           /\ node[1] \in {"lit", "path", "call"} => Binds(node) = 6
           /\ node[1] = "in" => Binds(node) = 5
           /\ node[1] \in Comparisons => Binds(node) = 4
           /\ node[1] = "not" => Binds(node) = 3
           /\ node[1] = "and" => Binds(node) = 2
           /\ node[1] = "or" => Binds(node) = 1
  BY DEF Binds, Comparisons

\* What the author writes for each kind of node.
LEMMA TokensOf ==
    ASSUME NEW e, NEW i, NEW texts
    PROVE  /\ e[i][1] = "lit" => Tokens(e, i, texts) = <<<<"lit", e[i][2]>>>>
           /\ e[i][1] = "path" => Tokens(e, i, texts) = Dotted(e[i][2])
           /\ e[i][1] = "call" =>
                Tokens(e, i, texts) = Both(<<<<"ident", e[i][2]>>>>, Parens(Listed(<<",">>, texts)))
           /\ e[i][1] = "not" =>
                Tokens(e, i, texts) = <<<<"not">>>> \o PartText(e, i, texts, 1, 3)
<1>0. PICK kind : kind = e[i][1]
  BY Zenon
<1>a. kind \in {"lit", "path", "call", "not"} => kind \notin Comparisons /\ kind \notin {"and", "or"}
  BY DEF Comparisons
<1>1. ASSUME e[i][1] = "lit" PROVE Tokens(e, i, texts) = <<<<"lit", e[i][2]>>>>
  BY <1>0, <1>a, <1>1, Zenon DEF Tokens
<1>2. ASSUME e[i][1] = "path" PROVE Tokens(e, i, texts) = Dotted(e[i][2])
  BY <1>0, <1>a, <1>2, Zenon DEF Tokens, Dotted
<1>3. ASSUME e[i][1] = "call"
      PROVE  Tokens(e, i, texts) = Both(<<<<"ident", e[i][2]>>>>, Parens(Listed(<<",">>, texts)))
  BY <1>0, <1>a, <1>3, Zenon DEF Tokens, Both
<1>4. ASSUME e[i][1] = "not"
      PROVE  Tokens(e, i, texts) = <<<<"not">>>> \o PartText(e, i, texts, 1, 3)
  BY <1>0, <1>a, <1>4, Zenon DEF Tokens, PartText, InPlace
<1> QED
  BY <1>1, <1>2, <1>3, <1>4, Zenon

\* ... and those of a node of two parts.
LEMMA TokensOfTwo ==
    ASSUME NEW e, NEW i, NEW texts, NEW kind, e[i][1] = kind
    PROVE  /\ kind = "in" =>
                Tokens(e, i, texts)
                    = PartText(e, i, texts, 1, 6) \o (IF e[i][2] THEN <<<<"not">>>> ELSE <<>>)
                        \o <<<<"in">>>> \o PartText(e, i, texts, 2, 6)
           /\ kind \in Comparisons =>
                Tokens(e, i, texts)
                    = PartText(e, i, texts, 1, 5) \o <<<<kind>>>> \o PartText(e, i, texts, 2, 5)
           /\ kind = "and" =>
                Tokens(e, i, texts)
                    = Between(PartText(e, i, texts, 1, 2), "and", PartText(e, i, texts, 2, 3))
           /\ kind = "or" =>
                Tokens(e, i, texts)
                    = Between(PartText(e, i, texts, 1, 1), "or", PartText(e, i, texts, 2, 2))
<1>0. /\ {"lit", "path", "call", "not", "in", "and", "or"} \cap Comparisons = {}
  BY DEF Comparisons
<1>1. ASSUME kind = "in"
      PROVE  Tokens(e, i, texts)
                = PartText(e, i, texts, 1, 6) \o (IF e[i][2] THEN <<<<"not">>>> ELSE <<>>)
                        \o <<<<"in">>>> \o PartText(e, i, texts, 2, 6)
  <2>1. kind \notin Comparisons /\ kind \notin {"and", "or"}
    BY <1>0, <1>1, Zenon
  <2> QED
    BY <1>1, <2>1, Zenon DEF Tokens, PartText, InPlace
<1>2. ASSUME kind \in Comparisons
      PROVE  Tokens(e, i, texts)
                = PartText(e, i, texts, 1, 5) \o <<<<kind>>>> \o PartText(e, i, texts, 2, 5)
  <2>1. kind \notin {"lit", "path", "call", "not", "in", "and", "or"}
    BY <1>0, <1>2, Zenon
  <2>2. kind # "lit" /\ kind # "path" /\ kind # "call" /\ kind # "not" /\ kind # "in"
        /\ kind \notin {"and", "or"}
    BY <2>1, Zenon
  <2> QED
    BY <1>2, <2>2, Zenon DEF Tokens, PartText, InPlace
<1>3. ASSUME kind = "and"
      PROVE  Tokens(e, i, texts)
                = Between(PartText(e, i, texts, 1, 2), "and", PartText(e, i, texts, 2, 3))
  <2>1. Binds(e[i]) = 2 /\ 2 + 1 = 3
    BY <1>3, BindsIs
  <2>2. kind \notin Comparisons /\ kind \in {"and", "or"}
    BY <1>0, <1>3, Zenon
  <2> QED
    BY <1>3, <2>1, <2>2, Zenon DEF Tokens, PartText, InPlace, Between
<1>4. ASSUME kind = "or"
      PROVE  Tokens(e, i, texts)
                = Between(PartText(e, i, texts, 1, 1), "or", PartText(e, i, texts, 2, 2))
  <2>1. Binds(e[i]) = 1 /\ 1 + 1 = 2
    BY <1>4, BindsIs
  <2>2. kind \notin Comparisons /\ kind \in {"and", "or"}
    BY <1>0, <1>4, Zenon
  <2> QED
    BY <1>4, <2>1, <2>2, Zenon DEF Tokens, PartText, InPlace, Between
<1> QED
  BY <1>1, <1>2, <1>3, <1>4, Zenon

\* Concatenation is associative.
LEMMA ConcatThree ==
    ASSUME NEW a \in Seq(Tok), NEW b \in Seq(Tok), NEW c \in Seq(Tok)
    PROVE  (a \o b) \o c = a \o (b \o c) /\ a \o b \in Seq(Tok) /\ b \o c \in Seq(Tok)
           /\ a \o (b \o c) \in Seq(Tok)
<1>1. PICK ab : ab = a \o b
  BY Zenon
<1>2. PICK bc : bc = b \o c
  BY Zenon
<1>3. /\ ab \in Seq(Tok) /\ Len(ab) = Len(a) + Len(b)
      /\ \A i \in 1..Len(a) : ab[i] = a[i]
      /\ \A i \in 1..Len(b) : ab[Len(a) + i] = b[i]
  BY <1>1, ConcatFacts
<1>4. /\ bc \in Seq(Tok) /\ Len(bc) = Len(b) + Len(c)
      /\ \A i \in 1..Len(b) : bc[i] = b[i]
      /\ \A i \in 1..Len(c) : bc[Len(b) + i] = c[i]
  BY <1>2, ConcatFacts
<1>5. PICK l : l = ab \o c
  BY Zenon
<1>6. PICK r : r = a \o bc
  BY Zenon
<1>7. /\ l \in Seq(Tok) /\ Len(l) = Len(ab) + Len(c)
      /\ \A i \in 1..Len(ab) : l[i] = ab[i]
      /\ \A i \in 1..Len(c) : l[Len(ab) + i] = c[i]
  <2>1. ab \in Seq(Tok)
    BY <1>3
  <2> QED
    BY <1>5, <2>1, ConcatFacts
<1>8. /\ r \in Seq(Tok) /\ Len(r) = Len(a) + Len(bc)
      /\ \A i \in 1..Len(a) : r[i] = a[i]
      /\ \A i \in 1..Len(bc) : r[Len(a) + i] = bc[i]
  <2>1. bc \in Seq(Tok)
    BY <1>4
  <2> QED
    BY <1>6, <2>1, ConcatFacts
<1>9. ASSUME NEW i \in 1..Len(l) PROVE l[i] = r[i]
  <2>1. i \in Nat /\ Len(a) \in Nat /\ Len(b) \in Nat /\ Len(c) \in Nat
    OBVIOUS
  <2>2. CASE i <= Len(a)
    BY <1>3, <1>7, <1>8, <2>1, <2>2
  <2>3. CASE i > Len(a) /\ i <= Len(a) + Len(b)
    <3>1. PICK k : k = i - Len(a)
      OBVIOUS
    <3>2. k \in 1..Len(b) /\ i = Len(a) + k /\ k \in 1..Len(bc) /\ i \in 1..Len(ab)
      BY <1>3, <1>4, <2>1, <2>3, <3>1
    <3> QED
      BY <1>3, <1>4, <1>7, <1>8, <3>2
  <2>4. CASE i > Len(a) + Len(b)
    <3>1. PICK k : k = i - (Len(a) + Len(b))
      OBVIOUS
    <3>2. /\ k \in 1..Len(c) /\ i = Len(ab) + k /\ Len(b) + k \in 1..Len(bc)
          /\ i = Len(a) + (Len(b) + k)
      BY <1>3, <1>4, <1>7, <2>1, <2>4, <3>1
    <3> QED
      BY <1>4, <1>7, <1>8, <3>2
  <2> QED
    BY <2>1, <2>2, <2>3, <2>4
<1>10. Len(l) = Len(r)
  BY <1>3, <1>4, <1>7, <1>8
<1>11. l = r
  BY <1>7, <1>8, <1>9, <1>10
<1> QED
  BY <1>1, <1>2, <1>3, <1>4, <1>5, <1>6, <1>8, <1>11, Zenon

\* The arguments of a call, a comma between two.
LEMMA ListedIs ==
    ASSUME NEW a \in Seq(Tok), NEW b \in Seq(Tok)
    PROVE  /\ Listed(<<",">>, <<a>>) = a
           /\ Listed(<<",">>, <<a, b>>) = Between(a, ",", b)
<1>1. PICK c, o : c = <<",">> /\ o = <<c>>
  BY Zenon
<1>2. o \in Seq(Tok) /\ Len(o) = 1
  BY <1>1, Tokens1 DEF Words
<1>3. ASSUME NEW s \in Seq(Tok) PROVE o \o s \in Seq(Tok) /\ o \o s # <<>> /\ Tail(o \o s) = s
  <2>1. PICK d : d = o \o s
    BY Zenon
  <2>2. /\ d \in Seq(Tok) /\ Len(d) = Len(o) + Len(s)
        /\ \A i \in 1..Len(s) : d[Len(o) + i] = s[i]
    <3>1. o \in Seq(Tok)
      BY <1>2
    <3> QED
      BY <2>1, <3>1, ConcatFacts
  <2>3. PICK v : v = Tail(d)
    BY Zenon
  <2>4. d # <<>> /\ Len(s) \in Nat
    BY <1>2, <2>2
  <2>5. v \in Seq(Tok) /\ Len(v) = Len(s) /\ \A i \in 1..Len(s) : v[i] = d[i + 1]
    BY <1>2, <2>2, <2>3, <2>4
  <2>6. \A i \in 1..Len(s) : v[i] = s[i]
    BY <1>2, <2>2, <2>5
  <2>7. v = s
    BY <2>5, <2>6
  <2> QED
    BY <2>1, <2>2, <2>3, <2>4, <2>7, Zenon
<1>4. Listed(c, <<a>>) = a
  <2>1. PICK s : s = <<a>>
    BY Zenon
  <2>2. s # <<>> /\ Len(s) = 1 /\ s[1] = a
    BY <2>1
  <2>3. PICK oa : oa = o \o a
    BY Zenon
  <2>4. PICK u : u = [k \in 1..Len(s) |-> <<c>> \o s[k]]
    BY Zenon
  <2>5. u = <<oa>>
    <3>1. 1 \in 1..Len(s)
      BY <2>2
    <3>2. u[1] = oa
      BY <1>1, <2>2, <2>3, <2>4, <3>1, Zenon
    <3>3. u = [k \in 1..1 |-> oa]
      <4>1. \A k \in 1..1 : k = 1
        OBVIOUS
      <4>2. \A k \in 1..1 : <<c>> \o s[k] = oa
        BY <1>1, <2>2, <2>3, <4>1, Zenon
      <4> QED
        BY <2>2, <2>4, <4>2, Zenon
    <3> QED
      BY <3>3
  <2>6. Listed(c, s) = Tail(FlattenSeq(u))
    BY <2>2, <2>4, Zenon DEF Listed
  <2>7. FlattenSeq(u) = oa
    BY <2>5, FlatShort, Zenon
  <2>8. Tail(oa) = a
    BY <1>3, <2>3, Zenon
  <2> QED
    BY <2>1, <2>6, <2>7, <2>8, Zenon
<1>5. Listed(c, <<a, b>>) = Between(a, ",", b)
  <2>1. PICK s : s = <<a, b>>
    BY Zenon
  <2>2. s # <<>> /\ Len(s) = 2 /\ s[1] = a /\ s[2] = b
    BY <2>1
  <2>3. PICK oa, ob : oa = o \o a /\ ob = o \o b
    BY Zenon
  <2>4. PICK u : u = [k \in 1..Len(s) |-> <<c>> \o s[k]]
    BY Zenon
  <2>5. u = <<oa, ob>>
    <3>1. 1 \in 1..2 /\ 2 \in 1..2 /\ \A k \in 1..2 : k = 1 \/ k = 2
      OBVIOUS
    <3>2. u[1] = oa /\ u[2] = ob
      BY <1>1, <2>2, <2>3, <2>4, <3>1, Zenon
    <3>3. PICK w : w = [k \in 1..2 |-> IF k = 1 THEN oa ELSE ob]
      BY Zenon
    <3>4. 2 # 1
      OBVIOUS
    <3>5. \A k \in 1..2 : <<c>> \o s[k] = IF k = 1 THEN oa ELSE ob
      BY <1>1, <2>2, <2>3, <3>1, <3>4, Zenon
    <3>6. u = w
      BY <2>2, <2>4, <3>3, <3>5, Zenon
    <3> QED
      <4>1. w = <<oa, ob>>
        BY <3>3
      <4> QED
        BY <3>6, <4>1, Zenon
  <2>6. Listed(c, s) = Tail(FlattenSeq(u))
    BY <2>2, <2>4, Zenon DEF Listed
  <2>7. FlattenSeq(u) = oa \o ob
    BY <2>5, FlatShort, Zenon
  <2>8. oa \o ob = o \o (a \o ob)
    <3>1. ob \in Seq(Tok)
      BY <1>3, <2>3, Zenon
    <3>2. (o \o a) \o ob = o \o (a \o ob)
      BY <1>2, <3>1, ConcatThree, ZenonT(40)
    <3> QED
      BY <2>3, <3>2, Zenon
  <2>9. a \o ob \in Seq(Tok) /\ a \o ob = a \o o \o b
    <3>1. (a \o o) \o b = a \o (o \o b) /\ a \o (o \o b) \in Seq(Tok)
      BY <1>2, ConcatThree, ZenonT(40)
    <3> QED
      BY <2>3, <3>1, Zenon
  <2>10. Tail(oa \o ob) = a \o o \o b
    BY <1>3, <2>8, <2>9, Zenon
  <2> QED
    BY <1>1, <2>1, <2>6, <2>7, <2>10, Zenon DEF Between
<1> QED
  BY <1>1, <1>4, <1>5, Zenon

-----------------------------------------------------------------------------
\* The levels by their names.
LEMMA LevelIs ==
    ASSUME NEW x, NEW s
    PROVE  /\ Level(x, s, 6) <=> Primary(x, s)
           /\ Level(x, s, 5) <=> Membership(x, s)
           /\ Level(x, s, 4) <=> Compare(x, s)
           /\ Level(x, s, 3) <=> Negation(x, s)
           /\ Level(x, s, 2) <=> Ands(x, s)
           /\ Level(x, s, 1) <=> Ors(x, s)
  BY DEF Level

\* A node over one part is read at the level it binds at.
LEMMA OneReads ==
    ASSUME NEW l, NEW a, NEW b \in 1..6, Level(l, a, b)
    PROVE  /\ Level(Unary("not", {}, l), <<<<"not">>>> \o InPlace(a, b, 3), 3)
           /\ \A fn \in Idents :
                 Level(Unary("call", fn, l),
                       Both(<<<<"ident", fn>>>>, Parens(Listed(<<",">>, <<a>>))), 6)
<1>1. Disjunction(l, a)
  BY ReadsAsExpr, Zenon
<1>2. a \in Seq(Tok)
  BY <1>1 DEF Disjunction, Text
<1>3. Level(Unary("not", {}, l), <<<<"not">>>> \o InPlace(a, b, 3), 3)
  <2>1. 3 \in 1..6
    OBVIOUS
  <2>2. Level(l, InPlace(a, b, 3), 3)
    BY <2>1, PartReads, Zenon
  <2>3. Negation(l, InPlace(a, b, 3))
    BY <2>2, LevelIs, Zenon
  <2>4. Negation(Unary("not", {}, l), <<<<"not">>>> \o InPlace(a, b, 3))
    BY <2>3, NotRead, Zenon
  <2> QED
    BY <2>4, LevelIs, Zenon
<1>4. ASSUME NEW fn \in Idents
      PROVE  Level(Unary("call", fn, l),
                   Both(<<<<"ident", fn>>>>, Parens(Listed(<<",">>, <<a>>))), 6)
  <2>1. Arguments(<<l>>, a)
    BY <1>1, OneArgument, Zenon
  <2>2. Primary(Call(fn, <<l>>), Both(<<<<"ident", fn>>>>, Parens(a)))
    BY <2>1, CallRead, Zenon
  <2>3. Listed(<<",">>, <<a>>) = a
    BY <1>2, ListedIs, Zenon
  <2>4. Call(fn, <<l>>) = Unary("call", fn, l)
    BY CallIs, Zenon
  <2>5. Primary(Unary("call", fn, l), Both(<<<<"ident", fn>>>>, Parens(Listed(<<",">>, <<a>>))))
    BY <2>2, <2>3, <2>4, Zenon
  <2> QED
    BY <2>5, LevelIs, Zenon
<1> QED
  BY <1>3, <1>4, Zenon

\* ... and so is one over two.
LEMMA TwoReads ==
    ASSUME NEW l, NEW a, NEW b \in 1..6, Level(l, a, b), NEW r, NEW c, NEW d \in 1..6, Level(r, c, d)
    PROVE  /\ \A of \in BOOLEAN :
                 Level(Binary("in", of, l, r),
                       InPlace(a, b, 6) \o (IF of THEN <<<<"not">>>> ELSE <<>>)
                           \o <<<<"in">>>> \o InPlace(c, d, 6), 5)
           /\ \A op \in Comparisons :
                 Level(Binary(op, {}, l, r), InPlace(a, b, 5) \o <<<<op>>>> \o InPlace(c, d, 5), 4)
           /\ Level(Binary("and", {}, l, r), Between(InPlace(a, b, 2), "and", InPlace(c, d, 3)), 2)
           /\ Level(Binary("or", {}, l, r), Between(InPlace(a, b, 1), "or", InPlace(c, d, 2)), 1)
           /\ \A fn \in Idents :
                 Level(Binary("call", fn, l, r),
                       Both(<<<<"ident", fn>>>>, Parens(Listed(<<",">>, <<a, c>>))), 6)
<1>1. Disjunction(l, a) /\ Disjunction(r, c)
  BY ReadsAsExpr, Zenon
<1>2. a \in Seq(Tok) /\ c \in Seq(Tok)
  BY <1>1 DEF Disjunction, Text
<1>3. 1 \in 1..6 /\ 2 \in 1..6 /\ 3 \in 1..6 /\ 5 \in 1..6 /\ 6 \in 1..6
  OBVIOUS
<1>4. ASSUME NEW of \in BOOLEAN
      PROVE  Level(Binary("in", of, l, r),
                   InPlace(a, b, 6) \o (IF of THEN <<<<"not">>>> ELSE <<>>)
                       \o <<<<"in">>>> \o InPlace(c, d, 6), 5)
  <2>1. PICK s, u : s = InPlace(a, b, 6) /\ u = InPlace(c, d, 6)
    BY Zenon
  <2>2. Primary(l, s) /\ Primary(r, u)
    <3>1. Level(l, s, 6) /\ Level(r, u, 6)
      BY <1>3, <2>1, PartReads, Zenon
    <3> QED
      BY <3>1, LevelIs, Zenon
  <2>3. s \in Seq(Tok)
    BY <2>2 DEF Primary, Text
  <2>4. s \o <<>> = s
    BY <2>3
  <2>5. Membership(Binary("in", FALSE, l, r), s \o <<<<"in">>>> \o u)
    BY <2>2, InRead, Zenon
  <2>6. Membership(Binary("in", TRUE, l, r), s \o <<<<"not">>>> \o <<<<"in">>>> \o u)
    BY <2>2, NotInRead, Zenon
  <2>7. Membership(Binary("in", of, l, r),
                   s \o (IF of THEN <<<<"not">>>> ELSE <<>>) \o <<<<"in">>>> \o u)
    <3>1. CASE of = TRUE
      BY <2>6, <3>1, Zenon
    <3>2. CASE of = FALSE
      BY <2>4, <2>5, <3>2, Zenon
    <3> QED
      BY <3>1, <3>2, Zenon
  <2> QED
    BY <2>1, <2>7, LevelIs, Zenon
<1>5. ASSUME NEW op \in Comparisons
      PROVE  Level(Binary(op, {}, l, r), InPlace(a, b, 5) \o <<<<op>>>> \o InPlace(c, d, 5), 4)
  <2>1. Level(l, InPlace(a, b, 5), 5) /\ Level(r, InPlace(c, d, 5), 5)
    BY <1>3, PartReads, Zenon
  <2>2. Membership(l, InPlace(a, b, 5)) /\ Membership(r, InPlace(c, d, 5))
    BY <2>1, LevelIs, Zenon
  <2>3. Compare(Binary(op, {}, l, r), InPlace(a, b, 5) \o <<<<op>>>> \o InPlace(c, d, 5))
    BY <2>2, CompareRead, Zenon
  <2> QED
    BY <2>3, LevelIs, Zenon
<1>6. Level(Binary("and", {}, l, r), Between(InPlace(a, b, 2), "and", InPlace(c, d, 3)), 2)
  <2>1. Level(l, InPlace(a, b, 2), 2) /\ Level(r, InPlace(c, d, 3), 3)
    BY <1>3, PartReads, Zenon
  <2>2. Ands(l, InPlace(a, b, 2)) /\ Negation(r, InPlace(c, d, 3))
    BY <2>1, LevelIs, Zenon
  <2>3. Ands(Binary("and", {}, l, r), Between(InPlace(a, b, 2), "and", InPlace(c, d, 3)))
    BY <2>2, AndsRead, Zenon
  <2> QED
    BY <2>3, LevelIs, Zenon
<1>7. Level(Binary("or", {}, l, r), Between(InPlace(a, b, 1), "or", InPlace(c, d, 2)), 1)
  <2>1. Level(l, InPlace(a, b, 1), 1) /\ Level(r, InPlace(c, d, 2), 2)
    BY <1>3, PartReads, Zenon
  <2>2. Ors(l, InPlace(a, b, 1)) /\ Ands(r, InPlace(c, d, 2))
    BY <2>1, LevelIs, Zenon
  <2>3. Conjunction(r, InPlace(c, d, 2))
    BY <2>2, ConjunctionLift, Zenon
  <2>4. Ors(Binary("or", {}, l, r), Between(InPlace(a, b, 1), "or", InPlace(c, d, 2)))
    BY <2>2, <2>3, OrsRead, Zenon
  <2> QED
    BY <2>4, LevelIs, Zenon
<1>8. ASSUME NEW fn \in Idents
      PROVE  Level(Binary("call", fn, l, r),
                   Both(<<<<"ident", fn>>>>, Parens(Listed(<<",">>, <<a, c>>))), 6)
  <2>1. Arguments(<<l, r>>, Between(a, ",", c))
    BY <1>1, TwoArguments, Zenon
  <2>2. Primary(Call(fn, <<l, r>>), Both(<<<<"ident", fn>>>>, Parens(Between(a, ",", c))))
    BY <2>1, CallRead, Zenon
  <2>3. Listed(<<",">>, <<a, c>>) = Between(a, ",", c)
    BY <1>2, ListedIs, Zenon
  <2>4. Call(fn, <<l, r>>) = Binary("call", fn, l, r)
    BY CallIs, Zenon
  <2>5. Primary(Binary("call", fn, l, r),
                Both(<<<<"ident", fn>>>>, Parens(Listed(<<",">>, <<a, c>>))))
    BY <2>2, <2>3, <2>4, Zenon
  <2> QED
    BY <2>5, LevelIs, Zenon
<1> QED
  BY <1>4, <1>5, <1>6, <1>7, <1>8, Zenon

\* A leaf, read from its text.
LEMMA LeafReads ==
    ASSUME NEW e, NEW i, NEW texts, e[i] \in Leaves
    PROVE  Level(Leaf(e[i]), Tokens(e, i, texts), Binds(e[i]))
<1>1. PICK x : x = e[i]
  BY Zenon
<1>2. \/ x[1] = "path" /\ x = <<"path", x[2], <<>>>> /\ x[2] \in Seq(STRING) \ {<<>>}
      \/ x[1] = "lit" /\ x = <<"lit", x[2], <<>>>> /\ x[2] = <<x[2][1], x[2][2]>>
            /\ \/ x[2][1] = "Bool" /\ x[2][2] \in BOOLEAN
               \/ x[2][1] = "Int" /\ x[2][2] \in Nat
               \/ x[2][1] = "Str" /\ x[2][2] \in Seq(Nat)
  BY <1>1, DictumAssumption, Zenon
<1>3. CASE x[1] = "path" /\ x = <<"path", x[2], <<>>>> /\ x[2] \in Seq(STRING) \ {<<>>}
  <2>1. PICK segs : segs = x[2]
    BY Zenon
  <2>2. segs \in Seq(STRING) /\ segs # <<>>
    BY <1>3, <2>1, Zenon
  <2>3. Len(segs) > 0
    BY <2>2
  <2>4. Primary(Leaf(<<"path", segs, <<>>>>), Dotted(segs))
    BY <2>2, <2>3, PathRead, Zenon
  <2>5. Tokens(e, i, texts) = Dotted(segs)
    BY <1>1, <1>3, <2>1, TokensOf, Zenon
  <2>6. x = <<"path", segs, <<>>>>
    BY <1>3, <2>1, Zenon
  <2>7. Binds(x) = 6
    BY <1>3, BindsIs, Zenon
  <2>8. Level(Leaf(x), Dotted(segs), 6)
    BY <2>4, <2>6, LevelIs, Zenon
  <2> QED
    BY <1>1, <2>5, <2>7, <2>8, Zenon
<1>4. CASE x[1] = "lit" /\ x = <<"lit", x[2], <<>>>> /\ x[2] = <<x[2][1], x[2][2]>>
            /\ \/ x[2][1] = "Bool" /\ x[2][2] \in BOOLEAN
               \/ x[2][1] = "Int" /\ x[2][2] \in Nat
               \/ x[2][1] = "Str" /\ x[2][2] \in Seq(Nat)
  <2>1. PICK v, ty, of : v = x[2] /\ ty = x[2][1] /\ of = x[2][2]
    BY Zenon
  <2>2. v = <<ty, of>>
    BY <1>4, <2>1, Zenon
  <2>3. ty \in {"Bool", "Int", "Str"} /\ of \in BOOLEAN \cup Nat \cup Seq(Nat)
    BY <1>4, <2>1, Zenon
  <2>4. v \in Lits
    BY <2>2, <2>3 DEF Lits
  <2>5. Primary(Leaf(<<"lit", v, <<>>>>), <<<<"lit", v>>>>)
    BY <2>4, LitRead, Zenon
  <2>6. Tokens(e, i, texts) = <<<<"lit", v>>>>
    BY <1>1, <1>4, <2>1, TokensOf, Zenon
  <2>7. x = <<"lit", v, <<>>>>
    BY <1>4, <2>1, Zenon
  <2>8. Binds(x) = 6
    BY <1>4, BindsIs, Zenon
  <2>9. Level(Leaf(x), <<<<"lit", v>>>>, 6)
    BY <2>5, <2>7, LevelIs, Zenon
  <2> QED
    BY <1>1, <2>6, <2>8, <2>9, Zenon
<1> QED
  BY <1>2, <1>3, <1>4, Zenon

-----------------------------------------------------------------------------
\* The part of e that ends at i, of sz[i] nodes, is read from its text.
PartAt(e, sz, i) == SubSeq(e, (i - sz[i]) + 1, i)
ReadsAt(e, sz, f, i) ==
    /\ sz[i] \in Nat /\ sz[i] >= 1 /\ sz[i] <= i
    /\ Level(PartAt(e, sz, i), f[i], Binds(e[i]))

\* The node that an author sets on top of parts.
LEMMA NodeIs ==
    ASSUME NEW e, NEW sz, Tree(e, sz), NEW i \in 1..Len(e), e[i][1] \notin {"lit", "path"}
    PROVE  /\ e[i] = <<e[i][1], e[i][2], e[i][3]>> /\ e[i][1] \in NodeKinds
           /\ e[i][2] \in Contents /\ e[i][3] \in Seq(Nat)
<1>1. PICK x : x = e[i]
  BY Zenon
<1>2. x \in Nodes
  BY <1>1 DEF Tree
<1>3. x \notin Leaves
  <2>1. x \in Leaves => x[1] \in {"lit", "path"}
    BY LeafShape, Zenon
  <2> QED
    BY <1>1, <2>1, Zenon
<1>4. x \in NodeKinds \X Contents \X Seq(Nat)
  BY <1>2, <1>3, Zenon DEF Nodes
<1>5. x = <<x[1], x[2], x[3]>> /\ x[1] \in NodeKinds /\ x[2] \in Contents /\ x[3] \in Seq(Nat)
  BY <1>4
<1> QED
  BY <1>1, <1>5, Zenon

\* A slice of one node.
LEMMA SliceLeaf ==
    ASSUME NEW S, NEW e \in Seq(S), NEW i \in Nat, i >= 1, i <= Len(e)
    PROVE  SubSeq(e, i, i) = <<e[i]>>
<1>1. PICK s : s = SubSeq(e, i, i)
  BY Zenon
<1>2. s \in Seq(S) /\ Len(s) = 1 /\ s[1] = e[i]
  BY <1>1
<1>3. s = <<e[i]>>
  BY <1>2
<1> QED
  BY <1>1, <1>3, Zenon

\* A leaf of the tree.
LEMMA LeafAt ==
    ASSUME NEW e, NEW sz, Tree(e, sz), NEW i \in 1..Len(e), NEW f,
           f[i] = Tokens(e, i, AtParts(e, i, f)), e[i] \in Leaves, sz[i] = 1
    PROVE  ReadsAt(e, sz, f, i)
<1>1. i \in Nat /\ i >= 1 /\ (i - 1) + 1 = i /\ i <= Len(e) /\ e \in Seq(Nodes)
  BY DEF Tree
<1>2. SubSeq(e, i, i) = <<e[i]>>
  BY <1>1, SliceLeaf, Zenon
<1>3. PartAt(e, sz, i) = Leaf(e[i])
  BY <1>1, <1>2, Zenon DEF PartAt, Leaf
<1>4. Level(Leaf(e[i]), Tokens(e, i, AtParts(e, i, f)), Binds(e[i]))
  BY LeafReads, Zenon
<1>5. Level(PartAt(e, sz, i), f[i], Binds(e[i]))
  BY <1>3, <1>4, Zenon
<1>6. sz[i] \in Nat /\ sz[i] >= 1 /\ sz[i] <= i
  BY <1>1
<1> QED
  BY <1>5, <1>6, Zenon DEF ReadsAt

\* A node over one part.
LEMMA OneAt ==
    ASSUME NEW e, NEW sz, Tree(e, sz), NEW i \in 1..Len(e), NEW f,
           f[i] = Tokens(e, i, AtParts(e, i, f)), OneUnder(e, i, sz), ReadsAt(e, sz, f, i - 1)
    PROVE  ReadsAt(e, sz, f, i)
<1>1. /\ e \in Seq(Nodes) /\ i \in Nat /\ i > 1 /\ i <= Len(e)
      /\ e[i][1] \in {"not", "call"} /\ (e[i][1] = "not" => e[i][2] = {})
      /\ Len(e[i][3]) = 1 /\ e[i][3][1] = 1 /\ sz[i] = sz[i-1] + 1
  BY DEF Tree, OneUnder
<1>2. PICK n, j : n = sz[i-1] /\ j = i - 1
  BY Zenon
<1>3. n \in Nat /\ n >= 1 /\ n <= j /\ Level(PartAt(e, sz, j), f[j], Binds(e[j]))
  BY <1>2, Zenon DEF ReadsAt
<1>4. j \in Nat /\ j + 1 = i /\ (j - n) + 1 \in Nat /\ (j - n) + 1 >= 1 /\ (j - n) + 1 <= j + 1
      /\ j + 1 <= Len(e) /\ sz[i] = n + 1 /\ (i - sz[i]) + 1 = (j - n) + 1
  BY <1>1, <1>2, <1>3, SMTT(40)
<1>5. sz[i] \in Nat /\ sz[i] >= 1 /\ sz[i] <= i
  BY <1>3, <1>4
<1>6. PICK kind, of : kind = e[i][1] /\ of = e[i][2]
  BY Zenon
<1>7. kind \in {"not", "call"} /\ kind \notin {"lit", "path"}
  BY <1>1, <1>6
<1>8. e[i] = <<kind, of, e[i][3]>> /\ of \in Contents /\ e[i][3] \in Seq(Nat)
  BY <1>6, <1>7, NodeIs, Zenon
<1>9. e[i] = <<kind, of, <<1>>>>
  <2>1. PICK p : p = e[i][3]
    BY Zenon
  <2>2. p = <<1>>
    BY <1>1, <1>8, <2>1
  <2> QED
    BY <1>8, <2>1, <2>2, Zenon
<1>10. PICK l, a, b : l = PartAt(e, sz, j) /\ a = f[j] /\ b = Binds(e[j])
  BY Zenon
<1>11. PartAt(e, sz, i) = Unary(kind, of, l)
  <2>1. SubSeq(e, (j - n) + 1, j + 1) = Append(SubSeq(e, (j - n) + 1, j), e[j + 1])
    BY <1>1, <1>4, SliceOne, Zenon
  <2>2. SubSeq(e, (i - sz[i]) + 1, i) = Append(SubSeq(e, (j - sz[j]) + 1, j), e[i])
    BY <1>2, <1>4, <2>1, Zenon
  <2> QED
    BY <1>9, <1>10, <2>2, Zenon DEF PartAt, Unary
<1>12. AtParts(e, i, f) = <<a>>
  <2>1. PICK p : p = AtParts(e, i, f)
    BY Zenon
  <2>2. p = [k \in 1..1 |-> f[i - e[i][3][k]]]
    BY <1>1, <2>1, Zenon DEF AtParts
  <2>3. f[i - e[i][3][1]] = a
    BY <1>1, <1>2, <1>10
  <2>4. p = [k \in 1..1 |-> a]
    <3>1. \A k \in 1..1 : k = 1
      OBVIOUS
    <3>2. \A k \in 1..1 : f[i - e[i][3][k]] = a
      BY <2>3, <3>1, Zenon
    <3> QED
      BY <2>2, <3>2, Zenon
  <2>5. p = <<a>>
    BY <2>4
  <2> QED
    BY <2>1, <2>5, Zenon
<1>13. b \in 1..6 /\ Level(l, a, b)
  BY <1>3, <1>10, BindsIs, Zenon
<1>14. /\ Level(Unary("not", {}, l), <<<<"not">>>> \o InPlace(a, b, 3), 3)
       /\ \A fn \in Idents :
              Level(Unary("call", fn, l), Both(<<<<"ident", fn>>>>, Parens(Listed(<<",">>, <<a>>))), 6)
  BY <1>13, OneReads, Zenon
<1>15. CASE kind = "not"
  <2>1. of = {}
    BY <1>1, <1>6, <1>15, Zenon
  <2>2. Tokens(e, i, <<a>>) = <<<<"not">>>> \o PartText(e, i, <<a>>, 1, 3)
    BY <1>6, <1>15, TokensOf, Zenon
  <2>3. PartText(e, i, <<a>>, 1, 3) = InPlace(a, b, 3)
    <3>1. <<a>>[1] = a /\ i - e[i][3][1] = j
      BY <1>1, <1>2
    <3> QED
      BY <1>10, <3>1, Zenon DEF PartText
  <2>4. Binds(e[i]) = 3
    BY <1>6, <1>15, BindsIs, Zenon
  <2>5. Level(PartAt(e, sz, i), f[i], Binds(e[i]))
    BY <1>11, <1>12, <1>14, <1>15, <2>1, <2>2, <2>3, <2>4, Zenon
  <2> QED
    BY <1>5, <2>5, Zenon DEF ReadsAt
<1>16. CASE kind = "call"
  <2>1. of \in Idents
    BY <1>8, Zenon DEF Idents
  <2>2. Tokens(e, i, <<a>>) = Both(<<<<"ident", of>>>>, Parens(Listed(<<",">>, <<a>>)))
    <3>1. e[i][1] = "call"
      BY <1>6, <1>16, Zenon
    <3>2. Tokens(e, i, <<a>>) = Both(<<<<"ident", e[i][2]>>>>, Parens(Listed(<<",">>, <<a>>)))
      BY <3>1, TokensOf, Zenon
    <3> QED
      BY <1>6, <3>2, Zenon
  <2>3. Binds(e[i]) = 6
    BY <1>6, <1>16, BindsIs, Zenon
  <2>4. Level(PartAt(e, sz, i), f[i], Binds(e[i]))
    BY <1>11, <1>12, <1>14, <1>16, <2>1, <2>2, <2>3, Zenon
  <2> QED
    BY <1>5, <2>4, Zenon DEF ReadsAt
<1> QED
  BY <1>7, <1>15, <1>16, Zenon

\* A node over two parts.
LEMMA TwoAt ==
    ASSUME NEW e, NEW sz, Tree(e, sz), NEW i \in 1..Len(e), NEW f,
           f[i] = Tokens(e, i, AtParts(e, i, f)), TwoUnder(e, i, sz), ReadsAt(e, sz, f, i - 1),
           ReadsAt(e, sz, f, i - e[i][3][1])
    PROVE  ReadsAt(e, sz, f, i)
<1>0. e \in Seq(Nodes) /\ i \in Nat /\ i <= Len(e)
  BY DEF Tree
<1>1. /\ e[i][1] \in BinOps \cup {"in", "call"} /\ (e[i][1] \in BinOps => e[i][2] = {})
      /\ (e[i][1] = "in" => e[i][2] \in BOOLEAN)
      /\ Len(e[i][3]) = 2 /\ e[i][3][2] = 1 /\ e[i][3][1] = sz[i-1] + 1
      /\ e[i][3][1] \in Nat /\ e[i][3][1] > 1 /\ e[i][3][1] < i
      /\ sz[i] = sz[i - e[i][3][1]] + sz[i-1] + 1
  BY Zenon DEF TwoUnder
<1>2. PICK j, k, n, m : /\ j = i - 1 /\ k = i - e[i][3][1] /\ n = sz[i-1]
                        /\ m = sz[i - e[i][3][1]]
  BY Zenon
<1>3. /\ n \in Nat /\ n >= 1 /\ n <= j /\ Level(PartAt(e, sz, j), f[j], Binds(e[j]))
      /\ m \in Nat /\ m >= 1 /\ m <= k /\ Level(PartAt(e, sz, k), f[k], Binds(e[k]))
  BY <1>2, Zenon DEF ReadsAt
<1>a. PICK w, v : w = e[i][3][1] /\ v = sz[i]
  BY Zenon
<1>b. /\ j = i - 1 /\ k = i - w /\ w = n + 1 /\ v = m + n + 1 /\ w \in Nat /\ w > 1 /\ w < i
      /\ n \in Nat /\ n >= 1 /\ n <= j /\ m \in Nat /\ m >= 1 /\ m <= k
  BY <1>1, <1>2, <1>3, <1>a, Zenon
<1>c. /\ j \in Nat /\ k \in Nat /\ j + 1 = i /\ (j - n) + 1 = k + 1 /\ j - k = n
      /\ (k - m) + 1 \in Nat /\ (k - m) + 1 >= 1 /\ (k - m) + 1 <= k + 1 /\ k <= j
      /\ (k - m) + 1 <= j + 1 /\ j + 1 <= Len(e) /\ j <= Len(e)
      /\ (i - v) + 1 = (k - m) + 1
  BY <1>0, <1>b
<1>4. /\ j \in Nat /\ k \in Nat /\ j + 1 = i /\ (j - n) + 1 = k + 1 /\ j - k = n
      /\ (k - m) + 1 \in Nat /\ (k - m) + 1 >= 1 /\ (k - m) + 1 <= k + 1 /\ k <= j
      /\ (k - m) + 1 <= j + 1 /\ j + 1 <= Len(e) /\ j <= Len(e)
      /\ sz[i] = m + n + 1 /\ (i - sz[i]) + 1 = (k - m) + 1
  BY <1>a, <1>b, <1>c, Zenon
<1>5. sz[i] \in Nat /\ sz[i] >= 1 /\ sz[i] <= i
  <2>1. v \in Nat /\ v >= 1 /\ v <= i
    BY <1>0, <1>b
  <2> QED
    BY <1>a, <2>1, Zenon
<1>6. PICK kind, of : kind = e[i][1] /\ of = e[i][2]
  BY Zenon
<1>7. kind \in Comparisons \cup {"and", "or", "in", "call"} /\ kind \notin {"lit", "path"}
  BY <1>1, <1>6 DEF BinOps, Comparisons
<1>8. e[i] = <<kind, of, e[i][3]>> /\ of \in Contents /\ e[i][3] \in Seq(Nat)
  BY <1>6, <1>7, NodeIs, Zenon
<1>9. e[i] = <<kind, of, <<n + 1, 1>>>>
  <2>1. PICK p : p = e[i][3]
    BY Zenon
  <2>2. p = <<n + 1, 1>>
    BY <1>1, <1>2, <1>8, <2>1
  <2> QED
    BY <1>8, <2>1, <2>2, Zenon
<1>10. PICK l, a, b, r, c, d :
          /\ l = PartAt(e, sz, k) /\ a = f[k] /\ b = Binds(e[k])
          /\ r = PartAt(e, sz, j) /\ c = f[j] /\ d = Binds(e[j])
  BY Zenon
<1>11. PartAt(e, sz, i) = Binary(kind, of, l, r)
  <2>1. SubSeq(e, (k - m) + 1, j + 1) = Append(SubSeq(e, (k - m) + 1, j), e[j + 1])
    BY <1>0, <1>4, SliceOne, Zenon
  <2>2. SubSeq(e, (k - m) + 1, k) \o SubSeq(e, k + 1, j) = SubSeq(e, (k - m) + 1, j)
    BY <1>0, <1>4, SliceTwo, ZenonT(40)
  <2>3. l = SubSeq(e, (k - m) + 1, k) /\ r = SubSeq(e, k + 1, j)
    <3>1. m = sz[k] /\ n = sz[j]
      BY <1>2, Zenon
    <3> QED
      BY <1>4, <1>10, <3>1, Zenon DEF PartAt
  <2>4. Len(r) = n
    <3>1. Len(SubSeq(e, k + 1, j)) = j - k
      BY <1>0, <1>4, SliceLen, Zenon
    <3> QED
      BY <1>4, <2>3, <3>1, Zenon
  <2>5. PartAt(e, sz, i) = Append(l \o r, e[i])
    BY <1>4, <2>1, <2>2, <2>3, Zenon DEF PartAt
  <2> QED
    BY <1>9, <2>4, <2>5, Zenon DEF Binary
<1>12. AtParts(e, i, f) = <<a, c>>
  <2>1. PICK p : p = AtParts(e, i, f)
    BY Zenon
  <2>2. p = [q \in 1..2 |-> f[i - e[i][3][q]]]
    BY <1>1, <2>1, Zenon DEF AtParts
  <2>3. f[i - e[i][3][1]] = a /\ f[i - e[i][3][2]] = c
    BY <1>1, <1>2, <1>10
  <2>4. PICK both : both = [q \in 1..2 |-> IF q = 1 THEN a ELSE c]
    BY Zenon
  <2>5. p = both
    <3>1. \A q \in 1..2 : q = 1 \/ q = 2
      OBVIOUS
    <3>2. 2 # 1
      OBVIOUS
    <3>3. \A q \in 1..2 : f[i - e[i][3][q]] = IF q = 1 THEN a ELSE c
      BY <2>3, <3>1, <3>2, Zenon
    <3> QED
      BY <2>2, <2>4, <3>3, Zenon
  <2>6. both = <<a, c>>
    BY <2>4
  <2> QED
    BY <2>1, <2>5, <2>6, Zenon
<1>13. b \in 1..6 /\ Level(l, a, b) /\ d \in 1..6 /\ Level(r, c, d)
  BY <1>3, <1>10, BindsIs, Zenon
<1>14. PICK texts : texts = <<a, c>>
  BY Zenon
<1>15. ASSUME NEW place
       PROVE  /\ PartText(e, i, texts, 1, place) = InPlace(a, b, place)
              /\ PartText(e, i, texts, 2, place) = InPlace(c, d, place)
  <2>1. texts[1] = a /\ texts[2] = c /\ i - e[i][3][1] = k /\ i - e[i][3][2] = j
    BY <1>1, <1>2, <1>14
  <2> QED
    BY <1>10, <2>1, Zenon DEF PartText
<1>16. CASE kind = "in"
  <2>1. of \in BOOLEAN
    BY <1>1, <1>6, <1>16, Zenon
  <2>2. Tokens(e, i, texts)
            = InPlace(a, b, 6) \o (IF of THEN <<<<"not">>>> ELSE <<>>)
                \o <<<<"in">>>> \o InPlace(c, d, 6)
    <3>1. e[i][1] = "in"
      BY <1>6, <1>16, Zenon
    <3>2. Tokens(e, i, texts)
            = PartText(e, i, texts, 1, 6) \o (IF e[i][2] THEN <<<<"not">>>> ELSE <<>>)
                \o <<<<"in">>>> \o PartText(e, i, texts, 2, 6)
      BY <3>1, TokensOfTwo, Zenon
    <3> QED
      BY <1>6, <1>15, <3>2, Zenon
  <2>3. Level(Binary("in", of, l, r), InPlace(a, b, 6) \o (IF of THEN <<<<"not">>>> ELSE <<>>)
                \o <<<<"in">>>> \o InPlace(c, d, 6), 5)
    BY <1>13, <2>1, TwoReads, Zenon
  <2>4. Binds(e[i]) = 5
    BY <1>6, <1>16, BindsIs, Zenon
  <2>5. Level(PartAt(e, sz, i), f[i], Binds(e[i]))
    BY <1>11, <1>12, <1>14, <1>16, <2>2, <2>3, <2>4, Zenon
  <2> QED
    BY <1>5, <2>5, Zenon DEF ReadsAt
<1>17. CASE kind \in Comparisons
  <2>1. of = {}
    <3>1. kind \in BinOps
      BY <1>17 DEF BinOps
    <3> QED
      BY <1>1, <1>6, <3>1, Zenon
  <2>2. Tokens(e, i, texts) = InPlace(a, b, 5) \o <<<<kind>>>> \o InPlace(c, d, 5)
    <3>1. e[i][1] = kind
      BY <1>6, Zenon
    <3>2. Tokens(e, i, texts)
            = PartText(e, i, texts, 1, 5) \o <<<<kind>>>> \o PartText(e, i, texts, 2, 5)
      BY <1>17, <3>1, TokensOfTwo, Zenon
    <3> QED
      BY <1>15, <3>2, Zenon
  <2>3. Level(Binary(kind, {}, l, r), InPlace(a, b, 5) \o <<<<kind>>>> \o InPlace(c, d, 5), 4)
    BY <1>13, <1>17, TwoReads, Zenon
  <2>4. Binds(e[i]) = 4
    BY <1>6, <1>17, BindsIs, Zenon
  <2>5. Level(PartAt(e, sz, i), f[i], Binds(e[i]))
    BY <1>11, <1>12, <1>14, <2>1, <2>2, <2>3, <2>4, Zenon
  <2> QED
    BY <1>5, <2>5, Zenon DEF ReadsAt
<1>18. CASE kind = "and"
  <2>1. of = {}
    <3>1. kind \in BinOps
      BY <1>18 DEF BinOps
    <3> QED
      BY <1>1, <1>6, <3>1, Zenon
  <2>2. Tokens(e, i, texts) = Between(InPlace(a, b, 2), "and", InPlace(c, d, 3))
    <3>1. e[i][1] = "and"
      BY <1>6, <1>18, Zenon
    <3>2. Tokens(e, i, texts)
            = Between(PartText(e, i, texts, 1, 2), "and", PartText(e, i, texts, 2, 3))
      BY <3>1, TokensOfTwo, Zenon
    <3> QED
      BY <1>15, <3>2, Zenon
  <2>3. Level(Binary("and", {}, l, r), Between(InPlace(a, b, 2), "and", InPlace(c, d, 3)), 2)
    BY <1>13, TwoReads, Zenon
  <2>4. Binds(e[i]) = 2
    BY <1>6, <1>18, BindsIs, Zenon
  <2>5. Level(PartAt(e, sz, i), f[i], Binds(e[i]))
    BY <1>11, <1>12, <1>14, <1>18, <2>1, <2>2, <2>3, <2>4, Zenon
  <2> QED
    BY <1>5, <2>5, Zenon DEF ReadsAt
<1>19. CASE kind = "or"
  <2>1. of = {}
    <3>1. kind \in BinOps
      BY <1>19 DEF BinOps
    <3> QED
      BY <1>1, <1>6, <3>1, Zenon
  <2>2. Tokens(e, i, texts) = Between(InPlace(a, b, 1), "or", InPlace(c, d, 2))
    <3>1. e[i][1] = "or"
      BY <1>6, <1>19, Zenon
    <3>2. Tokens(e, i, texts)
            = Between(PartText(e, i, texts, 1, 1), "or", PartText(e, i, texts, 2, 2))
      BY <3>1, TokensOfTwo, Zenon
    <3> QED
      BY <1>15, <3>2, Zenon
  <2>3. Level(Binary("or", {}, l, r), Between(InPlace(a, b, 1), "or", InPlace(c, d, 2)), 1)
    BY <1>13, TwoReads, Zenon
  <2>4. Binds(e[i]) = 1
    BY <1>6, <1>19, BindsIs, Zenon
  <2>5. Level(PartAt(e, sz, i), f[i], Binds(e[i]))
    BY <1>11, <1>12, <1>14, <1>19, <2>1, <2>2, <2>3, <2>4, Zenon
  <2> QED
    BY <1>5, <2>5, Zenon DEF ReadsAt
<1>20. CASE kind = "call"
  <2>1. of \in Idents
    BY <1>8, Zenon DEF Idents
  <2>2. Tokens(e, i, texts) = Both(<<<<"ident", of>>>>, Parens(Listed(<<",">>, texts)))
    <3>1. e[i][1] = "call"
      BY <1>6, <1>20, Zenon
    <3>2. Tokens(e, i, texts) = Both(<<<<"ident", e[i][2]>>>>, Parens(Listed(<<",">>, texts)))
      BY <3>1, TokensOf, Zenon
    <3> QED
      BY <1>6, <3>2, Zenon
  <2>3. Level(Binary("call", of, l, r), Both(<<<<"ident", of>>>>, Parens(Listed(<<",">>, texts))), 6)
    BY <1>13, <1>14, <2>1, TwoReads, Zenon
  <2>4. Binds(e[i]) = 6
    BY <1>6, <1>20, BindsIs, Zenon
  <2>5. Level(PartAt(e, sz, i), f[i], Binds(e[i]))
    BY <1>11, <1>12, <1>14, <1>20, <2>2, <2>3, <2>4, Zenon
  <2> QED
    BY <1>5, <2>5, Zenon DEF ReadsAt
<1> QED
  BY <1>7, <1>16, <1>17, <1>18, <1>19, <1>20, Zenon

\* Every expression an author can write is read back.
LEMMA ExpressionRead ==
    ASSUME NEW e, NEW sz, Tree(e, sz)
    PROVE  Disjunction(e, Written(e))
<1>1. PICK f : /\ Written(e) = f[Len(e)]
               /\ \A i \in 1..Len(e) : f[i] = Tokens(e, i, AtParts(e, i, f))
  BY WrittenIs
<1>2. /\ e \in Seq(Nodes) /\ Len(e) \in Nat /\ Len(e) > 0 /\ sz[Len(e)] = Len(e)
      /\ \A i \in 1..Len(e) : WellPlaced(e, i, sz)
  BY DEF Tree
<1> DEFINE P == {n \in Nat : \A i \in 1..Len(e) : i <= n => ReadsAt(e, sz, f, i)}
<1>3. 0 \in P
  OBVIOUS
<1>4. ASSUME NEW n \in P PROVE n + 1 \in P
  <2>1. ASSUME NEW i \in 1..Len(e), i <= n + 1 PROVE ReadsAt(e, sz, f, i)
    <3>1. n \in Nat /\ i \in Nat
      OBVIOUS
    <3>2. \A j \in 1..Len(e) : j <= n => ReadsAt(e, sz, f, j)
      OBVIOUS
    <3> HIDE DEF P
    <3>3. WellPlaced(e, i, sz) /\ f[i] = Tokens(e, i, AtParts(e, i, f))
      BY <1>1, <1>2, Zenon
    <3>4. CASE e[i] \in Leaves /\ sz[i] = 1
      BY <3>3, <3>4, LeafAt, Zenon
    <3>5. CASE OneUnder(e, i, sz)
      <4>1. i - 1 \in 1..Len(e) /\ i - 1 <= n
        BY <1>2, <2>1, <3>1, <3>5 DEF OneUnder
      <4>2. ReadsAt(e, sz, f, i - 1)
        BY <3>2, <4>1, Zenon
      <4> QED
        BY <3>3, <3>5, <4>2, OneAt, Zenon
    <3>6. CASE TwoUnder(e, i, sz)
      <4>1. PICK k : k = e[i][3][1]
        BY Zenon
      <4>2. k \in Nat /\ k > 1 /\ k < i
        BY <3>6, <4>1 DEF TwoUnder
      <4>3. i - 1 \in 1..Len(e) /\ i - 1 <= n /\ i - k \in 1..Len(e) /\ i - k <= n
        BY <1>2, <2>1, <3>1, <4>2
      <4>4. ReadsAt(e, sz, f, i - 1) /\ ReadsAt(e, sz, f, i - e[i][3][1])
        BY <3>2, <4>1, <4>3, Zenon
      <4> QED
        BY <3>3, <3>6, <4>4, TwoAt, Zenon
    <3> QED
      BY <3>3, <3>4, <3>5, <3>6, Zenon DEF WellPlaced
  <2>2. n + 1 \in Nat
    OBVIOUS
  <2> QED
    BY <2>1, <2>2, Zenon
<1>5. P = Nat
  <2>1. P \in SUBSET Nat
    OBVIOUS
  <2> HIDE DEF P
  <2> QED
    BY <1>3, <1>4, <2>1, NatInd
<1>6. ReadsAt(e, sz, f, Len(e))
  <2>1. Len(e) \in 1..Len(e) /\ Len(e) <= Len(e) /\ Len(e) \in P
    BY <1>2, <1>5
  <2> QED
    BY <2>1, Zenon
<1>7. PartAt(e, sz, Len(e)) = e
  <2>1. SubSeq(e, 1, Len(e)) = e
    BY <1>2
  <2>2. (Len(e) - Len(e)) + 1 = 1
    BY <1>2
  <2> QED
    BY <1>2, <2>1, <2>2, Zenon DEF PartAt
<1>8. Level(e, Written(e), Binds(e[Len(e)])) /\ Binds(e[Len(e)]) \in 1..6
  BY <1>1, <1>6, <1>7, BindsIs, Zenon DEF ReadsAt
<1> QED
  BY <1>8, ReadsAsExpr, Zenon

-----------------------------------------------------------------------------
(* A program, policy by policy.                                              *)

\* parse_expr on the text of an expression, whatever stands before it.
LEMMA ExprRead ==
    ASSUME NEW e, NEW sz, Tree(e, sz), NEW t \in Seq(Tok), NEW j, Stands(t, j, Written(e)),
           Peek(t, j + Len(Written(e))) \notin OrGoes
    PROVE  /\ ParseExpr(t, j) = <<e, j + Len(Written(e))>>
           /\ j + Len(Written(e)) \in Nat /\ j + Len(Written(e)) # 0
<1>1. PICK s : s = Written(e)
  BY Zenon
<1>2. Disjunction(e, s)
  BY <1>1, ExpressionRead, Zenon
<1>3. Text(s)
  BY <1>2, Zenon DEF Disjunction
<1>4. Len(t) \in Nat
  OBVIOUS
<1>5. /\ j \in Nat /\ j > 0 /\ Len(s) \in Nat /\ Len(s) > 0
      /\ j + Len(s) \in Nat /\ j + Len(s) > 0 /\ j + Len(s) <= Len(t) + 1
  BY <1>1, <1>3, <1>4, StandFirst
<1>6. PICK n : n = OpenCalls(t)
  BY Zenon
<1>7. n \in Nat /\ n >= 6 * Len(s) + 6 /\ n <= OpenCalls(t)
  BY <1>4, <1>5, <1>6 DEF OpenCalls
<1>8. Placed(t, j, s, OrGoes, 6, n)
  BY <1>1, <1>7, Zenon DEF Placed
<1>9. Methods(t)[n]["or"][j] = <<e, j + Len(s)>>
  BY <1>2, <1>8, Zenon DEF Disjunction
<1>10. ParseExpr(t, j) = <<e, j + Len(s)>>
  BY <1>6, <1>9, Zenon DEF ParseExpr
<1>11. j + Len(s) # 0
  BY <1>5
<1> QED
  BY <1>1, <1>5, <1>10, <1>11, Zenon

\* The pieces of a policy's text.
PolicyHead(name) == <<<<"policy">>, <<"lit", <<"Str", name>>>>, <<"{">>, <<"when">>>>
PolicyVerdict(v) == <<<<"then">>, <<v>>>>
EvidenceMark == <<<<",">>, <<"evidence">>, <<"=">>>>
EvidenceAt(t, j) == Peek(t, j) = "," /\ Peek(t, j + 1) = "evidence" /\ Peek(t, j + 2) = "="
EvidenceText(x) == IF x = <<>> THEN <<>> ELSE EvidenceMark \o Written(x[1])
ReasonMark(r) == <<<<",">>, <<"reason">>, <<"=">>, <<"lit", <<"Str", r>>>>>>
ReasonAt(t, j, r) ==
    /\ Peek(t, j) = "," /\ Peek(t, j + 1) = "reason" /\ Peek(t, j + 2) = "="
    /\ Peek(t, j + 3) = "lit" /\ t[j + 3][2] = <<"Str", r>>
ReasonText(x) == IF x = <<>> THEN <<>> ELSE ReasonMark(x[1])
PolicyText(p) ==
    PolicyHead(p.name) \o Written(p.when) \o PolicyVerdict(p.verdict) \o EvidenceText(p.evidence)
        \o ReasonText(p.reason) \o <<<<"}">>>>

\* The policies an author writes.
IsPolicy(p) ==
    /\ p = [name |-> p.name, when |-> p.when, verdict |-> p.verdict, reason |-> p.reason,
            evidence |-> p.evidence]
    /\ p.name \in Seq(Nat) /\ p.verdict \in {"block", "review"}
    /\ \E sz : Tree(p.when, sz)
    /\ p.reason = <<>> \/ \E r \in Seq(Nat) : p.reason = <<r>>
    /\ p.evidence = <<>> \/ \E e, sz : Tree(e, sz) /\ p.evidence = <<e>>

\* The tokens of each piece.
LEMMA HeadIs ==
    ASSUME NEW name \in Seq(Nat)
    PROVE  /\ PolicyHead(name) \in Seq(Tok) /\ Len(PolicyHead(name)) = 4
           /\ \A t, j : Stands(t, j, PolicyHead(name)) /\ Len(t) \in Nat =>
                 /\ Peek(t, j) = "policy" /\ Peek(t, j + 1) = "lit" /\ Peek(t, j + 2) = "{"
                 /\ Peek(t, j + 3) = "when"
                 /\ t[j + 1][2] = <<"Str", name>>
<1>1. PICK a, b, c, d : /\ a = <<"policy">> /\ b = <<"lit", <<"Str", name>>>>
                        /\ c = <<"{">> /\ d = <<"when">>
  OBVIOUS
<1>2. a \in Tok /\ c \in Tok /\ d \in Tok
  BY <1>1 DEF Tok, Words
<1>3. b \in Tok
  <2>1. PICK v : v = <<"Str", name>>
    BY Zenon
  <2>2. v \in Lits
    BY <2>1 DEF Lits
  <2> QED
    BY <1>1, <2>1, <2>2 DEF Tok
<1>4. PICK h : h = <<a, b, c, d>>
  OBVIOUS
<1>5. h \in Seq(Tok) /\ Len(h) = 4 /\ h[1] = a /\ h[2] = b /\ h[3] = c /\ h[4] = d
  BY <1>2, <1>3, <1>4
<1>6. PolicyHead(name) = h
  BY <1>1, <1>4, Zenon DEF PolicyHead
<1>7. ASSUME NEW t, NEW j, Stands(t, j, h), Len(t) \in Nat
      PROVE  /\ Peek(t, j) = "policy" /\ Peek(t, j + 1) = "lit" /\ Peek(t, j + 2) = "{"
             /\ Peek(t, j + 3) = "when"
             /\ t[j + 1][2] = <<"Str", name>>
  <2>1. /\ j \in Nat /\ j > 0 /\ j + 4 <= Len(t) + 1
        /\ t[(j + 1) - 1] = a /\ t[(j + 2) - 1] = b /\ t[(j + 3) - 1] = c /\ t[(j + 4) - 1] = d
    <3>1. 1 \in 1..Len(h) /\ 2 \in 1..Len(h) /\ 3 \in 1..Len(h) /\ 4 \in 1..Len(h)
      BY <1>5
    <3> QED
      BY <1>5, <1>7, <3>1 DEF Stands
  <2>2. t[j] = a /\ t[j + 1] = b /\ t[j + 2] = c /\ t[j + 3] = d
    BY <2>1
  <2>3. a[1] = "policy" /\ b[1] = "lit" /\ c[1] = "{" /\ d[1] = "when" /\ b[2] = <<"Str", name>>
    BY <1>1
  <2>4. j <= Len(t) /\ j + 1 <= Len(t) /\ j + 2 <= Len(t) /\ j + 3 <= Len(t)
    BY <1>7, <2>1
  <2> QED
    BY <2>2, <2>3, <2>4, Zenon DEF Peek
<1> QED
  BY <1>5, <1>6, <1>7, Zenon

\* ... of the verdict,
LEMMA VerdictIs ==
    ASSUME NEW v \in {"block", "review"}
    PROVE  /\ PolicyVerdict(v) \in Seq(Tok) /\ Len(PolicyVerdict(v)) = 2
           /\ \A t, j : Stands(t, j, PolicyVerdict(v)) /\ Len(t) \in Nat =>
                 Peek(t, j) = "then" /\ Peek(t, j + 1) = v
<1>1. PICK a, b : a = <<"then">> /\ b = <<v>>
  OBVIOUS
<1>2. a \in Tok /\ b \in Tok
  BY <1>1 DEF Tok, Words
<1>3. PICK h : h = <<a, b>>
  OBVIOUS
<1>4. h \in Seq(Tok) /\ Len(h) = 2 /\ h[1] = a /\ h[2] = b
  BY <1>2, <1>3
<1>5. PolicyVerdict(v) = h
  BY <1>1, <1>3, Zenon DEF PolicyVerdict
<1>6. ASSUME NEW t, NEW j, Stands(t, j, h), Len(t) \in Nat
      PROVE  Peek(t, j) = "then" /\ Peek(t, j + 1) = v
  <2>1. /\ j \in Nat /\ j > 0 /\ j + 2 <= Len(t) + 1
        /\ t[(j + 1) - 1] = a /\ t[(j + 2) - 1] = b
    <3>1. 1 \in 1..Len(h) /\ 2 \in 1..Len(h)
      BY <1>4
    <3> QED
      BY <1>4, <1>6, <3>1 DEF Stands
  <2>2. t[j] = a /\ t[j + 1] = b /\ j <= Len(t) /\ j + 1 <= Len(t)
    BY <1>6, <2>1
  <2>3. a[1] = "then" /\ b[1] = v
    BY <1>1
  <2> QED
    BY <2>2, <2>3, Zenon DEF Peek
<1> QED
  BY <1>4, <1>5, <1>6, Zenon

\* ... of what introduces the evidence,
LEMMA EvidenceMarkIs ==
    /\ EvidenceMark \in Seq(Tok) /\ Len(EvidenceMark) = 3
    /\ \A t, j : Stands(t, j, EvidenceMark) /\ Len(t) \in Nat => EvidenceAt(t, j)
<1>1. PICK a, b, c : a = <<",">> /\ b = <<"evidence">> /\ c = <<"=">>
  OBVIOUS
<1>2. a \in Tok /\ b \in Tok /\ c \in Tok
  BY <1>1 DEF Tok, Words
<1>3. PICK h : h = <<a, b, c>>
  OBVIOUS
<1>4. h \in Seq(Tok) /\ Len(h) = 3 /\ h[1] = a /\ h[2] = b /\ h[3] = c
  BY <1>2, <1>3
<1>5. EvidenceMark = h
  BY <1>1, <1>3, Zenon DEF EvidenceMark
<1>6. ASSUME NEW t, NEW j, Stands(t, j, h), Len(t) \in Nat
      PROVE  EvidenceAt(t, j)
  <2>1. /\ j \in Nat /\ j > 0 /\ j + 3 <= Len(t) + 1
        /\ t[(j + 1) - 1] = a /\ t[(j + 2) - 1] = b /\ t[(j + 3) - 1] = c
    <3>1. 1 \in 1..Len(h) /\ 2 \in 1..Len(h) /\ 3 \in 1..Len(h)
      BY <1>4
    <3> QED
      BY <1>4, <1>6, <3>1 DEF Stands
  <2>2. /\ t[j] = a /\ t[j + 1] = b /\ t[j + 2] = c
        /\ j <= Len(t) /\ j + 1 <= Len(t) /\ j + 2 <= Len(t)
    BY <1>6, <2>1
  <2>3. a[1] = "," /\ b[1] = "evidence" /\ c[1] = "="
    BY <1>1
  <2> QED
    BY <2>2, <2>3, Zenon DEF Peek, EvidenceAt
<1> QED
  BY <1>4, <1>5, <1>6, Zenon

\* ... and of the reason.
LEMMA ReasonMarkIs ==
    ASSUME NEW r \in Seq(Nat)
    PROVE  /\ ReasonMark(r) \in Seq(Tok) /\ Len(ReasonMark(r)) = 4
           /\ \A t, j : Stands(t, j, ReasonMark(r)) /\ Len(t) \in Nat => ReasonAt(t, j, r)
<1>1. PICK a, b, c, d : /\ a = <<",">> /\ b = <<"reason">> /\ c = <<"=">>
                        /\ d = <<"lit", <<"Str", r>>>>
  OBVIOUS
<1>2. a \in Tok /\ b \in Tok /\ c \in Tok
  BY <1>1 DEF Tok, Words
<1>3. d \in Tok
  <2>1. PICK v : v = <<"Str", r>>
    BY Zenon
  <2>2. v \in Lits
    BY <2>1 DEF Lits
  <2> QED
    BY <1>1, <2>1, <2>2 DEF Tok
<1>4. PICK h : h = <<a, b, c, d>>
  OBVIOUS
<1>5. h \in Seq(Tok) /\ Len(h) = 4 /\ h[1] = a /\ h[2] = b /\ h[3] = c /\ h[4] = d
  BY <1>2, <1>3, <1>4
<1>6. ReasonMark(r) = h
  BY <1>1, <1>4, Zenon DEF ReasonMark
<1>7. ASSUME NEW t, NEW j, Stands(t, j, h), Len(t) \in Nat
      PROVE  ReasonAt(t, j, r)
  <2>1. /\ j \in Nat /\ j > 0 /\ j + 4 <= Len(t) + 1
        /\ t[(j + 1) - 1] = a /\ t[(j + 2) - 1] = b /\ t[(j + 3) - 1] = c /\ t[(j + 4) - 1] = d
    <3>1. 1 \in 1..Len(h) /\ 2 \in 1..Len(h) /\ 3 \in 1..Len(h) /\ 4 \in 1..Len(h)
      BY <1>5
    <3> QED
      BY <1>5, <1>7, <3>1 DEF Stands
  <2>2. /\ t[j] = a /\ t[j + 1] = b /\ t[j + 2] = c /\ t[j + 3] = d
        /\ j <= Len(t) /\ j + 1 <= Len(t) /\ j + 2 <= Len(t) /\ j + 3 <= Len(t)
    BY <1>7, <2>1
  <2>3. a[1] = "," /\ b[1] = "reason" /\ c[1] = "=" /\ d[1] = "lit" /\ d[2] = <<"Str", r>>
    BY <1>1
  <2> QED
    BY <2>2, <2>3, Zenon DEF Peek, ReasonAt
<1> QED
  BY <1>5, <1>6, <1>7, Zenon

-----------------------------------------------------------------------------
(* A policy, piece by piece.                                               *)

\* Two texts, and where each stands.
LEMMA JoinStands ==
    ASSUME NEW a \in Seq(Tok), NEW b \in Seq(Tok), NEW t, Len(t) \in Nat
    PROVE  /\ a \o b \in Seq(Tok) /\ Len(a \o b) = Len(a) + Len(b)
           /\ \A j : Stands(t, j, a \o b) => Stands(t, j, a) /\ Stands(t, j + Len(a), b)
<1>1. a \o b \in Seq(Tok) /\ Len(a \o b) = Len(a) + Len(b)
  BY ConcatFacts
<1>2. ASSUME NEW j, Stands(t, j, a \o b) PROVE Stands(t, j, a) /\ Stands(t, j + Len(a), b)
  BY <1>2, StandBoth, Zenon
<1> QED
  BY <1>1, <1>2, Zenon

\* Six texts, one after the other.
Six(a, b, c, d, e, f) == a \o b \o c \o d \o e \o f
SixTexts(a, b, c, d, e, f) ==
    /\ a \in Seq(Tok) /\ b \in Seq(Tok) /\ c \in Seq(Tok) /\ d \in Seq(Tok) /\ e \in Seq(Tok)
    /\ f \in Seq(Tok)

\* Where each of them stands in the whole.
LEMMA SixStand ==
    ASSUME NEW a, NEW b, NEW c, NEW d, NEW e, NEW f, SixTexts(a, b, c, d, e, f)
    PROVE  /\ Six(a, b, c, d, e, f) \in Seq(Tok)
           /\ Len(Six(a, b, c, d, e, f))
                = ((((Len(a) + Len(b)) + Len(c)) + Len(d)) + Len(e)) + Len(f)
           /\ \A t, j : Len(t) \in Nat /\ Stands(t, j, Six(a, b, c, d, e, f)) =>
                 /\ Stands(t, j, a) /\ Stands(t, j + Len(a), b)
                 /\ Stands(t, j + (Len(a) + Len(b)), c)
                 /\ Stands(t, j + ((Len(a) + Len(b)) + Len(c)), d)
                 /\ Stands(t, j + (((Len(a) + Len(b)) + Len(c)) + Len(d)), e)
                 /\ Stands(t, j + ((((Len(a) + Len(b)) + Len(c)) + Len(d)) + Len(e)), f)
<1>0. /\ a \in Seq(Tok) /\ b \in Seq(Tok) /\ c \in Seq(Tok) /\ d \in Seq(Tok) /\ e \in Seq(Tok)
      /\ f \in Seq(Tok)
  BY Zenon DEF SixTexts
<1>1. PICK u : u = a \o b
  BY Zenon
<1>2. PICK v : v = u \o c
  BY Zenon
<1>3. PICK w : w = v \o d
  BY Zenon
<1>4. PICK x : x = w \o e
  BY Zenon
<1>5. PICK y : y = x \o f
  BY Zenon
<1>6. Six(a, b, c, d, e, f) = y
  BY <1>1, <1>2, <1>3, <1>4, <1>5, Zenon DEF Six
<1>7. Len(<<>>) \in Nat
  OBVIOUS
<1>a. u \in Seq(Tok) /\ Len(u) = Len(a) + Len(b)
  BY <1>1, <1>7, <1>0, JoinStands, Zenon
<1>b. v \in Seq(Tok) /\ Len(v) = Len(u) + Len(c)
  BY <1>2, <1>7, <1>0, <1>a, JoinStands, Zenon
<1>c. w \in Seq(Tok) /\ Len(w) = Len(v) + Len(d)
  BY <1>3, <1>7, <1>0, <1>b, JoinStands, Zenon
<1>d. x \in Seq(Tok) /\ Len(x) = Len(w) + Len(e)
  BY <1>4, <1>7, <1>0, <1>c, JoinStands, Zenon
<1>e. y \in Seq(Tok) /\ Len(y) = Len(x) + Len(f)
  BY <1>5, <1>7, <1>0, <1>d, JoinStands, Zenon
<1>8. ASSUME NEW t, NEW j, Len(t) \in Nat, Stands(t, j, y)
      PROVE  /\ Stands(t, j, a) /\ Stands(t, j + Len(a), b) /\ Stands(t, j + Len(u), c)
             /\ Stands(t, j + Len(v), d) /\ Stands(t, j + Len(w), e) /\ Stands(t, j + Len(x), f)
  <2>1. Stands(t, j, x) /\ Stands(t, j + Len(x), f)
    BY <1>5, <1>8, <1>0, <1>d, JoinStands, Zenon
  <2>2. Stands(t, j, w) /\ Stands(t, j + Len(w), e)
    BY <1>4, <1>8, <1>0, <1>c, <2>1, JoinStands, Zenon
  <2>3. Stands(t, j, v) /\ Stands(t, j + Len(v), d)
    BY <1>3, <1>8, <1>0, <1>b, <2>2, JoinStands, Zenon
  <2>4. Stands(t, j, u) /\ Stands(t, j + Len(u), c)
    BY <1>2, <1>8, <1>0, <1>a, <2>3, JoinStands, Zenon
  <2>5. Stands(t, j, a) /\ Stands(t, j + Len(a), b)
    BY <1>1, <1>8, <1>0, <2>4, JoinStands, Zenon
  <2> QED
    BY <2>1, <2>2, <2>3, <2>4, <2>5
<1> QED
  BY <1>6, <1>8, <1>a, <1>b, <1>c, <1>d, <1>e, Zenon

\* The tokens of the attributes.
LEMMA EvidenceTextIs ==
    ASSUME NEW e, NEW sz, Tree(e, sz)
    PROVE  /\ EvidenceText(<<e>>) = Both(EvidenceMark, Written(e))
           /\ EvidenceText(<<e>>) \in Seq(Tok)
           /\ Len(EvidenceText(<<e>>)) = 3 + Len(Written(e))
<1>1. Disjunction(e, Written(e))
  BY ExpressionRead, Zenon
<1>2. Written(e) \in Seq(Tok)
  BY <1>1, Zenon DEF Disjunction, Text
<1>3. <<e>> # <<>> /\ <<e>>[1] = e
  OBVIOUS
<1>4. EvidenceText(<<e>>) = EvidenceMark \o Written(e)
  BY <1>3, Zenon DEF EvidenceText
<1>5. PICK m, w : m = EvidenceMark /\ w = Written(e)
  BY Zenon
<1>6. m \in Seq(Tok) /\ w \in Seq(Tok) /\ Len(m) = 3
  BY <1>2, <1>5, EvidenceMarkIs, Zenon
<1>7. m \o w \in Seq(Tok) /\ Len(m \o w) = Len(m) + Len(w)
  <2>1. m \in Seq(Tok) /\ w \in Seq(Tok)
    BY <1>6
  <2> QED
    BY <2>1, ConcatFacts
<1> QED
  BY <1>4, <1>5, <1>6, <1>7, Zenon DEF Both

\* A reason is one piece.
LEMMA ReasonTextIs ==
    ASSUME NEW r
    PROVE  ReasonText(<<r>>) = ReasonMark(r)
<1>1. <<r>> # <<>> /\ <<r>>[1] = r
  OBVIOUS
<1> QED
  BY <1>1, Zenon DEF ReasonText

\* What is left out has no text.
LEMMA NothingText ==
    /\ EvidenceText(<<>>) = <<>> /\ ReasonText(<<>>) = <<>>
    /\ <<>> \in Seq(Tok) /\ Len(<<>>) = 0
<1>1. EvidenceText(<<>>) = <<>> /\ ReasonText(<<>>) = <<>>
  BY Zenon DEF EvidenceText, ReasonText
<1> QED
  BY <1>1

\* The lists a policy holds.
IsReason(x) == x = <<>> \/ \E r \in Seq(Nat) : x = <<r>>
IsEvidence(x) == x = <<>> \/ \E e, sz : Tree(e, sz) /\ x = <<e>>
Long(t) == t \in Seq(Tok) /\ Len(t) >= 2

\* A pair.
LEMMA TwoOf ==
    ASSUME NEW a, NEW b
    PROVE  <<a, b>>[1] = a /\ <<a, b>>[2] = b
  OBVIOUS

\* What the loops need of the tokens of a policy.
LEMMA LongIs ==
    ASSUME NEW t, Long(t)
    PROVE  /\ t \in Seq(Tok) /\ Len(t) \in Nat
           /\ \A k \in 0..1 : k \in Nat /\ k + 1 <= Len(t) /\ k + 1 \in 0..Len(t) /\ k \in 0..Len(t)
           /\ 0 \in 0..1 /\ 0 + 1 \in 0..1
  BY DEF Long

\* A position is a number, and not the one an error has.
LEMMA StandsAt ==
    ASSUME NEW t, NEW j, NEW s, Stands(t, j, s)
    PROVE  j \in Nat /\ j # 0 /\ j + 0 = j
  BY DEF Stands

\* The position after some evidence.
LEMMA Past ==
    ASSUME NEW i \in Nat, NEW w \in Nat
    PROVE  i + (3 + w) = (i + 3) + w /\ i + (3 + w) # 0
  OBVIOUS

\* The length of a sequence.
LEMMA LenIsNat ==
    ASSUME NEW S, NEW s \in Seq(S)
    PROVE  Len(s) \in Nat
  OBVIOUS

\* A turn of the loop over the attributes.
AttrTurns(t, r, q) == Attribute(t, r) = q

\* A turn over `, reason = ...`.
LEMMA ReasonTurn ==
    ASSUME NEW t, NEW y, NEW j, j # 0, NEW x, ReasonAt(t, j, x)
    PROVE  AttrTurns(t, <<<<<<>>, y>>, j>>, <<<<<<x>>, y>>, j + 4>>)
<1>1. PICK q : q = <<<<<<>>, y>>, j>>
  BY Zenon
<1>2. q[2] = j /\ q[1][2] = y
  BY <1>1, TwoOf, Zenon
<1>3. PICK v : v = <<"Str", x>>
  BY Zenon
<1>4. v[1] = "Str" /\ v[2] = x
  BY <1>3
<1>5. ~Over(t, ",", q)
  BY <1>2, Zenon DEF Over, Failed, ReasonAt
<1>6. Attribute(t, q) = <<<<<<t[j + 3][2][2]>>, y>>, j + 4>>
  BY <1>2, <1>3, <1>4, <1>5, Zenon DEF Attribute, ReasonAt
<1>7. t[j + 3][2][2] = x
  BY <1>3, <1>4, Zenon DEF ReasonAt
<1> QED
  BY <1>1, <1>6, <1>7, Zenon DEF AttrTurns

\* A turn over `, evidence = ...`.
LEMMA EvidenceTurn ==
    ASSUME NEW t, NEW i, i # 0, EvidenceAt(t, i), NEW e, NEW n, n # 0, ParseExpr(t, i + 3) = <<e, n>>
    PROVE  AttrTurns(t, <<<<<<>>, <<>>>>, i>>, <<<<<<>>, <<e>>>>, n>>)
<1>1. PICK r : r = <<<<<<>>, <<>>>>, i>>
  BY Zenon
<1>2. r[2] = i /\ r[1][1] = <<>>
  BY <1>1, TwoOf, Zenon
<1>3. PICK v : v = ParseExpr(t, i + 3)
  BY Zenon
<1>4. v[1] = e /\ v[2] = n
  <2>1. v = <<e, n>>
    BY <1>3, Zenon
  <2> QED
    BY <2>1, TwoOf
<1>5. ~Over(t, ",", r)
  BY <1>2, Zenon DEF Over, Failed, EvidenceAt
<1>6. Peek(t, i + 1) # "reason"
  BY DEF EvidenceAt
<1>7. Attribute(t, r) = <<<<r[1][1], <<v[1]>>>>, v[2]>>
  BY <1>2, <1>3, <1>4, <1>5, <1>6, Zenon DEF Attribute, Failed, EvidenceAt, Evident
<1> QED
  BY <1>1, <1>2, <1>4, <1>7, Zenon DEF AttrTurns

\* What follows an attribute is none of an expression.
LEMMA Follows ==
    "," \notin OrGoes /\ "}" \notin OrGoes /\ "then" \notin OrGoes
  BY DEF OrGoes, AndGoes, CompareGoes, MembershipGoes, PrimaryGoes, Comparisons

\* The evidence an author writes, if any, is what the loop has after it.
LEMMA EvidenceRead ==
    ASSUME NEW x, IsEvidence(x), NEW t, Long(t), NEW i, Stands(t, i, EvidenceText(x)),
           Peek(t, i + Len(EvidenceText(x))) \notin OrGoes
    PROVE  \E k \in 0..1 : AttrsAt(t, i, k, <<<<<<>>, x>>, i + Len(EvidenceText(x))>>)
<1>1. Len(t) \in Nat /\ t \in Seq(Tok) /\ 0 \in 0..1 /\ 0 + 1 \in 0..1 /\ 0 \in Nat /\ 0 + 1 <= Len(t)
  BY LongIs, Zenon
<1>a. i \in Nat /\ i # 0 /\ i + 0 = i
  BY StandsAt, Zenon
<1>b. AttrsAt(t, i, 0, <<<<<<>>, <<>>>>, i>>)
  BY <1>1, AttrsTurns, Zenon
<1>2. CASE x = <<>>
  <2>2. EvidenceText(x) = <<>> /\ Len(EvidenceText(x)) = 0
    BY <1>2, NothingText, Zenon
  <2>4. i + Len(EvidenceText(x)) = i
    BY <1>a, <2>2, Zenon
  <2> QED
    BY <1>1, <1>2, <1>b, <2>4, Zenon
<1>3. CASE \E e, sz : Tree(e, sz) /\ x = <<e>>
  <2>1. PICK e, sz : Tree(e, sz) /\ x = <<e>>
    BY <1>3, Zenon
  <2>2. PICK w : w = Written(e)
    BY Zenon
  <2>3. EvidenceText(x) = Both(EvidenceMark, w) /\ Len(EvidenceText(x)) = 3 + Len(w)
    BY <2>1, <2>2, EvidenceTextIs, Zenon
  <2>4. Disjunction(e, w)
    BY <2>1, <2>2, ExpressionRead, Zenon
  <2>5. w \in Seq(Tok)
    BY <2>4, Zenon DEF Disjunction, Text
  <2>6. Len(w) \in Nat
    BY <2>5, LenIsNat, Zenon
  <2>8. Stands(t, i, EvidenceMark) /\ Stands(t, i + 3, w)
    <3>1. Stands(t, i, Both(EvidenceMark, w))
      BY <2>3, Zenon
    <3>2. EvidenceMark \in Seq(Tok) /\ Len(EvidenceMark) = 3
      BY EvidenceMarkIs, Zenon
    <3>3. Stands(t, i, EvidenceMark) /\ Stands(t, i + Len(EvidenceMark), w)
      BY <1>1, <2>5, <3>1, <3>2, StandJoin, Zenon
    <3> QED
      BY <3>2, <3>3, Zenon
  <2>9. PICK end : end = i + Len(EvidenceText(x))
    BY Zenon
  <2>10. end = (i + 3) + Len(w) /\ end # 0
    <3>1. end = i + (3 + Len(w))
      BY <2>3, <2>9, Zenon
    <3> QED
      BY <1>a, <2>6, <3>1, Past, Zenon
  <2>11. Peek(t, (i + 3) + Len(w)) \notin OrGoes
    BY <2>9, <2>10, Zenon
  <2>12. ParseExpr(t, i + 3) = <<e, end>>
    BY <1>1, <2>1, <2>2, <2>8, <2>10, <2>11, ExprRead, Zenon
  <2>13. EvidenceAt(t, i)
    BY <1>1, <2>8, EvidenceMarkIs, Zenon
  <2>14. Attribute(t, <<<<<<>>, <<>>>>, i>>) = <<<<<<>>, <<e>>>>, end>>
    <3>1. AttrTurns(t, <<<<<<>>, <<>>>>, i>>, <<<<<<>>, <<e>>>>, end>>)
      BY <1>a, <2>10, <2>12, <2>13, EvidenceTurn, Zenon
    <3> QED
      BY <3>1, Zenon DEF AttrTurns
  <2>17. AttrsAt(t, i, 0 + 1, <<<<<<>>, <<e>>>>, end>>)
    BY <1>1, <1>b, <2>14, AttrsTurns, Zenon
  <2> QED
    BY <1>1, <2>1, <2>9, <2>17, Zenon
<1> QED
  BY <1>2, <1>3, Zenon DEF IsEvidence

\* And so is the reason.
AttrsYield(t, i, q) == ParseAttrs(t, i) = q

\* The loop ends with the reason an author writes, if any, and the evidence.
LEMMA ReasonRead ==
    ASSUME NEW x, IsReason(x), NEW y, NEW t, Long(t), NEW i, NEW j, Stands(t, j, ReasonText(x)),
           NEW k \in 0..1, AttrsAt(t, i, k, <<<<<<>>, y>>, j>>),
           Peek(t, j + Len(ReasonText(x))) = "}"
    PROVE  AttrsYield(t, i, <<<<x, y>>, j + Len(ReasonText(x))>>)
<1>1. /\ Len(t) \in Nat /\ t \in Seq(Tok) /\ k \in Nat /\ k + 1 <= Len(t)
      /\ k + 1 \in 0..Len(t) /\ k \in 0..Len(t)
  BY LongIs, Zenon
<1>2. PICK end : end = j + Len(ReasonText(x))
  BY Zenon
<1>3. AttrsOver(t, <<<<x, y>>, end>>)
  <2>1. PICK r : r = <<<<x, y>>, end>>
    BY Zenon
  <2>2. r[2] = end
    BY <2>1, TwoOf, Zenon
  <2>a. PICK w : w = Peek(t, r[2])
    BY Zenon
  <2>b. w = "}"
    BY <1>2, <2>2, <2>a, Zenon
  <2>3. Peek(t, r[2]) # ","
    BY <2>a, <2>b
  <2> QED
    BY <2>1, <2>3, Zenon DEF AttrsOver, Over
<1>4. j \in Nat /\ j # 0 /\ j + 0 = j
  BY StandsAt, Zenon
<1>5. CASE x = <<>>
  <2>1. ReasonText(x) = <<>> /\ Len(ReasonText(x)) = 0
    BY <1>5, NothingText, Zenon
  <2>2. end = j
    BY <1>2, <1>4, <2>1, Zenon
  <2>3. AttrsAt(t, i, k, <<<<x, y>>, end>>)
    BY <1>5, <2>2, Zenon
  <2> QED
    BY <1>1, <1>2, <1>3, <2>3, AttrsEnds, Zenon DEF AttrsYield
<1>6. CASE \E r \in Seq(Nat) : x = <<r>>
  <2>1. PICK r \in Seq(Nat) : x = <<r>>
    BY <1>6, Zenon
  <2>2. ReasonText(x) = ReasonMark(r)
    BY <2>1, ReasonTextIs, Zenon
  <2>3. Len(ReasonText(x)) = 4 /\ Stands(t, j, ReasonMark(r))
    BY <2>2, ReasonMarkIs, Zenon
  <2>4. ReasonAt(t, j, r)
    BY <1>1, <2>3, ReasonMarkIs, Zenon
  <2>6. end = j + 4
    BY <1>2, <2>3, Zenon
  <2>5. AttrTurns(t, <<<<<<>>, y>>, j>>, <<<<<<r>>, y>>, j + 4>>)
    BY <1>4, <2>4, ReasonTurn, Zenon
  <2>7. Attribute(t, <<<<<<>>, y>>, j>>) = <<<<x, y>>, end>>
    BY <2>1, <2>5, <2>6, Zenon DEF AttrTurns
  <2>8. AttrsAt(t, i, k + 1, <<<<x, y>>, end>>)
    BY <1>1, <2>7, AttrsTurns, Zenon
  <2> QED
    BY <1>1, <1>2, <1>3, <2>8, AttrsEnds, Zenon DEF AttrsYield
<1> QED
  BY <1>5, <1>6, Zenon DEF IsReason

\* After the evidence comes the reason or the end.
LEMMA ReasonStarts ==
    ASSUME NEW x, IsReason(x), NEW t, Len(t) \in Nat, NEW j, Stands(t, j, ReasonText(x)),
           Peek(t, j + Len(ReasonText(x))) = "}"
    PROVE  Peek(t, j) \notin OrGoes
<1>1. j \in Nat /\ j # 0 /\ j + 0 = j
  BY StandsAt, Zenon
<1>2. CASE x = <<>>
  <2>1. Len(ReasonText(x)) = 0
    BY <1>2, NothingText, Zenon
  <2>2. Peek(t, j) = "}"
    BY <1>1, <2>1, Zenon
  <2> QED
    BY <2>2, Follows, Zenon
<1>3. CASE \E r \in Seq(Nat) : x = <<r>>
  <2>1. PICK r \in Seq(Nat) : x = <<r>>
    BY <1>3, Zenon
  <2>2. ReasonText(x) = ReasonMark(r)
    BY <2>1, ReasonTextIs, Zenon
  <2>3. ReasonAt(t, j, r)
    BY <2>2, ReasonMarkIs, Zenon
  <2>4. Peek(t, j) = ","
    BY <2>3, Zenon DEF ReasonAt
  <2> QED
    BY <2>4, Follows, Zenon
<1> QED
  BY <1>2, <1>3, Zenon DEF IsReason

\* The pieces of a policy's text are texts.
LEMMA PiecesAre ==
    ASSUME NEW p, IsPolicy(p)
    PROVE  /\ PolicyHead(p.name) \in Seq(Tok) /\ Len(PolicyHead(p.name)) = 4
           /\ Written(p.when) \in Seq(Tok) /\ Len(Written(p.when)) \in Nat
           /\ PolicyVerdict(p.verdict) \in Seq(Tok) /\ Len(PolicyVerdict(p.verdict)) = 2
           /\ EvidenceText(p.evidence) \in Seq(Tok) /\ Len(EvidenceText(p.evidence)) \in Nat
           /\ ReasonText(p.reason) \in Seq(Tok) /\ Len(ReasonText(p.reason)) \in Nat
           /\ <<<<"}">>>> \in Seq(Tok) /\ Len(<<<<"}">>>>) = 1
           /\ p.name \in Seq(Nat) /\ p.verdict \in {"block", "review"}
           /\ IsReason(p.reason) /\ IsEvidence(p.evidence)
<1>1. /\ p.name \in Seq(Nat) /\ p.verdict \in {"block", "review"}
      /\ IsReason(p.reason) /\ IsEvidence(p.evidence) /\ \E sz : Tree(p.when, sz)
  BY Zenon DEF IsPolicy, IsReason, IsEvidence
<1>2. PolicyHead(p.name) \in Seq(Tok) /\ Len(PolicyHead(p.name)) = 4
  BY <1>1, HeadIs, Zenon
<1>3. Written(p.when) \in Seq(Tok)
  <2>1. Disjunction(p.when, Written(p.when))
    BY <1>1, ExpressionRead, Zenon
  <2> QED
    BY <2>1, Zenon DEF Disjunction, Text
<1>4. PolicyVerdict(p.verdict) \in Seq(Tok) /\ Len(PolicyVerdict(p.verdict)) = 2
  BY <1>1, VerdictIs, Zenon
<1>5. EvidenceText(p.evidence) \in Seq(Tok)
  <2>1. CASE p.evidence = <<>>
    BY <2>1, NothingText, Zenon
  <2>2. CASE \E e, sz : Tree(e, sz) /\ p.evidence = <<e>>
    BY <2>2, EvidenceTextIs, Zenon
  <2> QED
    BY <1>1, <2>1, <2>2, Zenon DEF IsEvidence
<1>6. ReasonText(p.reason) \in Seq(Tok)
  <2>1. CASE p.reason = <<>>
    BY <2>1, NothingText, Zenon
  <2>2. CASE \E r \in Seq(Nat) : p.reason = <<r>>
    BY <2>2, ReasonTextIs, ReasonMarkIs, Zenon
  <2> QED
    BY <1>1, <2>1, <2>2, Zenon DEF IsReason
<1>7. /\ Len(Written(p.when)) \in Nat /\ Len(EvidenceText(p.evidence)) \in Nat
      /\ Len(ReasonText(p.reason)) \in Nat
  BY <1>3, <1>5, <1>6, LenIsNat, Zenon
<1>8. <<<<"}">>>> \in Seq(Tok) /\ Len(<<<<"}">>>>) = 1
  BY Tokens1 DEF Words
<1> QED
  BY <1>1, <1>2, <1>3, <1>4, <1>5, <1>6, <1>7, <1>8, Zenon

\* A policy is written in six pieces.
LEMMA TextIsSix ==
    ASSUME NEW p
    PROVE  PolicyText(p) = Six(PolicyHead(p.name), Written(p.when), PolicyVerdict(p.verdict),
                               EvidenceText(p.evidence), ReasonText(p.reason), <<<<"}">>>>)
  BY Zenon DEF PolicyText, Six

\* The positions of the pieces, for a `when` of w tokens, evidence of e and a
\* reason of r.
LEMMA Positions ==
    ASSUME NEW j \in Nat, NEW w \in Nat, NEW e \in Nat, NEW r \in Nat
    PROVE  /\ j + (4 + w) = (j + 4) + w /\ (j + 4) + w # 0
           /\ j + ((4 + w) + 2) = ((j + 4) + w) + 2
           /\ j + (((4 + w) + 2) + e) = (((j + 4) + w) + 2) + e
           /\ j + ((((4 + w) + 2) + e) + r) = ((((j + 4) + w) + 2) + e) + r
           /\ ((((j + 4) + w) + 2) + e) + r # 0
           /\ j + (((((4 + w) + 2) + e) + r) + 1) = (((((j + 4) + w) + 2) + e) + r) + 1
           /\ ((((4 + w) + 2) + e) + r) + 1 \in Nat /\ ((((4 + w) + 2) + e) + r) + 1 >= 2
  OBVIOUS

\* The pieces of p stand one after the other, from j on.
PolicyLies(p, t, j) ==
    \E j2, j3, j4, j5 :
        /\ Stands(t, j, PolicyHead(p.name)) /\ Stands(t, j + 4, Written(p.when))
        /\ j2 = (j + 4) + Len(Written(p.when)) /\ j2 # 0
        /\ Stands(t, j2, PolicyVerdict(p.verdict))
        /\ j3 = j2 + 2 /\ Stands(t, j3, EvidenceText(p.evidence))
        /\ j4 = j3 + Len(EvidenceText(p.evidence))
        /\ Stands(t, j4, ReasonText(p.reason))
        /\ j5 = j4 + Len(ReasonText(p.reason)) /\ j5 # 0
        /\ Stands(t, j5, <<<<"}">>>>)
        /\ j + Len(PolicyText(p)) = j5 + 1

\* Where each piece of a policy stands.
LEMMA PolicyStands ==
    ASSUME NEW p, IsPolicy(p)
    PROVE  /\ PolicyText(p) \in Seq(Tok) /\ Len(PolicyText(p)) \in Nat /\ Len(PolicyText(p)) >= 2
           /\ \A t, j : Len(t) \in Nat /\ Stands(t, j, PolicyText(p)) => PolicyLies(p, t, j)
<1>1. PICK a, b, c, d, e, f :
        /\ a = PolicyHead(p.name) /\ b = Written(p.when) /\ c = PolicyVerdict(p.verdict)
        /\ d = EvidenceText(p.evidence) /\ e = ReasonText(p.reason) /\ f = <<<<"}">>>>
  BY Zenon
<1>2. /\ a \in Seq(Tok) /\ Len(a) = 4 /\ b \in Seq(Tok) /\ Len(b) \in Nat
      /\ c \in Seq(Tok) /\ Len(c) = 2 /\ d \in Seq(Tok) /\ Len(d) \in Nat
      /\ e \in Seq(Tok) /\ Len(e) \in Nat /\ f \in Seq(Tok) /\ Len(f) = 1
  BY <1>1, PiecesAre, Zenon
<1>3. PICK x : x = PolicyText(p)
  BY Zenon
<1>4. x = Six(a, b, c, d, e, f)
  BY <1>1, <1>3, TextIsSix, Zenon
<1>5. PICK n : n = ((((4 + Len(b)) + 2) + Len(d)) + Len(e)) + 1
  BY Zenon
<1>6. n \in Nat /\ n >= 2
  <2>1. 0 \in Nat
    OBVIOUS
  <2> QED
    BY <1>2, <1>5, <2>1, Positions, Zenon
<1>7. x \in Seq(Tok) /\ Len(x) = n
  <2>1. /\ Six(a, b, c, d, e, f) \in Seq(Tok)
        /\ Len(Six(a, b, c, d, e, f))
             = ((((Len(a) + Len(b)) + Len(c)) + Len(d)) + Len(e)) + Len(f)
    <3>1. SixTexts(a, b, c, d, e, f)
      BY <1>2, Zenon DEF SixTexts
    <3> QED
      BY <3>1, SixStand, SMT
  <2>2. Len(Six(a, b, c, d, e, f)) = ((((4 + Len(b)) + 2) + Len(d)) + Len(e)) + 1
    BY <1>2, <2>1, Zenon
  <2> QED
    BY <1>4, <1>5, <2>1, <2>2, Zenon
<1>8. ASSUME NEW t, NEW j, Len(t) \in Nat, Stands(t, j, x)
      PROVE  \E j2, j3, j4, j5 :
                  /\ Stands(t, j, a) /\ Stands(t, j + 4, b)
                  /\ j2 = (j + 4) + Len(b) /\ j2 # 0
                  /\ Stands(t, j2, c)
                  /\ j3 = j2 + 2 /\ Stands(t, j3, d)
                  /\ j4 = j3 + Len(d)
                  /\ Stands(t, j4, e)
                  /\ j5 = j4 + Len(e) /\ j5 # 0
                  /\ Stands(t, j5, f)
                  /\ j + n = j5 + 1
  <2>1. j \in Nat
    BY <1>8, StandsAt, Zenon
  <2>2. /\ Stands(t, j, a) /\ Stands(t, j + Len(a), b)
        /\ Stands(t, j + (Len(a) + Len(b)), c)
        /\ Stands(t, j + ((Len(a) + Len(b)) + Len(c)), d)
        /\ Stands(t, j + (((Len(a) + Len(b)) + Len(c)) + Len(d)), e)
        /\ Stands(t, j + ((((Len(a) + Len(b)) + Len(c)) + Len(d)) + Len(e)), f)
    <3>1. SixTexts(a, b, c, d, e, f)
      BY <1>2, Zenon DEF SixTexts
    <3>3. Stands(t, j, Six(a, b, c, d, e, f))
      BY <1>4, <1>8, Zenon
    <3> QED
      BY <1>8, <3>1, <3>3, SixStand, SMT
  <2>3. /\ Stands(t, j, a) /\ Stands(t, j + 4, b)
        /\ Stands(t, j + (4 + Len(b)), c)
        /\ Stands(t, j + ((4 + Len(b)) + 2), d)
        /\ Stands(t, j + (((4 + Len(b)) + 2) + Len(d)), e)
        /\ Stands(t, j + ((((4 + Len(b)) + 2) + Len(d)) + Len(e)), f)
    BY <1>2, <2>2, Zenon
  <2>4. PICK j2, j3, j4, j5 : j2 = (j + 4) + Len(b) /\ j3 = j2 + 2 /\ j4 = j3 + Len(d)
                              /\ j5 = j4 + Len(e)
    BY Zenon
  <2>5. /\ j + (4 + Len(b)) = j2 /\ j2 # 0 /\ j + ((4 + Len(b)) + 2) = j3
        /\ j + (((4 + Len(b)) + 2) + Len(d)) = j4
        /\ j + ((((4 + Len(b)) + 2) + Len(d)) + Len(e)) = j5 /\ j5 # 0 /\ j + n = j5 + 1
    <3>1. PICK w, y, z : w = Len(b) /\ y = Len(d) /\ z = Len(e)
      BY Zenon
    <3>2. w \in Nat /\ y \in Nat /\ z \in Nat
      BY <1>2, <3>1, Zenon
    <3>3. /\ j2 = (j + 4) + w /\ j3 = j2 + 2 /\ j4 = j3 + y /\ j5 = j4 + z
          /\ n = ((((4 + w) + 2) + y) + z) + 1
      BY <1>5, <2>4, <3>1, Zenon
    <3>4. /\ j + (4 + w) = j2 /\ j2 # 0 /\ j + ((4 + w) + 2) = j3
          /\ j + (((4 + w) + 2) + y) = j4
          /\ j + ((((4 + w) + 2) + y) + z) = j5 /\ j5 # 0 /\ j + n = j5 + 1
      BY <2>1, <3>2, <3>3
    <3> QED
      BY <3>1, <3>4, Zenon
  <2> QED
    BY <2>3, <2>4, <2>5, Zenon
<1>9. ASSUME NEW t, NEW j, Len(t) \in Nat /\ Stands(t, j, PolicyText(p))
      PROVE  PolicyLies(p, t, j)
  <2>1. Len(t) \in Nat /\ Stands(t, j, x)
    BY <1>3, <1>9, Zenon
  <2>2. PICK j2, j3, j4, j5 :
                  /\ Stands(t, j, a) /\ Stands(t, j + 4, b)
                  /\ j2 = (j + 4) + Len(b) /\ j2 # 0
                  /\ Stands(t, j2, c)
                  /\ j3 = j2 + 2 /\ Stands(t, j3, d)
                  /\ j4 = j3 + Len(d)
                  /\ Stands(t, j4, e)
                  /\ j5 = j4 + Len(e) /\ j5 # 0
                  /\ Stands(t, j5, f)
                  /\ j + n = j5 + 1
    BY <1>8, <2>1, Zenon
  <2>3. j + Len(PolicyText(p)) = j5 + 1
    BY <1>3, <1>7, <2>2, Zenon
  <2> QED
    BY <1>1, <2>2, <2>3, Zenon DEF PolicyLies
<1>10. PolicyText(p) \in Seq(Tok) /\ Len(PolicyText(p)) \in Nat /\ Len(PolicyText(p)) >= 2
  BY <1>3, <1>6, <1>7, Zenon
<1> QED
  BY <1>9, <1>10, Zenon

\* From `policy` to the `when`.
LEMMA HeadReads ==
    ASSUME NEW t, NEW j, NEW name \in Seq(Nat), Len(t) \in Nat, Stands(t, j, PolicyHead(name)),
           NEW n, PolicyAction(t, name, ParseExpr(t, j + 4)) = n
    PROVE  ParsePolicy(t, j) = n
<1>1. /\ Peek(t, j) = "policy" /\ Peek(t, j + 1) = "lit" /\ Peek(t, j + 2) = "{"
      /\ Peek(t, j + 3) = "when" /\ t[j + 1][2] = <<"Str", name>>
  BY HeadIs, Zenon
<1>2. PICK v : v = <<"Str", name>>
  BY Zenon
<1>3. v[1] = "Str" /\ v[2] = name
  BY <1>2
<1>4. t[j + 1][2] = v
  BY <1>1, <1>2, Zenon
<1>5. <<Peek(t, j), Peek(t, j + 1), Peek(t, j + 2), Peek(t, j + 3)>>
         = <<"policy", "lit", "{", "when">>
  BY <1>1, Zenon
<1>6. ParsePolicy(t, j) = PolicyAction(t, t[j + 1][2][2], ParseExpr(t, j + 4))
  BY <1>3, <1>4, <1>5, Zenon DEF ParsePolicy
<1> QED
  BY <1>3, <1>4, <1>6, Zenon

ActionYields(t, name, u, q) == PolicyAction(t, name, u) = q

\* From `then` to the end.
LEMMA ActionReads ==
    ASSUME NEW t, NEW name, NEW w, NEW i, NEW v \in {"block", "review"}, i # 0, Len(t) \in Nat,
           Stands(t, i, PolicyVerdict(v)), NEW r, NEW e, NEW k, k # 0, Peek(t, k) = "}",
           ParseAttrs(t, i + 2) = <<<<r, e>>, k>>
    PROVE  ActionYields(t, name, <<w, i>>,
               <<[name |-> name, when |-> w, verdict |-> v, reason |-> r, evidence |-> e], k + 1>>)
<1>1. Peek(t, i) = "then" /\ Peek(t, i + 1) = v
  BY VerdictIs, Zenon
<1>2. PICK u : u = <<w, i>>
  BY Zenon
<1>3. u[1] = w /\ u[2] = i
  BY <1>2, TwoOf, Zenon
<1>4. PICK q : q = <<<<r, e>>, k>>
  BY Zenon
<1>5. q[2] = k /\ q[1][1] = r /\ q[1][2] = e
  <2>1. q[1] = <<r, e>> /\ q[2] = k
    BY <1>4, TwoOf, Zenon
  <2>2. PICK z : z = <<r, e>>
    BY Zenon
  <2>3. z[1] = r /\ z[2] = e
    BY <2>2, TwoOf, Zenon
  <2> QED
    BY <2>1, <2>2, <2>3, Zenon
<1>6. v \in {"allow", "review", "block"}
  OBVIOUS
<1>7. PolicyAction(t, name, u) = PolicyEnd(t, name, w, v, q)
  BY <1>1, <1>3, <1>4, <1>6, Zenon DEF PolicyAction, Failed
<1>8. PolicyEnd(t, name, w, v, q)
        = <<[name |-> name, when |-> w, verdict |-> v, reason |-> r, evidence |-> e], k + 1>>
  BY <1>5, Zenon DEF PolicyEnd, Failed
<1> QED
  BY <1>2, <1>7, <1>8, Zenon DEF ActionYields

\* parse_policy on the text of a policy.
LEMMA PolicyRead ==
    ASSUME NEW p, IsPolicy(p), NEW t \in Seq(Tok), NEW j, Stands(t, j, PolicyText(p))
    PROVE  ParsePolicy(t, j) = <<p, j + Len(PolicyText(p))>>
<1>1. Len(t) \in Nat
  BY LenIsNat, Zenon
<1>2. PICK j2, j3, j4, j5 :
        /\ Stands(t, j, PolicyHead(p.name)) /\ Stands(t, j + 4, Written(p.when))
        /\ j2 = (j + 4) + Len(Written(p.when)) /\ j2 # 0
        /\ Stands(t, j2, PolicyVerdict(p.verdict))
        /\ j3 = j2 + 2 /\ Stands(t, j3, EvidenceText(p.evidence))
        /\ j4 = j3 + Len(EvidenceText(p.evidence))
        /\ Stands(t, j4, ReasonText(p.reason))
        /\ j5 = j4 + Len(ReasonText(p.reason)) /\ j5 # 0
        /\ Stands(t, j5, <<<<"}">>>>)
        /\ j + Len(PolicyText(p)) = j5 + 1
  <2>1. PolicyLies(p, t, j)
    BY <1>1, PolicyStands, Zenon
  <2> QED
    BY <2>1, Zenon DEF PolicyLies
<1>3. /\ p.name \in Seq(Nat) /\ p.verdict \in {"block", "review"}
      /\ IsReason(p.reason) /\ IsEvidence(p.evidence)
  BY PiecesAre, Zenon
<1>4. PICK sz : Tree(p.when, sz)
  BY Zenon DEF IsPolicy
<1>5. Long(t)
  <2>1. PICK n : n = Len(PolicyText(p))
    BY Zenon
  <2>2. n \in Nat /\ n >= 2
    BY <2>1, PolicyStands, Zenon
  <2>3. j \in Nat /\ j > 0 /\ j + n <= Len(t) + 1
    BY <2>1, Zenon DEF Stands
  <2>4. Len(t) >= 2
    BY <1>1, <2>2, <2>3
  <2> QED
    BY <2>4, Zenon DEF Long
<1>6. Peek(t, j5) = "}"
  <2>1. PICK x : x = <<"}">>
    BY Zenon
  <2>2. Stands(t, j5, <<x>>) /\ x[1] = "}"
    BY <1>2, <2>1
  <2> QED
    BY <1>1, <2>2, StandOne, Zenon
<1>7. Peek(t, j4) \notin OrGoes
  BY <1>1, <1>2, <1>3, <1>6, ReasonStarts, Zenon
<1>8. ParseExpr(t, j + 4) = <<p.when, j2>>
  <2>1. Peek(t, j2) = "then"
    BY <1>1, <1>2, <1>3, VerdictIs, ZenonT(40)
  <2>2. Peek(t, (j + 4) + Len(Written(p.when))) \notin OrGoes
    BY <1>2, <2>1, Follows, Zenon
  <2> QED
    BY <1>2, <1>4, <2>2, ExprRead, Zenon
<1>9. PICK k \in 0..1 : AttrsAt(t, j3, k, <<<<<<>>, p.evidence>>, j4>>)
  BY <1>2, <1>3, <1>5, <1>7, EvidenceRead, Zenon
<1>10. ParseAttrs(t, j3) = <<<<p.reason, p.evidence>>, j5>>
  <2>1. Peek(t, j4 + Len(ReasonText(p.reason))) = "}"
    BY <1>2, <1>6, Zenon
  <2>2. AttrsYield(t, j3, <<<<p.reason, p.evidence>>, j4 + Len(ReasonText(p.reason))>>)
    BY <1>2, <1>3, <1>5, <1>9, <2>1, ReasonRead, Zenon
  <2> QED
    BY <1>2, <2>2, Zenon DEF AttrsYield
<1>11. PICK o : o = [name |-> p.name, when |-> p.when, verdict |-> p.verdict,
                     reason |-> p.reason, evidence |-> p.evidence]
  BY Zenon
<1>12. o = p
  BY <1>11, Zenon DEF IsPolicy
<1>13. PolicyAction(t, p.name, <<p.when, j2>>) = <<o, j5 + 1>>
  <2>1. ParseAttrs(t, j2 + 2) = <<<<p.reason, p.evidence>>, j5>>
    BY <1>2, <1>10, Zenon
  <2>2. PICK name, w, v, r, e : /\ name = p.name /\ w = p.when /\ v = p.verdict
                                /\ r = p.reason /\ e = p.evidence
    BY Zenon
  <2>3. ActionYields(t, name, <<w, j2>>,
          <<[name |-> name, when |-> w, verdict |-> v, reason |-> r, evidence |-> e], j5 + 1>>)
    <3>1. /\ v \in {"block", "review"} /\ j2 # 0 /\ Stands(t, j2, PolicyVerdict(v)) /\ j5 # 0
          /\ ParseAttrs(t, j2 + 2) = <<<<r, e>>, j5>>
      BY <1>2, <1>3, <2>1, <2>2, Zenon
    <3> QED
      BY <1>1, <1>6, <3>1, ActionReads, Zenon
  <2> QED
    BY <1>11, <2>2, <2>3, Zenon DEF ActionYields
<1>14. ParsePolicy(t, j) = <<o, j5 + 1>>
  BY <1>1, <1>2, <1>3, <1>8, <1>13, HeadReads, Zenon
<1> QED
  BY <1>2, <1>12, <1>14, Zenon

-----------------------------------------------------------------------------
(* A program, text after text.                                             *)

\* A text stands in itself.
LEMMA WholeStands ==
    ASSUME NEW t \in Seq(Tok)
    PROVE  Stands(t, 1, t)
<1>1. Len(t) \in Nat
  OBVIOUS
<1>2. \A k \in 1..Len(t) : (1 + k) - 1 = k
  BY <1>1
<1>3. \A k \in 1..Len(t) : t[(1 + k) - 1] = t[k]
  BY <1>2, Zenon
<1>4. 1 \in Nat /\ 1 > 0 /\ 1 + Len(t) <= Len(t) + 1
  BY <1>1
<1> QED
  BY <1>3, <1>4, Zenon DEF Stands

\* f is what there is of the texts s up to each;
IsPrefixes(f, s) ==
    f[1] = s[1] /\ \A i \in 1..Len(s) : i # 1 => f[i] = f[i-1] \o s[i]

\* ... they are texts,
LEMMA PrefixText ==
    ASSUME NEW s, NEW n \in Nat, Len(s) = n, \A k \in 1..n : s[k] \in Seq(Tok),
           NEW f, IsPrefixes(f, s)
    PROVE  \A k \in 1..n : f[k] \in Seq(Tok)
<1> DEFINE P == {k \in Nat : k + 1 <= n => f[k + 1] \in Seq(Tok)}
<1>1. 0 \in P
  <2>1. ASSUME 0 + 1 <= n PROVE f[0 + 1] \in Seq(Tok)
    <3>1. 1 \in 1..n /\ 0 + 1 = 1
      BY <2>1
    <3>2. f[1] \in Seq(Tok)
      BY <3>1, Zenon DEF IsPrefixes
    <3> QED
      BY <3>1, <3>2, Zenon
  <2> QED
    BY <2>1
<1>2. ASSUME NEW k \in Nat, k \in P PROVE k + 1 \in P
  <2>1. ASSUME (k + 1) + 1 <= n PROVE f[(k + 1) + 1] \in Seq(Tok)
    <3>1. PICK i : i = (k + 1) + 1
      BY Zenon
    <3>2. i \in 1..n /\ i # 1 /\ i - 1 = k + 1 /\ k + 1 <= n
      BY <2>1, <3>1
    <3>3. f[k + 1] \in Seq(Tok)
      BY <1>2, <3>2
    <3>4. f[i] = f[i-1] \o s[i] /\ s[i] \in Seq(Tok)
      BY <3>2, Zenon DEF IsPrefixes
    <3>5. PICK a, b : a = f[i-1] /\ b = s[i]
      BY Zenon
    <3>6. a \in Seq(Tok) /\ b \in Seq(Tok)
      BY <3>2, <3>3, <3>4, <3>5, Zenon
    <3>7. a \o b \in Seq(Tok)
      BY <3>6, ConcatFacts
    <3> QED
      BY <3>1, <3>4, <3>5, <3>7, Zenon
  <2> QED
    BY <2>1
<1>3. \A k \in Nat : k \in P
  <2>1. P \in SUBSET Nat /\ \A i \in P : i \in Nat
    OBVIOUS
  <2> HIDE DEF P
  <2>2. \A i \in P : i + 1 \in P
    BY <1>2, <2>1, Zenon
  <2>3. P = Nat
    BY <1>1, <2>1, <2>2, NatInd
  <2> QED
    BY <2>3
<1>4. ASSUME NEW k \in 1..n PROVE f[k] \in Seq(Tok)
  <2>1. PICK m : m = k - 1
    BY Zenon
  <2>2. m \in Nat /\ m + 1 = k /\ m + 1 <= n
    BY <2>1
  <2>3. m \in P
    BY <1>3, <2>2
  <2> QED
    BY <2>2, <2>3
<1> QED
  BY <1>4

\* ... and stand at the head of the last of them.
LEMMA PrefixStands ==
    ASSUME NEW s, NEW n \in Nat, n > 0, Len(s) = n, \A k \in 1..n : s[k] \in Seq(Tok),
           NEW f, IsPrefixes(f, s)
    PROVE  \A k \in 1..n : Stands(f[n], 1, f[k])
<1> DEFINE P == {m \in Nat : m < n => Stands(f[n], 1, f[n - m])}
<1>0. /\ \A k \in 1..n : f[k] \in Seq(Tok)
      /\ f[n] \in Seq(Tok) /\ Len(f[n]) \in Nat
  <2>1. \A k \in 1..n : f[k] \in Seq(Tok)
    BY PrefixText, Zenon
  <2>2. n \in 1..n
    OBVIOUS
  <2>3. f[n] \in Seq(Tok)
    BY <2>1, <2>2, Zenon
  <2> QED
    BY <2>1, <2>3, LenIsNat, Zenon
<1>1. 0 \in P
  <2>1. n - 0 = n
    OBVIOUS
  <2>2. Stands(f[n], 1, f[n])
    BY <1>0, WholeStands, Zenon
  <2> QED
    BY <2>1, <2>2
<1>2. ASSUME NEW m \in Nat, m \in P PROVE m + 1 \in P
  <2>1. ASSUME m + 1 < n PROVE Stands(f[n], 1, f[n - (m + 1)])
    <3>1. PICK i : i = n - m
      BY Zenon
    <3>2. i \in 1..n /\ i # 1 /\ i - 1 \in 1..n /\ n - (m + 1) = i - 1 /\ m < n
      BY <2>1, <3>1
    <3>3. Stands(f[n], 1, f[i])
      BY <1>2, <3>1, <3>2
    <3>4. f[i] = f[i-1] \o s[i] /\ s[i] \in Seq(Tok) /\ f[i-1] \in Seq(Tok)
      BY <1>0, <3>2, Zenon DEF IsPrefixes
    <3>5. Stands(f[n], 1, f[i-1] \o s[i])
      BY <3>3, <3>4, Zenon
    <3>6. Stands(f[n], 1, f[i-1])
      BY <1>0, <3>4, <3>5, StandBoth, Zenon
    <3> QED
      BY <3>2, <3>6, Zenon
  <2> QED
    BY <2>1
<1>3. \A m \in Nat : m \in P
  <2>1. P \in SUBSET Nat /\ \A i \in P : i \in Nat
    OBVIOUS
  <2> HIDE DEF P
  <2>2. \A i \in P : i + 1 \in P
    BY <1>2, <2>1, Zenon
  <2>3. P = Nat
    BY <1>1, <2>1, <2>2, NatInd
  <2> QED
    BY <2>3
<1>4. ASSUME NEW k \in 1..n PROVE Stands(f[n], 1, f[k])
  <2>1. PICK m : m = n - k
    BY Zenon
  <2>2. m \in Nat /\ n - m = k /\ m < n
    BY <2>1
  <2>3. m \in P
    BY <1>3, <2>2
  <2> QED
    BY <2>2, <2>3
<1> QED
  BY <1>4

\* Where each text of s stands in all of them.
Offsets(off, s, t) ==
    /\ off[0] = 0 /\ off[Len(s)] = Len(t)
    /\ \A k \in 1..Len(s) : /\ off[k-1] \in Nat /\ off[k] = off[k-1] + Len(s[k])
                            /\ Stands(t, 1 + off[k-1], s[k])

\* Every text has its place.
LEMMA FlatStands ==
    ASSUME NEW s, NEW n \in Nat, n > 0, Len(s) = n, \A k \in 1..n : s[k] \in Seq(Tok)
    PROVE  FlattenSeq(s) \in Seq(Tok) /\ \E off : Offsets(off, s, FlattenSeq(s))
<1>1. PICK f : FlattenSeq(s) = f[n] /\ IsPrefixes(f, s)
  BY FlatIs, Zenon DEF IsPrefixes
<1>2. \A k \in 1..n : f[k] \in Seq(Tok)
  BY <1>1, PrefixText, Zenon
<1>3. \A k \in 1..n : Stands(f[n], 1, f[k])
  BY <1>1, PrefixStands, Zenon
<1>4. PICK t : t = f[n]
  BY Zenon
<1>5. n \in 1..n /\ 1 \in 1..n /\ n \in 0..n /\ 0 \in 0..n /\ n # 0
  OBVIOUS
<1>6. t \in Seq(Tok) /\ Len(t) \in Nat
  <2>1. t \in Seq(Tok)
    BY <1>2, <1>4, <1>5, Zenon
  <2> QED
    BY <2>1, LenIsNat, Zenon
<1>7. PICK off : off = [k \in 0..n |-> IF k = 0 THEN 0 ELSE Len(f[k])]
  BY Zenon
<1>8. off[0] = 0 /\ \A k \in 1..n : off[k] = Len(f[k])
  <2>1. off[0] = 0
    BY <1>5, <1>7
  <2>2. ASSUME NEW k \in 1..n PROVE off[k] = Len(f[k])
    <3>1. k \in 0..n /\ k # 0
      OBVIOUS
    <3> QED
      BY <1>7, <3>1, Zenon
  <2> QED
    BY <2>1, <2>2
<1>9. ASSUME NEW k \in 1..n
      PROVE  /\ off[k-1] \in Nat /\ off[k] = off[k-1] + Len(s[k])
             /\ Stands(t, 1 + off[k-1], s[k])
  <2>1. CASE k = 1
    <3>1. k - 1 = 0 /\ 1 + 0 = 1 /\ 0 \in Nat
      BY <2>1
    <3>2. off[k] = Len(s[k]) /\ Stands(t, 1, s[k]) /\ s[k] \in Seq(Tok)
      BY <1>1, <1>3, <1>4, <1>5, <1>8, <2>1, Zenon DEF IsPrefixes
    <3>3. Len(s[k]) \in Nat
      BY <3>2, LenIsNat, Zenon
    <3>4. 0 + Len(s[k]) = Len(s[k])
      BY <3>3
    <3> QED
      BY <1>8, <3>1, <3>2, <3>4, Zenon
  <2>2. CASE k # 1
    <3>1. k - 1 \in 1..n
      BY <2>2
    <3>2. f[k] = f[k-1] \o s[k]
      BY <1>1, <2>2, Zenon DEF IsPrefixes
    <3>3. f[k-1] \in Seq(Tok) /\ s[k] \in Seq(Tok) /\ Stands(t, 1, f[k-1] \o s[k])
      BY <1>2, <1>3, <1>4, <3>1, <3>2, Zenon
    <3>4. Stands(t, 1 + Len(f[k-1]), s[k])
      BY <1>6, <3>3, StandBoth, Zenon
    <3>7. Len(f[k-1] \o s[k]) = Len(f[k-1]) + Len(s[k])
      <4>1. PICK a, b : a = f[k-1] /\ b = s[k]
        BY Zenon
      <4>2. a \in Seq(Tok) /\ b \in Seq(Tok)
        BY <3>3, <4>1, Zenon
      <4>3. Len(a \o b) = Len(a) + Len(b)
        BY <4>2, ConcatFacts
      <4> QED
        BY <4>1, <4>3, Zenon
    <3>5. Len(f[k-1]) \in Nat
      BY <3>3, LenIsNat, Zenon
    <3>6. off[k-1] = Len(f[k-1]) /\ off[k] = Len(f[k])
      BY <1>8, <3>1, Zenon
    <3> QED
      BY <3>2, <3>4, <3>5, <3>6, <3>7, Zenon
  <2> QED
    BY <2>1, <2>2
<1>10. off[n] = Len(t)
  BY <1>4, <1>5, <1>8, Zenon
<1> QED
  BY <1>1, <1>4, <1>6, <1>8, <1>9, <1>10, Zenon DEF Offsets

-----------------------------------------------------------------------------
(* A program, read whole.                                                  *)

\* The texts of a program, one of each policy.
TextsOf(pr) == [k \in 1..Len(pr) |-> PolicyText(pr[k])]

\* The text of a program is that of its policies.
LEMMA SourceIs ==
    ASSUME NEW pr
    PROVE  Source(pr) = FlattenSeq(TextsOf(pr))
  BY Zenon DEF Source, TextsOf, PolicyText, PolicyHead, PolicyVerdict, EvidenceText, EvidenceMark,
     ReasonText, ReasonMark

\* A turn of the loop over the policies.
PolicyYields(t, r, q) == NextPolicy(t, r) = q

\* A turn that reads a policy.
LEMMA PolicyTurn ==
    ASSUME NEW t, NEW s, NEW i \in Nat, i # 0, Len(t) \in Nat, i <= Len(t), NEW p, NEW m, m # 0,
           ParsePolicy(t, i) = <<p, m>>
    PROVE  PolicyYields(t, <<s, i>>, <<Append(s, p), m>>)
<1>1. PICK r : r = <<s, i>>
  BY Zenon
<1>2. r[1] = s /\ r[2] = i
  BY <1>1, TwoOf, Zenon
<1>3. PICK v : v = <<p, m>>
  BY Zenon
<1>4. v[1] = p /\ v[2] = m
  BY <1>3, TwoOf, Zenon
<1>5. ~(i > Len(t))
  OBVIOUS
<1>6. ~AtEnd(t, r)
  BY <1>2, <1>5, Zenon DEF AtEnd, Failed
<1>7. PICK c : c = Append(s, p)
  BY Zenon
<1>8. NextPolicy(t, r) = <<c, m>>
  BY <1>2, <1>3, <1>4, <1>6, <1>7, Zenon DEF NextPolicy, Failed, Grown
<1> QED
  BY <1>1, <1>7, <1>8, Zenon DEF PolicyYields

\* The loop has the first k policies after k turns.
ReadSoFar(t, pr, off, k) ==
    /\ k <= off[k] /\ off[k] \in Nat
    /\ PoliciesAt(t, k, <<SubSeq(pr, 1, k), 1 + off[k]>>)

\* One policy more.
LEMMA ReadNext ==
    ASSUME NEW S, NEW pr \in Seq(S), NEW t \in Seq(Tok), NEW off, NEW k \in Nat, k + 1 <= Len(pr),
           IsPolicy(pr[k + 1]), Stands(t, 1 + off[k], PolicyText(pr[k + 1])),
           off[k + 1] = off[k] + Len(PolicyText(pr[k + 1])), ReadSoFar(t, pr, off, k)
    PROVE  ReadSoFar(t, pr, off, k + 1)
<1>1. PICK p, x, w : p = pr[k + 1] /\ x = PolicyText(p) /\ w = Len(x)
  BY Zenon
<1>2. w \in Nat /\ w >= 2 /\ IsPolicy(p)
  BY <1>1, PolicyStands, Zenon
<1>3. PICK i, m : i = 1 + off[k] /\ m = i + w
  BY Zenon
<1>4. Len(t) \in Nat /\ off[k] \in Nat /\ k <= off[k] /\ off[k + 1] = off[k] + w
  <2>1. Len(t) \in Nat
    BY LenIsNat, Zenon
  <2> QED
    BY <1>1, <2>1, Zenon DEF ReadSoFar
<1>5. i + w <= Len(t) + 1
  <2>1. Stands(t, i, x)
    BY <1>1, <1>3, Zenon
  <2> QED
    BY <1>1, <2>1, Zenon DEF Stands
<1>6. PICK a, b : a = off[k] /\ b = off[k + 1]
  BY Zenon
<1>7. /\ i \in Nat /\ i # 0 /\ i <= Len(t) /\ m # 0 /\ m = 1 + b /\ b \in Nat /\ k + 1 <= b
      /\ k + 1 <= Len(t)
  <2>1. a \in Nat /\ k <= a /\ b = a + w /\ i = 1 + a
    BY <1>3, <1>4, <1>6, Zenon
  <2>2. PICK l : l = Len(t)
    BY Zenon
  <2>3. l \in Nat /\ i + w <= l + 1
    BY <1>4, <1>5, <2>2, Zenon
  <2>4. w \in Nat /\ w >= 2 /\ m = i + w
    BY <1>2, <1>3, Zenon
  <2>5. /\ i \in Nat /\ i # 0 /\ i <= l /\ m # 0 /\ m = 1 + b /\ b \in Nat /\ k + 1 <= b
        /\ k + 1 <= l
    BY <2>1, <2>3, <2>4
  <2> QED
    BY <2>2, <2>5, Zenon
<1>8. ParsePolicy(t, i) = <<p, m>>
  BY <1>1, <1>2, <1>3, PolicyRead, Zenon
<1>9. PolicyYields(t, <<SubSeq(pr, 1, k), i>>, <<Append(SubSeq(pr, 1, k), p), m>>)
  BY <1>4, <1>7, <1>8, PolicyTurn, Zenon
<1>10. SubSeq(pr, 1, k + 1) = Append(SubSeq(pr, 1, k), p)
  <2>1. 1 \in Nat /\ 1 >= 1 /\ 1 <= k + 1
    OBVIOUS
  <2>2. SubSeq(pr, 1, k + 1) = Append(SubSeq(pr, 1, k), pr[k + 1])
    BY <2>1, SliceOne
  <2> QED
    BY <1>1, <2>2, Zenon
<1>11. PoliciesAt(t, k, <<SubSeq(pr, 1, k), i>>)
  BY <1>3, Zenon DEF ReadSoFar
<1>12. NextPolicy(t, <<SubSeq(pr, 1, k), i>>) = <<SubSeq(pr, 1, k + 1), m>>
  BY <1>9, <1>10, Zenon DEF PolicyYields
<1>13. PoliciesAt(t, k + 1, <<SubSeq(pr, 1, k + 1), m>>)
  BY <1>4, <1>7, <1>11, <1>12, PoliciesTurns, Zenon
<1> QED
  BY <1>6, <1>7, <1>13, Zenon DEF ReadSoFar

\* What is left after the last policy.
LEMMA ParseEnds ==
    ASSUME NEW t, NEW k, NEW s, NEW i, i # 0, i > Len(t), Len(t) \in Nat, k \in 0..Len(t),
           PoliciesAt(t, k, <<s, i>>)
    PROVE  Parse(t) = <<"Program", s>>
<1>1. PICK r : r = <<s, i>>
  BY Zenon
<1>2. r[1] = s /\ r[2] = i
  BY <1>1, TwoOf, Zenon
<1>3. AtEnd(t, r)
  BY <1>2, Zenon DEF AtEnd
<1>4. ParsePolicies(t) = r
  BY <1>1, <1>3, PoliciesEnds
<1> QED
  BY <1>2, <1>4, Zenon DEF Parse, Failed, Outcome

\* parse on the text of a program.
LEMMA ProgramRead ==
    ASSUME NEW S, NEW pr \in Seq(S), Len(pr) > 0, \A k \in 1..Len(pr) : IsPolicy(pr[k])
    PROVE  Parse(Source(pr)) = <<"Program", pr>>
<1>1. PICK n : n = Len(pr)
  BY Zenon
<1>2. n \in Nat /\ n > 0
  BY <1>1
<1>3. PICK s : s = TextsOf(pr)
  BY Zenon
<1>4. Len(s) = n /\ \A k \in 1..n : s[k] = PolicyText(pr[k])
  BY <1>1, <1>2, <1>3 DEF TextsOf
<1>5. \A k \in 1..n : s[k] \in Seq(Tok)
  BY <1>1, <1>4, PolicyStands, Zenon
<1>6. PICK t : t = FlattenSeq(s)
  BY Zenon
<1>7. t \in Seq(Tok) /\ \E off : Offsets(off, s, t)
  BY <1>2, <1>4, <1>5, <1>6, FlatStands, Zenon
<1>8. PICK off : Offsets(off, s, t)
  BY <1>7, Zenon
<1>9. /\ off[0] = 0 /\ off[n] = Len(t)
      /\ \A k \in 1..n : /\ off[k-1] \in Nat /\ off[k] = off[k-1] + Len(s[k])
                         /\ Stands(t, 1 + off[k-1], s[k])
  BY <1>4, <1>8, Zenon DEF Offsets
<1>10. Len(t) \in Nat
  BY <1>7, LenIsNat, Zenon
<1> DEFINE P == {k \in Nat : k <= n => ReadSoFar(t, pr, off, k)}
<1>11. 0 \in P
  <2>1. SubSeq(pr, 1, 0) = <<>>
    OBVIOUS
  <2>2. 0 <= off[0] /\ off[0] \in Nat /\ 1 + off[0] = 1
    BY <1>9
  <2>3. PoliciesAt(t, 0, <<<<>>, 1>>)
    BY <1>10, PoliciesTurns, Zenon
  <2>4. ReadSoFar(t, pr, off, 0)
    BY <2>1, <2>2, <2>3, Zenon DEF ReadSoFar
  <2> QED
    BY <2>4
<1>12. ASSUME NEW k \in Nat, k \in P PROVE k + 1 \in P
  <2>1. ASSUME k + 1 <= n PROVE ReadSoFar(t, pr, off, k + 1)
    <3>1. k + 1 \in 1..n /\ (k + 1) - 1 = k /\ k <= n
      BY <1>2, <2>1
    <3>2. ReadSoFar(t, pr, off, k)
      BY <1>12, <3>1
    <3>3. off[k + 1] = off[k] + Len(s[k + 1]) /\ Stands(t, 1 + off[k], s[k + 1])
      BY <1>9, <3>1, Zenon
    <3>4. s[k + 1] = PolicyText(pr[k + 1]) /\ IsPolicy(pr[k + 1])
      BY <1>1, <1>4, <3>1, Zenon
    <3>5. /\ off[k + 1] = off[k] + Len(PolicyText(pr[k + 1]))
          /\ Stands(t, 1 + off[k], PolicyText(pr[k + 1])) /\ k + 1 <= Len(pr)
      BY <1>1, <2>1, <3>3, <3>4, Zenon
    <3> QED
      BY <1>7, <3>2, <3>4, <3>5, ReadNext, Zenon
  <2> QED
    BY <2>1
<1>13. ReadSoFar(t, pr, off, n)
  <2>1. P \in SUBSET Nat /\ \A i \in P : i \in Nat
    OBVIOUS
  <2>2. \A k \in Nat : k \in P
    <3> HIDE DEF P
    <3>1. \A i \in P : i + 1 \in P
      BY <1>12, <2>1, Zenon
    <3>2. P = Nat
      BY <1>11, <2>1, <3>1, NatInd
    <3> QED
      BY <3>2
  <2>3. n \in P
    BY <1>2, <2>2, Zenon
  <2> QED
    BY <1>2, <2>3
<1>14. SubSeq(pr, 1, n) = pr
  BY <1>1
<1>15. PoliciesAt(t, n, <<pr, 1 + Len(t)>>) /\ n <= Len(t)
  BY <1>9, <1>13, <1>14, Zenon DEF ReadSoFar
<1>16. n \in 0..Len(t) /\ 1 + Len(t) # 0 /\ 1 + Len(t) > Len(t)
  BY <1>2, <1>10, <1>15
<1>17. Source(pr) = t
  BY <1>3, <1>6, SourceIs, Zenon
<1>18. Parse(t) = <<"Program", pr>>
  BY <1>10, <1>15, <1>16, ParseEnds
<1> QED
  BY <1>17, <1>18, Zenon

\* ... and on no text at all.
LEMMA NothingRead ==
    Parse(Source(<<>>)) = <<"Program", <<>>>>
<1>1. PICK t : t = Source(<<>>)
  BY Zenon
<1>2. TextsOf(<<>>) = <<>>
  BY DEF TextsOf
<1>3. Len(t) = 0
  BY <1>1, <1>2, SourceIs, FlatShort, Zenon
<1>4. PoliciesAt(t, 0, <<<<>>, 1>>)
  <2>1. Len(t) \in Nat
    BY <1>3
  <2> QED
    BY <2>1, PoliciesTurns, Zenon
<1>5. Len(t) \in Nat /\ 0 \in 0..Len(t) /\ 1 # 0 /\ 1 > Len(t)
  BY <1>3
<1>6. Parse(t) = <<"Program", <<>>>>
  BY <1>4, <1>5, ParseEnds
<1> QED
  BY <1>1, <1>6, Zenon

\* A record of the fields of a policy is one.
LEMMA PolicyFields ==
    ASSUME NEW name \in Seq(Nat), NEW when, NEW sz, Tree(when, sz),
           NEW verdict \in {"block", "review"}, NEW reason, IsReason(reason),
           NEW evidence, IsEvidence(evidence)
    PROVE  IsPolicy([name |-> name, when |-> when, verdict |-> verdict, reason |-> reason,
                     evidence |-> evidence])
<1>1. PICK p : p = [name |-> name, when |-> when, verdict |-> verdict, reason |-> reason,
                    evidence |-> evidence]
  BY Zenon
<1>2. /\ p.name = name /\ p.when = when /\ p.verdict = verdict /\ p.reason = reason
      /\ p.evidence = evidence
  BY <1>1
<1>3. p = [name |-> p.name, when |-> p.when, verdict |-> p.verdict, reason |-> p.reason,
           evidence |-> p.evidence]
  BY <1>1, <1>2, Zenon
<1>4. p.name \in Seq(Nat) /\ p.verdict \in {"block", "review"} /\ \E s : Tree(p.when, s)
  BY <1>2, Zenon
<1>5. p.reason = <<>> \/ \E r \in Seq(Nat) : p.reason = <<r>>
  BY <1>2, Zenon DEF IsReason
<1>6. p.evidence = <<>> \/ \E e, s : Tree(e, s) /\ p.evidence = <<e>>
  BY <1>2, Zenon DEF IsEvidence
<1> QED
  BY <1>1, <1>3, <1>4, <1>5, <1>6, Zenon DEF IsPolicy

\* The program in hand is one of policies that an author writes.
LEMMA ProgramIs ==
    ASSUME DraftInv
    PROVE  /\ Len(Program) = Len(draft) /\ Len(draft) \in Nat
           /\ Len(draft) = 0 => Program = <<>>
           /\ \E S : Program \in Seq(S)
           /\ \A k \in 1..Len(Program) : IsPolicy(Program[k])
<1>1. draft \in Seq(Seq(Nodes)) /\ \A k \in 1..Len(draft) : \E sz : Tree(draft[k], sz)
  BY Zenon DEF DraftInv
<1>2. Len(draft) \in Nat
  BY <1>1, LenIsNat, Zenon
<1>3. ASSUME NEW k \in 1..Len(draft)
      PROVE  IsPolicy([name |-> Name(k), when |-> draft[k],
                       verdict |-> IF k = 1 THEN "block" ELSE "review",
                       reason |-> IF k = 1 THEN <<<<2>>>> ELSE <<>>,
                       evidence |-> IF k = 1 /\ Len(draft) > 1 THEN <<draft[2]>> ELSE <<>>])
  <2>1. PICK verdict : verdict = IF k = 1 THEN "block" ELSE "review"
    BY Zenon
  <2>2. PICK reason : reason = IF k = 1 THEN <<<<2>>>> ELSE <<>>
    BY Zenon
  <2>3. PICK evidence : evidence = IF k = 1 /\ Len(draft) > 1 THEN <<draft[2]>> ELSE <<>>
    BY Zenon
  <2>4. verdict \in {"block", "review"}
    BY <2>1
  <2>5. IsReason(reason)
    <3>1. <<2>> \in Seq(Nat)
      OBVIOUS
    <3>2. reason = <<>> \/ \E r \in Seq(Nat) : reason = <<r>>
      BY <2>2, <3>1, Zenon
    <3> QED
      BY <3>2, Zenon DEF IsReason
  <2>6. IsEvidence(evidence)
    <3>1. CASE k = 1 /\ Len(draft) > 1
      <4>1. 2 \in 1..Len(draft)
        BY <1>2, <3>1
      <4>2. PICK sz : Tree(draft[2], sz)
        BY <1>1, <4>1, Zenon
      <4>3. evidence = <<draft[2]>>
        BY <2>3, <3>1, Zenon
      <4> QED
        BY <4>2, <4>3, Zenon DEF IsEvidence
    <3>2. CASE ~(k = 1 /\ Len(draft) > 1)
      <4>1. evidence = <<>>
        BY <2>3, <3>2, Zenon
      <4> QED
        BY <4>1, Zenon DEF IsEvidence
    <3> QED
      BY <3>1, <3>2, Zenon
  <2>7. PICK name, when : name = Name(k) /\ when = draft[k]
    BY Zenon
  <2>8. name \in Seq(Nat)
    <3>1. k \in Nat
      BY <1>2
    <3>2. [i \in 1..k |-> 1] \in Seq(Nat)
      BY <3>1
    <3> QED
      BY <2>7, <3>2, Zenon DEF Name
  <2>9. PICK sz : Tree(when, sz)
    BY <1>1, <2>7, Zenon
  <2>10. IsPolicy([name |-> name, when |-> when, verdict |-> verdict, reason |-> reason,
                   evidence |-> evidence])
    BY <2>4, <2>5, <2>6, <2>8, <2>9, PolicyFields, Zenon
  <2> QED
    BY <2>1, <2>2, <2>3, <2>7, <2>10, Zenon
<1>4. PICK n : n = Len(draft)
  BY Zenon
<1>5. n \in Nat
  BY <1>2, <1>4, Zenon
<1>6. PICK g : \A k \in 1..n :
          g[k] = [name |-> Name(k), when |-> draft[k],
                  verdict |-> IF k = 1 THEN "block" ELSE "review",
                  reason |-> IF k = 1 THEN <<<<2>>>> ELSE <<>>,
                  evidence |-> IF k = 1 /\ Len(draft) > 1 THEN <<draft[2]>> ELSE <<>>]
  <2>1. PICK h : h = [k \in 1..n |->
          [name |-> Name(k), when |-> draft[k],
           verdict |-> IF k = 1 THEN "block" ELSE "review",
           reason |-> IF k = 1 THEN <<<<2>>>> ELSE <<>>,
           evidence |-> IF k = 1 /\ Len(draft) > 1 THEN <<draft[2]>> ELSE <<>>]]
    BY Zenon
  <2>2. \A k \in 1..n :
          h[k] = [name |-> Name(k), when |-> draft[k],
                  verdict |-> IF k = 1 THEN "block" ELSE "review",
                  reason |-> IF k = 1 THEN <<<<2>>>> ELSE <<>>,
                  evidence |-> IF k = 1 /\ Len(draft) > 1 THEN <<draft[2]>> ELSE <<>>]
    BY <2>1, Zenon
  <2> QED
    BY <2>2, Zenon
<1>7. PICK q : q = [k \in 1..n |-> g[k]]
  BY Zenon
<1>8. Program = q
  BY <1>4, <1>6, <1>7, Zenon DEF Program
<1>9. PICK S : S = {g[k] : k \in 1..n}
  BY Zenon
<1>10. Len(q) = n /\ (n = 0 => q = <<>>) /\ q \in Seq(S) /\ \A k \in 1..n : q[k] = g[k]
  BY <1>5, <1>7, <1>9
<1>11. \A k \in 1..n : IsPolicy(q[k])
  <2>1. ASSUME NEW k \in 1..n PROVE IsPolicy(q[k])
    <3>1. PICK o : o = [name |-> Name(k), when |-> draft[k],
                  verdict |-> IF k = 1 THEN "block" ELSE "review",
                  reason |-> IF k = 1 THEN <<<<2>>>> ELSE <<>>,
                  evidence |-> IF k = 1 /\ Len(draft) > 1 THEN <<draft[2]>> ELSE <<>>]
      BY Zenon
    <3>2. k \in 1..Len(draft)
      BY <1>4, Zenon
    <3>3. IsPolicy(o)
      BY <1>3, <3>1, <3>2, Zenon
    <3>4. g[k] = o
      BY <1>6, <3>1, Zenon
    <3> QED
      BY <1>10, <3>3, <3>4, Zenon
  <2> QED
    BY <2>1, Zenon
<1> QED
  BY <1>2, <1>4, <1>8, <1>10, <1>11, Zenon

\* parse gives back every program an author can write: an expression is read
\* with the precedence and the associativity that the table at the head of
\* parser.rs states, however it nests, and so are the policy's attributes.
THEOREM ProgramsReadBack == DictumSpec => []ParseInverts
<1>1. DraftInv => ParseInverts
  <2> SUFFICES ASSUME DraftInv PROVE Parse(Source(Program)) = <<"Program", Program>>
    BY Zenon DEF ParseInverts
  <2>1. CASE Len(draft) = 0
    BY <2>1, ProgramIs, NothingRead, Zenon
  <2>2. CASE Len(draft) # 0
    <3>1. PICK S : Program \in Seq(S)
      BY ProgramIs, Zenon
    <3>2. PICK n : n = Len(Program)
      BY Zenon
    <3>3. n \in Nat /\ n # 0
      BY <2>2, <3>2, ProgramIs, Zenon
    <3>4. n > 0
      BY <3>3
    <3>5. Len(Program) > 0 /\ \A k \in 1..Len(Program) : IsPolicy(Program[k])
      BY <3>2, <3>4, ProgramIs, Zenon
    <3> QED
      BY <3>1, <3>5, ProgramRead
  <2> QED
    BY <2>1, <2>2
<1> QED
  BY <1>1, DraftInvariance, PTL
=============================================================================
