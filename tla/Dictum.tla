------------------------------- MODULE Dictum -------------------------------
(***************************************************************************)
(* The Dictum policy language (crate iaga-sentinel-dictum): parser,         *)
(* structural validator, Hindley-Milner type checker, tree-walk evaluator   *)
(* and the WASM code generator, on every expression an author can write     *)
(* with at most MaxNodes nodes.                                            *)
(*                                                                         *)
(* Every thing here is a tuple whose head says what it is: a value          *)
(* <<"Int", n>>, <<"Float", halves>>, <<"Str", characters>> and so on, a    *)
(* token, a node.  A character is a number: 1..3 lower case, 11..13 the     *)
(* same in upper case, and one number for each mark that a builtin looks    *)
(* for.                                                                    *)
(*                                                                         *)
(* An expression is the sequence of its nodes, each after its parts, the    *)
(* root last.  A node is <<kind, what it holds, how far back the nodes of   *)
(* its parts are>>: kind "lit" holds a value, "path" the segments, "call"   *)
(* the name, "in" whether it is negated; "not" and the binary operators     *)
(* hold nothing.  A walk over the tree is a recursive function of the       *)
(* position.                                                               *)
(***************************************************************************)
EXTENDS Integers, Sequences, FiniteSets, SequencesExt

CONSTANTS
    Leaves,    \* literals and paths an author uses
    UnaryFns,  \* builtins, and names that are none, called with one argument
    BinaryFns, \* ... and with two
    Operators, \* the binary operators an author uses
    Requests,  \* what a host tells the overlay of a request
    MaxNodes,  \* bound on the size of an expression
    EvalSteps, \* EvalBudget: 10_000
    SecretKeys, \* the keys of objects that hold a credential
    JsonDepth, \* how deep a payload nests: 128, where serde_json stops
    WasmInts   \* 2^32, the integers of the WASM back end

Comparisons == {"==", "!=", "<", ">", "<=", ">="}
BinOps == Comparisons \cup {"and", "or"}

\* Literals are booleans, integers without a sign and strings; a path has a
\* segment.  A policy of more nodes than the evaluator has steps is not covered.
ASSUME DictumAssumption ==
    /\ \A x \in Leaves :
         \/ x[1] = "path" /\ x = <<"path", x[2], <<>>>> /\ x[2] \in Seq(STRING) \ {<<>>}
         \/ x[1] = "lit" /\ x = <<"lit", x[2], <<>>>> /\ x[2] = <<x[2][1], x[2][2]>>
            /\ \/ x[2][1] = "Bool" /\ x[2][2] \in BOOLEAN
               \/ x[2][1] = "Int" /\ x[2][2] \in Nat
               \/ x[2][1] = "Str" /\ x[2][2] \in Seq(Nat)
    /\ Operators \subseteq BinOps
    /\ \A r \in Requests : r.payload[1] = "Obj"
    /\ MaxNodes \in Nat /\ EvalSteps \in Nat /\ MaxNodes <= EvalSteps
    /\ SecretKeys \subseteq STRING
    /\ JsonDepth \in Nat /\ WasmInts \in Nat \ {0}

VARIABLE draft  \* the expressions the author has in hand: at most two
dictumVars == <<draft>>

Secret == 4     \* a credential
Instant == 5    \* what makes a string an RFC 3339 instant
SchemeEnd == 6  \* ://
PathStart == 7  \* / or ? or #
AtSign == 8
Colon == 9
Open == 21
Close == 22
Blank == 23     \* white space

-----------------------------------------------------------------------------
(* The syntax tree.                                                        *)

Leaf(x) == <<x>>
Unary(kind, of, e) == Append(e, <<kind, of, <<1>>>>)
Binary(kind, of, l, r) == Append(l \o r, <<kind, of, <<Len(r) + 1, 1>>>>)
Call(f, args) ==
    Append(FlattenSeq(args),
           <<"call", f, [k \in 1..Len(args) |->
                Len(FlattenSeq(SubSeq(args, k + 1, Len(args)))) + 1]>>)

\* What a walk found at the parts of node i.
AtParts(e, i, found) == [k \in 1..Len(e[i][3]) |-> found[i - e[i][3][k]]]

-----------------------------------------------------------------------------
(* The evaluator.                                                          *)

Bool(b) == <<"Bool", b>>
Err(why) == <<"Err", why>>
IsErr(v) == v[1] = "Err"

Truthy(v) == CASE v[1] = "Bool" -> v[2]
               [] v[1] = "Null" -> FALSE
               [] v[1] \in {"Int", "Float"} -> v[2] # 0
               [] v[1] \in {"Str", "List"} -> v[2] # <<>>

\* An object is a function from keys; as a value it is Null.
WalkPath(json, segs) ==
    LET at[k \in 0..Len(segs)] ==
            IF k = 0 THEN json
            ELSE IF at[k-1][1] = "Obj" /\ segs[k] \in DOMAIN at[k-1][2]
                 THEN at[k-1][2][segs[k]] ELSE <<"Null">>
    IN at[Len(segs)]

\* A JSON value and everything in it.
Held(json) == CASE json[1] = "List" -> ToSet(json[2])
                [] json[1] = "Obj" -> {json[2][k] : k \in DOMAIN json[2]}
                [] OTHER -> {}
Inside(json) ==
    LET level[d \in 0..JsonDepth] ==
            IF d = 0 THEN {json} ELSE UNION {Held(x) : x \in level[d-1]}
    IN UNION {level[d] : d \in 0..JsonDepth}

JsonToValue(json) ==
    LET value[x \in Inside(json)] ==
            CASE x[1] = "Obj" -> <<"Null">>
              [] x[1] = "List" -> <<"List", [i \in 1..Len(x[2]) |-> value[x[2][i]]]>>
              [] OTHER -> x
    IN value[json]

\* contains_secret over the serialised form: a credential in any string, or in
\* a key of any object.
ContainsSecret(json) == \E x \in Inside(json) :
    \/ x[1] = "Str" /\ Secret \in ToSet(x[2])
    \/ x[1] = "Obj" /\ DOMAIN x[2] \cap SecretKeys # {}

Numeric(v) == v[1] \in {"Int", "Float"}
Halves(v) == IF v[1] = "Int" THEN 2 * v[2] ELSE v[2]
ValuesEq(a, b) == IF Numeric(a) /\ Numeric(b) THEN Halves(a) = Halves(b) ELSE a = b
StrLess(a, b) == \E n \in 0..Len(a) :
    /\ n < Len(b) /\ SubSeq(a, 1, n) = SubSeq(b, 1, n)
    /\ n = Len(a) \/ a[n + 1] < b[n + 1]
Less(a, b) == IF Numeric(a) THEN Halves(a) < Halves(b) ELSE StrLess(a[2], b[2])
CmpValues(op, a, b) ==
    IF ~(Numeric(a) /\ Numeric(b)) /\ ~(a[1] = "Str" /\ b[1] = "Str") THEN Err("type")
    ELSE Bool(CASE op = "<" -> Less(a, b) [] op = ">" -> Less(b, a)
                [] op = "<=" -> ~Less(b, a) [] op = ">=" -> ~Less(a, b))

HasSub(s, sub) == \E i \in 1..(Len(s) + 1) : IsPrefix(sub, SubSeq(s, i, Len(s)))
Lower(s) == [i \in 1..Len(s) |-> IF s[i] \in 11..13 THEN s[i] - 10 ELSE s[i]]
Upper(s) == [i \in 1..Len(s) |-> IF s[i] \in 1..3 THEN s[i] + 10 ELSE s[i]]
\* A digest of one character, a different one for every string in reach.
Sha256Hex(s) == <<FoldLeft(LAMBDA acc, c : 32 * acc + c, 0, s) + 100>>

Upto(s, c) == SubSeq(s, 1, SelectInSeq(s \o <<c>>, LAMBDA x : x = c) - 1)
After(s, c) == SubSeq(s, SelectInSeq(s, LAMBDA x : x = c) + 1, Len(s))
AfterLast(s, c) == SubSeq(s, SelectLastInSeq(s, LAMBDA x : x = c) + 1, Len(s))
ExtractHost(s) ==
    LET authority == Upto(After(s, SchemeEnd), PathStart)
        hostport == AfterLast(authority, AtSign)
    IN Lower(IF hostport = <<>> \/ Head(hostport) # Open THEN Upto(hostport, Colon)
             ELSE IF Close \in ToSet(hostport) THEN Append(Upto(hostport, Close), Close)
             ELSE hostport)

\* Membership compares values as they are: 1 is not in a list that holds 1.0.
Member(n, h) ==
    CASE h[1] = "List" -> Bool(n \in ToSet(h[2]))
      [] h[1] = "Str" /\ n[1] = "Str" -> Bool(HasSub(h[2], n[2]))
      [] OTHER -> Err("type")

\* eval_builtin on evaluated arguments; anything else is unknown or mistyped.
Apply(f, a) ==
    LET kinds == [i \in 1..Len(a) |-> a[i][1]]
    IN CASE f = "contains" /\ kinds = <<"Str", "Str">> -> Bool(HasSub(a[1][2], a[2][2]))
         [] f = "contains" /\ Len(a) = 2 /\ kinds[1] = "List" -> Bool(a[2] \in ToSet(a[1][2]))
         [] f = "starts_with" /\ kinds = <<"Str", "Str">> -> Bool(IsPrefix(a[2][2], a[1][2]))
         [] f = "ends_with" /\ kinds = <<"Str", "Str">> -> Bool(IsSuffix(a[2][2], a[1][2]))
         [] f = "len" /\ kinds \in {<<"Str">>, <<"List">>} -> <<"Int", Len(a[1][2])>>
         [] f = "lower" /\ kinds = <<"Str">> -> <<"Str", Lower(a[1][2])>>
         [] f = "upper" /\ kinds = <<"Str">> -> <<"Str", Upper(a[1][2])>>
         [] f = "url_host" /\ kinds = <<"Str">> -> <<"Str", ExtractHost(a[1][2])>>
         [] f = "sha256" /\ kinds = <<"Str">> -> <<"Str", Sha256Hex(a[1][2])>>
         [] f = "timestamp" /\ kinds = <<"Str">> ->
              IF HasSub(a[1][2], <<Instant>>) THEN <<"Int", Len(a[1][2])>> ELSE Err("instant")
         [] OTHER -> Err("type")

\* A part is evaluated by what maps the budget to the value, or an error, and
\* what is left of the budget.  An error of a part is the error of the whole.
NextArg(acc, part) ==
    LET r == part[acc[2]]
    IN IF IsErr(acc[1]) THEN acc ELSE IF IsErr(r[1]) THEN r
       ELSE <<<<"List", Append(acc[1][2], r[1])>>, r[2]>>
EvalArgs(parts, n) ==
    LET done[k \in 0..Len(parts)] ==
            IF k = 0 THEN <<<<"List", <<>>>>, n>> ELSE NextArg(done[k-1], parts[k])
    IN done[Len(parts)]

\* The value of a node whose parts are all evaluated first.
ValueOf(node, a) ==
    CASE node[1] = "not" -> Bool(~Truthy(a[1]))
      [] node[1] \in {"==", "!="} -> Bool(ValuesEq(a[1], a[2]) = (node[1] = "=="))
      [] node[1] \in Comparisons \ {"==", "!="} -> CmpValues(node[1], a[1], a[2])
      [] node[1] = "in" -> LET b == Member(a[1], a[2])
                           IN IF IsErr(b) THEN b ELSE Bool(b[2] # node[2])
      [] node[1] = "call" /\ node[2] = "secret_ref" -> Bool(ContainsSecret(a[1]))
      [] node[1] = "call" /\ node[2] # "secret_ref" -> Apply(node[2], a)
EvalStrict(node, parts, n) ==
    LET r == EvalArgs(parts, n)
    IN IF IsErr(r[1]) THEN r ELSE <<ValueOf(node, r[1][2]), r[2]>>

\* Mutant: `and` and `or` yield the operand instead of its truth.
EvalOperand(op, l, r, n) ==
    LET lv == l[n]
    IN IF IsErr(lv[1]) \/ Truthy(lv[1]) = (op = "or") THEN lv ELSE r[lv[2]]

\* The short circuit of eval_binop.
EvalLogic(op, l, r, n) ==
    LET lv == l[n]
        rv == r[lv[2]]
    IN IF IsErr(lv[1]) THEN lv
       ELSE IF Truthy(lv[1]) = (op = "or") THEN <<Bool(op = "or"), lv[2]>>
       ELSE IF IsErr(rv[1]) THEN rv ELSE <<Bool(Truthy(rv[1])), rv[2]>>

\* secret_ref sees the JSON of a path, not the value it flattens to.
EvalSecretRef(e, i, parts, ctx, n) ==
    LET arg == e[i - e[i][3][1]]
    IN IF Len(parts) # 1 THEN <<Err("type"), n>>
       ELSE IF arg[1] # "path" THEN EvalStrict(e[i], parts, n)
       ELSE IF n = 0 THEN <<Err("budget"), 0>>
       ELSE <<Bool(ContainsSecret(WalkPath(ctx, arg[2]))), n - 1>>

EvalNode(e, i, parts, ctx, n) ==
    CASE n = 0 -> <<Err("budget"), 0>>
      [] n > 0 /\ e[i][1] = "lit" -> <<e[i][2], n - 1>>
      [] n > 0 /\ e[i][1] = "path" -> <<JsonToValue(WalkPath(ctx, e[i][2])), n - 1>>
      [] n > 0 /\ e[i][1] \in {"and", "or"} -> EvalLogic(e[i][1], parts[1], parts[2], n - 1)
      [] n > 0 /\ e[i][1] = "call" /\ e[i][2] = "secret_ref" ->
           EvalSecretRef(e, i, parts, ctx, n - 1)
      [] OTHER -> EvalStrict(e[i], parts, n - 1)

\* eval_expr at every node.
EvalExpr(e, ctx) ==
    LET at[i \in 1..Len(e)] == [n \in Nat |-> EvalNode(e, i, AtParts(e, i, at), ctx, n)]
    IN at
Eval(e, ctx) == EvalExpr(e, ctx)[Len(e)][EvalSteps][1]

-----------------------------------------------------------------------------
(* The structural validator.                                               *)

BinaryBuiltins == {"contains", "starts_with", "ends_with"}
UnaryBuiltins == {"len", "lower", "upper", "secret_ref", "url_host", "timestamp", "sha256"}
BuiltinArities ==
    [f \in BinaryBuiltins \cup UnaryBuiltins |-> IF f \in BinaryBuiltins THEN 2 ELSE 1]

ValidateNode(node) ==
    /\ node[1] = "call" /\ node[2] \in DOMAIN BuiltinArities
         => Len(node[3]) = BuiltinArities[node[2]]
    /\ node[1] = "path" => node[2] \in Seq(STRING) \ {<<>>}
ValidateExpr(e) == \A i \in 1..Len(e) : ValidateNode(e[i])

Exprs(policy) == <<policy.when>> \o policy.evidence
\* A name with nothing left when it is trimmed is refused; duplicates are
\* compared as they are written.
Validate(program) ==
    \A i \in 1..Len(program) :
        /\ ~(ToSet(program[i].name) \subseteq {Blank})
        /\ \A j \in 1..(i - 1) : program[j].name # program[i].name
        /\ \A k \in 1..Len(Exprs(program[i])) : ValidateExpr(Exprs(program[i])[k])

CollectExprPaths(e) == {e[i][2] : i \in {j \in 1..Len(e) : e[j][1] = "path"}}
CollectPaths(program) ==
    UNION {UNION {CollectExprPaths(Exprs(program[i])[k]) : k \in 1..Len(Exprs(program[i]))}
             : i \in 1..Len(program)}

-----------------------------------------------------------------------------
(* The type checker.  The environment is the substitution: variable n is     *)
(* the n-th entry, the empty tuple while it is free.  No expression has a    *)
(* list type, so neither does any type here.                                *)

\* apply: a variable is followed to what it stands for, through at most all of
\* the others.
Resolve(ty, env) ==
    LET seen[k \in 0..Len(env)] ==
            IF k = 0 THEN ty
            ELSE IF seen[k-1][1] = "Var" /\ env[seen[k-1][2]] # <<>>
                 THEN env[seen[k-1][2]] ELSE seen[k-1]
    IN IF ty[1] # "Var" THEN ty ELSE seen[Len(env)]

\* unify: the new substitution, or an error.
Unify(a, b, env) ==
    LET x == Resolve(a, env)
        y == Resolve(b, env)
    IN CASE <<"Unknown">> \in {x, y} \/ x = y -> <<"Ok", env>>
         [] <<"Unknown">> \notin {x, y} /\ x # y /\ x[1] = "Var" -> <<"Ok", [env EXCEPT ![x[2]] = y]>>
         [] <<"Unknown">> \notin {x, y} /\ x[1] # "Var" /\ y[1] = "Var" -> <<"Ok", [env EXCEPT ![y[2]] = x]>>
         [] OTHER -> Err("type")

Str == <<"Str">>
BuiltinSignature(f) ==
    CASE f \in BinaryBuiltins -> <<<<"Bool">>, <<Str, Str>>>>
      [] f = "len" -> <<<<"Int">>, <<<<"Unknown">>>>>>
      [] f = "secret_ref" -> <<<<"Bool">>, <<<<"Unknown">>>>>>
      [] f = "timestamp" -> <<<<"Int">>, <<Str>>>>
      [] f \in {"lower", "upper", "url_host", "sha256"} -> <<Str, <<Str>>>>
      [] OTHER -> <<>>

\* What each part is unified with: itself, when it is left alone.
Expected(node, types) ==
    CASE node[1] \in {"not", "and", "or"} -> [i \in 1..Len(types) |-> <<"Bool">>]
      [] node[1] \in Comparisons \ {"==", "!="} -> <<<<"Int">>, <<"Int">>>>
      [] node[1] \in {"==", "!="} -> <<types[2], types[2]>>
      [] node[1] = "call" /\ BuiltinSignature(node[2]) # <<>> -> BuiltinSignature(node[2])[2]
      [] OTHER -> types
UnifyAll(types, with, env) ==
    LET upto[k \in 0..Len(types)] ==
            IF k = 0 THEN <<"Ok", env>>
            ELSE IF IsErr(upto[k-1]) THEN upto[k-1]
            ELSE Unify(types[k], with[k], upto[k-1][2])
    IN upto[Len(types)]

WrongArity(node) ==
    /\ node[1] = "call" /\ BuiltinSignature(node[2]) # <<>>
    /\ Len(BuiltinSignature(node[2])[2]) # Len(node[3])
\* The type of a node, in an environment in which its parts are unified: a call
\* of a name that is no builtin has a fresh variable.
TypeOf(node, env) ==
    CASE node[1] = "lit" -> <<node[2][1]>>
      [] node[1] = "path" -> <<"Unknown">>
      [] node[1] = "call" /\ BuiltinSignature(node[2]) = <<>> -> <<"Var", Len(env) + 1>>
      [] node[1] = "call" /\ BuiltinSignature(node[2]) # <<>> -> BuiltinSignature(node[2])[1]
      [] OTHER -> <<"Bool">>
EnvAfter(node, env) ==
    IF node[1] = "call" /\ BuiltinSignature(node[2]) = <<>> THEN Append(env, <<>>) ELSE env

\* One node of infer_expr: its type and the substitution, or an error, given
\* the same of its parts and of the node before it.  The arguments of a call
\* are unified after the last of them is inferred, for they share no variable;
\* which of several errors is reported is left out.
InferNode(node, parts, before) ==
    LET types == [k \in 1..Len(parts) |-> parts[k][2]]
        sub == UnifyAll(types, Expected(node, types), before[3])
    IN IF IsErr(before) THEN before
       ELSE IF WrongArity(node) THEN Err("type")
       ELSE IF IsErr(sub) THEN sub
       ELSE <<"Ok", TypeOf(node, sub[2]), EnvAfter(node, sub[2])>>
InferExpr(e) ==
    LET at[i \in 0..Len(e)] ==
            IF i = 0 THEN <<"Ok", <<"Unknown">>, <<>>>>
            ELSE InferNode(e[i], AtParts(e, i, at), at[i-1])
    IN at

\* infer on one policy: its `when` unifies with bool.
Infer(e) ==
    LET r == InferExpr(e)[Len(e)]
        u == Unify(r[2], <<"Bool">>, r[3])
    IN IF IsErr(r) THEN r ELSE IF IsErr(u) THEN u ELSE <<"Ok", Resolve(r[2], u[2])>>

-----------------------------------------------------------------------------
(* The WASM back end: code for a stack of i32, kept as the number it leaves. *)

AsI32(n) == n % WasmInts
Signed(n) == (n + WasmInts \div 2) % WasmInts
Flag(b) == <<"I32", IF b THEN 1 ELSE 0>>
\* i32.and and i32.or, bit by bit.
I32And(x, y) ==
    LET bits[n \in 0..x] == [m \in Nat |->
            IF n = 0 THEN 0 ELSE 2 * bits[n \div 2][m \div 2] + (n % 2) * (m % 2)]
    IN bits[x][y]
I32Or(x, y) == x + y - I32And(x, y)

BinaryCode(op, x, y) ==
    CASE op = "==" -> Flag(x = y)
      [] op = "!=" -> Flag(x # y)
      [] op = "<"  -> Flag(Signed(x) < Signed(y))
      [] op = ">"  -> Flag(Signed(x) > Signed(y))
      [] op = "<=" -> Flag(Signed(x) <= Signed(y))
      [] op = ">=" -> Flag(Signed(x) >= Signed(y))
      [] op = "and" -> <<"I32", I32And(x, y)>>
      [] op = "or"  -> <<"I32", I32Or(x, y)>>
EmitNode(node, x) ==
    CASE node[1] = "lit" /\ node[2][1] = "Bool" -> Flag(node[2][2])
      [] node[1] = "lit" /\ node[2][1] = "Int" -> <<"I32", AsI32(node[2][2])>>
      [] node[1] = "not" -> IF IsErr(x[1]) THEN x[1] ELSE Flag(x[1][2] = 0)
      [] node[1] \in BinOps ->
           IF IsErr(x[1]) THEN x[1] ELSE IF IsErr(x[2]) THEN x[2]
           ELSE BinaryCode(node[1], x[1][2], x[2][2])
      [] OTHER -> Err("unsupported")
EmitExpr(e) ==
    LET at[i \in 1..Len(e)] == EmitNode(e[i], AtParts(e, i, at)) IN at
Emit(e) == EmitExpr(e)[Len(e)]

-----------------------------------------------------------------------------
(* The parser: tokens t, position i, to an expression (or an error) and the  *)
(* next position, which is 0 after an error.                               *)

Peek(t, i) == IF i <= Len(t) THEN t[i][1] ELSE "eof"
Fail == <<Err("parse"), 0>>
Failed(r) == r[2] = 0

\* One operator per method of the parser; p[rule][j] is what a method that it
\* calls returns at position j.
Rules == {"or", "and", "not", "compare", "membership", "primary"}

\* The four loops: while the next token is sep, step over it, read an operand
\* and join it to what there is.  No loop turns more often than there are tokens.
Operand(p, t, sep, i) ==
    CASE sep = "or" -> p["and"][i]
      [] sep = "and" -> p["not"][i]
      [] sep = "," -> p["or"][i]
      [] sep = "." -> IF Peek(t, i) = "ident" THEN <<t[i][2], i + 1>> ELSE Fail
Joined(sep, x, y) == IF sep \in {"or", "and"} THEN Binary(sep, {}, x, y) ELSE Append(x, y)
Over(t, sep, r) == Failed(r) \/ Peek(t, r[2]) # sep
Extended(sep, r, y) == IF Failed(y) THEN y ELSE <<Joined(sep, r[1], y[1]), y[2]>>
Turn(p, t, sep, r) ==
    IF Over(t, sep, r) THEN r ELSE Extended(sep, r, Operand(p, t, sep, r[2] + 1))
Final(t, sep, after) == after[CHOOSE k \in 0..Len(t) : Over(t, sep, after[k])]
Loop(p, t, sep, first) ==
    LET after[k \in 0..Len(t)] == IF k = 0 THEN first ELSE Turn(p, t, sep, after[k-1])
    IN Final(t, sep, after)

\* What was read, up to a closing parenthesis.
Closed(t, r) ==
    IF Failed(r) THEN r ELSE IF Peek(t, r[2]) = ")" THEN <<r[1], r[2] + 1>> ELSE Fail
\* The arguments of a call, after its opening parenthesis.
ParseArgs(p, t, i) ==
    LET first == p["or"][i]
    IN IF Failed(first) THEN first
       ELSE Closed(t, Loop(p, t, ",", <<<<first[1]>>, first[2]>>))

PathOf(r) == IF Failed(r) THEN r ELSE <<Leaf(<<"path", r[1], <<>>>>), r[2]>>
CallOf(f, r) == IF Failed(r) THEN r ELSE <<Call(f, r[1]), r[2]>>
ParsePrimary(p, t, i) ==
    CASE Peek(t, i) = "lit" -> <<Leaf(<<"lit", t[i][2], <<>>>>), i + 1>>
      [] Peek(t, i) = "(" -> Closed(t, p["or"][i + 1])
      [] Peek(t, i) = "ident" ->
           IF Peek(t, i + 1) # "(" THEN PathOf(Loop(p, t, ".", <<<<t[i][2]>>, i + 1>>))
           ELSE IF Peek(t, i + 2) = ")" THEN <<Call(t[i][2], <<>>), i + 3>>
           ELSE CallOf(t[i][2], ParseArgs(p, t, i + 2))
      [] OTHER -> Fail

\* `x not in y` needs two tokens of lookahead: a stray `not` is left alone.
Haystack(p, needle, neg, i) ==
    LET r == p["primary"][i]
    IN IF Failed(r) THEN r ELSE <<Binary("in", neg, needle, r[1]), r[2]>>
ParseMembership(p, t, i) ==
    LET l == p["primary"][i]
    IN IF Failed(l) THEN l
       ELSE IF Peek(t, l[2]) = "in" THEN Haystack(p, l[1], FALSE, l[2] + 1)
       ELSE IF Peek(t, l[2]) = "not" /\ Peek(t, l[2] + 1) = "in"
            THEN Haystack(p, l[1], TRUE, l[2] + 2)
       ELSE l

ParseCompare(p, t, i) ==
    LET l == p["membership"][i]
        op == Peek(t, l[2])
        r == p["membership"][l[2] + 1]
    IN IF Failed(l) \/ op \notin Comparisons THEN l
       ELSE IF Failed(r) THEN r ELSE <<Binary(op, {}, l[1], r[1]), r[2]>>

\* Mutant: a `not` takes one operand of the comparison it stands before.
NotBindsTight(p, t, i) ==
    LET e == p["membership"][i + 1]
    IN IF Peek(t, i) # "not" THEN p["compare"][i]
       ELSE IF Failed(e) THEN e ELSE <<Unary("not", {}, e[1]), e[2]>>

ParseNot(p, t, i) ==
    LET e == p["not"][i + 1]
    IN IF Peek(t, i) # "not" THEN p["compare"][i]
       ELSE IF Failed(e) THEN e ELSE <<Unary("not", {}, e[1]), e[2]>>

ParseAnd(p, t, i) == Loop(p, t, "and", p["not"][i])
ParseOr(p, t, i) == Loop(p, t, "or", p["and"][i])

ParseRule(p, t, rule, i) ==
    CASE rule = "or" -> ParseOr(p, t, i)
      [] rule = "and" -> ParseAnd(p, t, i)
      [] rule = "not" -> ParseNot(p, t, i)
      [] rule = "compare" -> ParseCompare(p, t, i)
      [] rule = "membership" -> ParseMembership(p, t, i)
      [] rule = "primary" -> ParsePrimary(p, t, i)

\* The methods, with n calls of them open at most: a chain of six that read
\* nothing ends in one that steps over a token.
OpenCalls(t) == 6 * (Len(t) + 1)
Methods(t) ==
    LET within[n \in 0..OpenCalls(t)] == [rule \in Rules |-> [j \in Nat |->
            IF n = 0 THEN Fail ELSE ParseRule(within[n-1], t, rule, j)]]
    IN within
ParseExpr(t, i) == Methods(t)[OpenCalls(t)]["or"][i]

\* parse_action: the attributes in any order, the last of each kind counts.
\* r holds the reason and the evidence so far.
Evident(r, e) == IF Failed(e) THEN e ELSE <<<<r[1][1], <<e[1]>>>>, e[2]>>
Attribute(t, r) ==
    LET i == r[2]
    IN IF Over(t, ",", r) THEN r
       ELSE IF Peek(t, i + 2) # "=" THEN Fail
       ELSE IF Peek(t, i + 1) = "reason"
            THEN IF Peek(t, i + 3) = "lit" /\ t[i + 3][2][1] = "Str"
                 THEN <<<<<<t[i + 3][2][2]>>, r[1][2]>>, i + 4>> ELSE Fail
       ELSE IF Peek(t, i + 1) # "evidence" THEN Fail ELSE Evident(r, ParseExpr(t, i + 3))
ParseAttrs(t, i) ==
    LET after[k \in 0..Len(t)] ==
            IF k = 0 THEN <<<<<<>>, <<>>>>, i>> ELSE Attribute(t, after[k-1])
    IN Final(t, ",", after)

\* parse_policy, from its name to the `when`, to the action, to the end.
PolicyEnd(t, name, when, verdict, attrs) ==
    IF Failed(attrs) \/ Peek(t, attrs[2]) # "}" THEN Fail
    ELSE <<[name |-> name, when |-> when, verdict |-> verdict, reason |-> attrs[1][1],
            evidence |-> attrs[1][2]], attrs[2] + 1>>
PolicyAction(t, name, when) ==
    IF \/ Failed(when) \/ Peek(t, when[2]) # "then"
       \/ Peek(t, when[2] + 1) \notin {"allow", "review", "block"}
    THEN Fail
    ELSE PolicyEnd(t, name, when[1], Peek(t, when[2] + 1), ParseAttrs(t, when[2] + 2))
ParsePolicy(t, i) ==
    IF \/ <<Peek(t, i), Peek(t, i + 1), Peek(t, i + 2), Peek(t, i + 3)>>
             # <<"policy", "lit", "{", "when">>
       \/ t[i + 1][2][1] # "Str"
    THEN Fail
    ELSE PolicyAction(t, t[i + 1][2][2], ParseExpr(t, i + 4))

\* One policy after another, up to the last token.
AtEnd(t, r) == Failed(r) \/ r[2] > Len(t)
Grown(r, policy) ==
    IF Failed(policy) THEN policy ELSE <<Append(r[1], policy[1]), policy[2]>>
NextPolicy(t, r) == IF AtEnd(t, r) THEN r ELSE Grown(r, ParsePolicy(t, r[2]))
Whole(t, after) == after[CHOOSE k \in 0..Len(t) : AtEnd(t, after[k])]
ParsePolicies(t) ==
    LET after[k \in 0..Len(t)] == IF k = 0 THEN <<<<>>, 1>> ELSE NextPolicy(t, after[k-1])
    IN Whole(t, after)
Outcome(r) == IF Failed(r) THEN r[1] ELSE <<"Program", r[1]>>
Parse(t) == Outcome(ParsePolicies(t))

-----------------------------------------------------------------------------
(* What the table at the head of parser.rs means: an expression is written   *)
(* with a parenthesis exactly where a part binds less than its place asks.   *)

Binds(node) == CASE node[1] = "or" -> 1 [] node[1] = "and" -> 2 [] node[1] = "not" -> 3
                 [] node[1] \in Comparisons -> 4 [] node[1] = "in" -> 5 [] OTHER -> 6

\* Listed(s): the token sequences s, a token between each two.
Listed(sep, s) == IF s = <<>> THEN <<>> ELSE Tail(FlattenSeq([k \in 1..Len(s) |-> <<sep>> \o s[k]]))
Parens(s) == <<<<"(">>>> \o s \o <<<<")">>>>

\* A node, given the text of its parts; Part(k, place) is that of part k where
\* the place asks for a binding.
Tokens(e, i, texts) ==
    LET node == e[i]
        Part(k, place) == IF Binds(e[i - node[3][k]]) >= place THEN texts[k] ELSE Parens(texts[k])
    IN CASE node[1] = "lit" -> <<<<"lit", node[2]>>>>
         [] node[1] = "path" ->
              Listed(<<".">>, [k \in 1..Len(node[2]) |-> <<<<"ident", node[2][k]>>>>])
         [] node[1] = "call" -> <<<<"ident", node[2]>>>> \o Parens(Listed(<<",">>, texts))
         [] node[1] = "not" -> <<<<"not">>>> \o Part(1, 3)
         [] node[1] = "in" -> Part(1, 6) \o (IF node[2] THEN <<<<"not">>>> ELSE <<>>)
                                \o <<<<"in">>>> \o Part(2, 6)
         [] node[1] \in Comparisons -> Part(1, 5) \o <<<<node[1]>>>> \o Part(2, 5)
         [] node[1] \in {"and", "or"} ->
              Part(1, Binds(node)) \o <<<<node[1]>>>> \o Part(2, Binds(node) + 1)
Written(e) ==
    LET at[i \in 1..Len(e)] == Tokens(e, i, AtParts(e, i, at)) IN at[Len(e)]
Source(program) == FlattenSeq([k \in 1..Len(program) |->
    LET p == program[k]
    IN <<<<"policy">>, <<"lit", <<"Str", p.name>>>>, <<"{">>, <<"when">>>> \o Written(p.when)
         \o <<<<"then">>, <<p.verdict>>>>
         \o (IF p.evidence = <<>> THEN <<>>
             ELSE <<<<",">>, <<"evidence">>, <<"=">>>> \o Written(p.evidence[1]))
         \o (IF p.reason = <<>> THEN <<>>
             ELSE <<<<",">>, <<"reason">>, <<"=">>, <<"lit", <<"Str", p.reason[1]>>>>>>)
         \o <<<<"}">>>>])

-----------------------------------------------------------------------------
(* The overlay: the context a host builds and the paths it lets a policy use. *)

Obj(f) == <<"Obj", f>>
The(some) == CHOOSE x \in some : TRUE
\* A request r: its payload, the score, the decision and the workspace's
\* allowlist; ml, spent and limit are empty when the host does not have them.
Roots(r) ==
    {"agent", "action", "workspace", "risk"} \cup {"ml" : x \in r.ml}
        \cup {"usage" : x \in r.spent} \cup {"budget" : x \in r.limit}
BuildOverlayContext(r) == Obj([root \in Roots(r) |->
    CASE root = "agent" -> Obj([id |-> <<"Str", <<1>>>>, framework |-> <<"Str", <<2>>>>])
      [] root = "action" -> Obj([kind |-> <<"Str", <<3>>>>, tool_name |-> <<"Str", <<1, 2>>>>,
                                 payload |-> r.payload])
      [] root = "workspace" -> Obj([id |-> <<"Str", <<>>>>, allowlist |-> <<"List", r.allowlist>>])
      [] root = "risk" -> Obj([score |-> <<"Int", r.score>>, decision |-> <<"Str", <<2, 1>>>>])
      [] root = "ml" -> The(r.ml)
      [] root = "usage" -> Obj([session_cost_usd |-> <<"Float", The(r.spent)>>])
      [] root = "budget" -> Obj([limit |-> <<"Float", The(r.limit)>>])])

\* Mutant: only the first segment of a path is looked up in the schema.
RootOnly(segs) ==
    segs[1] \in {"agent", "action", "workspace", "risk", "ml", "usage", "budget"}

ContextSchema ==
    [agent |-> {"id", "framework"}, action |-> {"kind", "tool_name", "payload"},
     workspace |-> {"id", "allowlist"}, risk |-> {"score", "decision"},
     usage |-> {"session_cost_usd"}, budget |-> {"limit"}]
\* validate_context_paths for one path; ml is open below its root, and so is
\* the payload.
ValidateContextPath(segs) ==
    \/ segs[1] = "ml"
    \/ /\ segs[1] \in DOMAIN ContextSchema
       /\ Len(segs) > 1 => segs[2] \in ContextSchema[segs[1]]
       /\ Len(segs) > 2 => segs[1] = "action" /\ segs[2] = "payload"

\* DictumOverlay::load: compile, then refuse the paths no context provides.
Load(t) ==
    LET p == Parse(t)
    IN IF IsErr(p) \/ ~Validate(p[2]) THEN Err("compile")
       ELSE IF \E segs \in CollectPaths(p[2]) : ~ValidateContextPath(segs) THEN Err("path")
       ELSE <<"Overlay", p[2]>>

-----------------------------------------------------------------------------
(* The author: writes expressions bottom up, on a stack of at most three.    *)

\* The nodes on the stack d, and one for each but the first of its expressions.
Weight(d) ==
    LET upto[k \in 1..Len(d)] == Len(d[k]) + (IF k = 1 THEN 0 ELSE upto[k-1] + 1)
    IN upto[Len(d)]

DictumInit == draft = <<>>
Write(d) == Weight(d) <= MaxNodes /\ draft' = d
Below(n) == SubSeq(draft, 1, Len(draft) - n)
WriteLeaf == \E x \in Leaves : Write(Append(draft, Leaf(x)))
WriteNot == Len(draft) >= 1 /\ Write(Append(Below(1), Unary("not", {}, draft[Len(draft)])))
WriteUnaryCall == Len(draft) >= 1 /\ \E f \in UnaryFns :
    Write(Append(Below(1), Unary("call", f, draft[Len(draft)])))
WriteBinary == Len(draft) >= 2 /\ LET l == draft[Len(draft) - 1] r == draft[Len(draft)] IN
    \/ \E op \in Operators : Write(Append(Below(2), Binary(op, {}, l, r)))
    \/ \E neg \in BOOLEAN : Write(Append(Below(2), Binary("in", neg, l, r)))
    \/ \E f \in BinaryFns : Write(Append(Below(2), Binary("call", f, l, r)))
DictumNext == WriteLeaf \/ WriteNot \/ WriteUnaryCall \/ WriteBinary
DictumSpec == DictumInit /\ [][DictumNext]_dictumVars

\* The program in hand: a policy for each expression, the second of which is
\* also the evidence of the first.
Name(k) == [i \in 1..k |-> 1]
Program == [k \in 1..Len(draft) |->
    [name |-> Name(k), when |-> draft[k], verdict |-> IF k = 1 THEN "block" ELSE "review",
     reason |-> IF k = 1 THEN <<<<2>>>> ELSE <<>>,
     evidence |-> IF k = 1 /\ Len(draft) > 1 THEN <<draft[2]>> ELSE <<>>]]

-----------------------------------------------------------------------------
(* The properties.                                                         *)

\* The constructs whose arguments infer_expr leaves unchecked.
Loose(node) ==
    \/ node[1] \in {"path", "in"}
    \/ node[1] = "call"
       /\ (node[2] \in {"len", "timestamp"} \/ BuiltinSignature(node[2]) = <<>>)
Fits(node) == node[1] = "lit" /\ node[2][1] = "Int" => node[2][2] < WasmInts \div 2

\* What types.rs promises of a policy whose `when` it accepts (its evaluator,
\* eval.rs, is dynamically typed, and its signatures are a second copy of the
\* validator's arities): the validator accepts it too; on every request the
\* `when` is a boolean or an error, unless its type was never determined; it
\* is no error when every part of it is closed and checked; and the WASM code,
\* if there is any, computes what the tree walk computes.
TypedProgramsSafe ==
    Len(draft) = 1 =>
        LET e == draft[1]
            ty == Infer(e)
        IN ~IsErr(ty) =>
             /\ ValidateExpr(e)
             /\ \A r \in Requests :
                    LET v == Eval(e, BuildOverlayContext(r))
                    IN /\ IsErr(v) \/ v[1] = "Bool" \/ ty[2][1] = "Unknown"
                       /\ (\A i \in 1..Len(e) : ~Loose(e[i])) => v[1] = "Bool"
                       /\ (\A i \in 1..Len(e) : Fits(e[i])) /\ ~IsErr(Emit(e)) =>
                              Emit(e) = Flag(Truthy(v))

\* parser.rs reads every program back as it was meant: the policy whose text
\* leaves out each parenthesis that the precedence table makes superfluous is
\* parsed to the same tree, attributes included.
ParseInverts == Parse(Source(Program)) = <<"Program", Program>>

\* dictum_overlay.rs promises that a typo in a path is an error at startup and
\* never a Null that fails closed on every request: each path of a loaded
\* overlay leads somewhere in the context of every request that has the
\* conditional roots, outside the two subtrees whose shape is the caller's.
LoadedPathsResolve ==
    LET o == Load(Source(Program))
    IN o[1] = "Overlay" =>
         \A r \in Requests : \A segs \in CollectPaths(o[2]) :
             \/ segs[1] = "ml" \/ (Len(segs) > 2 /\ segs[2] = "payload")
             \/ segs[1] = "usage" /\ r.spent = {}
             \/ segs[1] = "budget" /\ r.limit = {}
             \/ WalkPath(BuildOverlayContext(r), segs) # <<"Null">>
=============================================================================
