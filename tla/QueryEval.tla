----------------------------- MODULE QueryEval ------------------------------
(***************************************************************************)
(* How a SELECT is answered: values and three-valued logic, expressions,   *)
(* row-level security, the single-table path and the relational path with  *)
(* joins, views, CTEs, set operations and subqueries.                      *)
(*                                                                         *)
(* A value carries its storage class; blobs and vectors are left out.      *)
(* Integers have the range -(MaxInt + 1) .. MaxInt, reals are fractions,   *)
(* a text is a sequence of character codes in which 0 .. 9 are the digits. *)
(* An expression is a node with its children in the sequence a, so that    *)
(* the code's walks over every kind of node are walks over a. An error is  *)
(* the value Err or the result Failed; which error it is is left out.      *)
(***************************************************************************)
EXTENDS Integers, Sequences, SequencesExt

CONSTANT MaxInt     \* the largest integer (2^63 - 1 in the code)

ASSUME MaxIntAssumption == MaxInt \in 1 .. 8     \* so an integer renders as one digit

(* -------------------------------- values ------------------------------- *)

Null == [k |-> "null", p |-> <<>>]
Err == [k |-> "error", p |-> <<>>]
I(n) == [k |-> "int", p |-> <<n>>]
T(s) == [k |-> "text", p |-> s]

Magnitude(n) == IF n < 0 THEN -n ELSE n
TruncDiv(a, b) == (Magnitude(a) \div Magnitude(b)) * (IF (a < 0) = (b < 0) THEN 1 ELSE -1)

\* The real n / d, in lowest terms.
Reduced(n, d, g) == [k |-> "real", p |-> <<n \div g, d \div g>>]
R(n, d) ==
    Reduced(n, d, (IF d < 0 THEN -1 ELSE 1) * Max({g \in 1 .. Magnitude(d) : n % g = 0 /\ d % g = 0}))

Fits(n) == n \in -(MaxInt + 1) .. MaxInt
Wrapping(n) == ((n + MaxInt + 1) % (2 * MaxInt + 2)) - (MaxInt + 1)
IsNull(v) == v.k = "null"
IsNumber(v) == v.k \in {"int", "real"}

\* A number as <<numerator, denominator>>; a text is one if it is made of digits.
NumberFraction(v) == IF v.k = "int" THEN <<v.p[1], 1>> ELSE v.p
Fraction(v) ==
    IF IsNumber(v) THEN NumberFraction(v) ELSE <<FoldLeft(LAMBDA n, c : 10 * n + c, 0, v.p), 1>>
IsNumeral(v) == v.k = "text" /\ v.p # <<>> /\ ToSet(v.p) \subseteq 0 .. 9

\* The text of an integer or text; no input here turns a real into text.
Render(v) ==
    IF v.k = "int" THEN (IF v.p[1] < 0 THEN <<45>> ELSE <<>>) \o <<Magnitude(v.p[1])>> ELSE v.p

\* Three truth values: "true", "false", "unknown".
AsBool(v) ==
    CASE IsNull(v) -> "unknown"
      [] IsNumber(v) -> IF v.p[1] # 0 THEN "true" ELSE "false"
      [] v.k = "text" -> IF v.p \notin {<<>>, <<0>>} THEN "true" ELSE "false"
Truth(b) == IF b THEN "true" ELSE "false"
Not3(t) == CASE t = "true" -> "false" [] t = "false" -> "true" [] OTHER -> t
NotIf(neg, t) == IF neg THEN Not3(t) ELSE t
ThreeValuedAnd(s, t) == IF "false" \in {s, t} THEN "false" ELSE IF s = t THEN s ELSE "unknown"
ThreeValuedOr(s, t) == Not3(ThreeValuedAnd(Not3(s), Not3(t)))
Bool(t) == CASE t = "true" -> I(1) [] t = "false" -> I(0) [] OTHER -> Null

\* Whether text s comes before text t.
Precedes(s, t) ==
    \E i \in 1 .. Len(t) : /\ i <= Len(s) + 1
                           /\ \A j \in 1 .. i - 1 : s[j] = t[j]
                           /\ i = Len(s) + 1 \/ s[i] < t[i]

\* "<", "=", ">", or "none" for NULL and for types that do not compare.
CmpFractions(f, g) ==
    IF f[1] * g[2] < g[1] * f[2] THEN "<" ELSE IF f[1] * g[2] = g[1] * f[2] THEN "=" ELSE ">"
SqlCmp(a, b) ==
    CASE IsNumber(a) /\ IsNumber(b) -> CmpFractions(NumberFraction(a), NumberFraction(b))
      [] a.k = "text" /\ b.k = "text" ->
           IF a.p = b.p THEN "=" ELSE IF Precedes(a.p, b.p) THEN "<" ELSE ">"
      [] OTHER -> "none"
SqlEq(a, b) == IF IsNull(a) \/ IsNull(b) THEN "unknown" ELSE Truth(SqlCmp(a, b) = "=")

(* ------------------------------ expressions ---------------------------- *)

Node(k, x, a) == [k |-> k, x |-> x, t |-> "", neg |-> FALSE, a |-> a, q |-> <<>>, v |-> Null]
Lit(v) == [Node("lit", "", <<>>) EXCEPT !.v = v]
Col(n) == Node("column", n, <<>>)
Qualified(t, n) == [Col(n) EXCEPT !.t = t]
Bin(op, l, r) == Node("binary", op, <<l, r>>)
Negated(e) == [e EXCEPT !.neg = TRUE]
Subquery(x, a, q) == [Node("sub", x, a) EXCEPT !.q = <<q>>]
MapChildren(e, F(_)) == [e EXCEPT !.a = [i \in DOMAIN e.a |-> F(e.a[i])]]

\* The row, its namespace, the group, the row behind excluded.* and the session.
\* rel: qualified names select a source; otherwise the qualifier is ignored.
RowCtx(row, cols, who) ==
    [row |-> <<row>>, cols |-> cols, rel |-> FALSE, group |-> <<>>, excluded |-> <<>>, who |-> who]
RootCtx(who) == [RowCtx(<<>>, <<>>, who) EXCEPT !.row = <<>>]
RelCtx(row, cols, who) == [RowCtx(row, cols, who) EXCEPT !.rel = TRUE]
GroupCtx(ctx, rows) ==
    [ctx EXCEPT !.group = <<rows>>, !.row = IF rows = <<>> THEN <<>> ELSE <<rows[1]>>]

Matching(cols, t, n) == {i \in DOMAIN cols : cols[i].n = n /\ t \in {"", cols[i].t}}
NamespaceHas(cols, t, n) == Matching(cols, t, n) # {}

ResolveValue(ctx, e) ==
    LET found == Matching(ctx.cols, IF ctx.rel THEN e.t ELSE "", e.x)
    IN  IF ctx.row = <<>> \/ found = {} \/ (ctx.rel /\ Cardinality(found) > 1)
        THEN Err ELSE ctx.row[1][Min(found)]

\* Fractions a and b with the given operator: x and y are their numerators over
\* the denominator d.
Combined(op, ints, a, b, x, y, d) ==
    CASE op = "+" -> <<x + y, d>>
      [] op = "-" -> <<x - y, d>>
      [] op = "*" -> <<a[1] * b[1], d>>
      [] op = "/" -> IF ints THEN <<TruncDiv(x, y), 1>> ELSE <<x, y>>
      [] op = "%" -> <<x - y * TruncDiv(x, y), d>>
Typed(ints, f) == IF ints /\ Fits(f[1]) THEN I(f[1]) ELSE R(f[1], f[2])
ArithFractions(op, ints, a, b) ==
    CASE op \in {"/", "%"} /\ b[1] = 0 -> Null
      [] op \in {"/", "%"} /\ ints /\ a[1] < -MaxInt /\ b[1] = -1 -> Err
      [] OTHER -> Typed(ints, Combined(op, ints, a, b, a[1] * b[2], b[1] * a[2], a[2] * b[2]))

Arith(op, l, r) ==
    CASE IsNull(l) \/ IsNull(r) -> Null
      [] \E v \in {l, r} : ~(IsNumber(v) \/ IsNumeral(v)) -> Err
      [] OTHER -> ArithFractions(op, l.k = "int" /\ r.k = "int", Fraction(l), Fraction(r))

\* c: how the two sides compare.
Ordering(op, c) ==
    LET holds == CASE op = "<" -> {"<"} [] op = "<=" -> {"<", "="}
                   [] op = ">" -> {">"} [] op = ">=" -> {">", "="}
    IN  IF c = "none" THEN "unknown" ELSE Truth(c \in holds)

EvalBinary(op, l, r) ==
    CASE op \in {"=", "<>"} -> Bool(NotIf(op = "<>", SqlEq(l, r)))
      [] op \in {"<", "<=", ">", ">="} -> Bool(Ordering(op, SqlCmp(l, r)))
      [] op = "and" -> Bool(ThreeValuedAnd(AsBool(l), AsBool(r)))
      [] op = "or"  -> Bool(ThreeValuedOr(AsBool(l), AsBool(r)))
      [] op = "||"  -> IF IsNull(l) \/ IsNull(r) THEN Null ELSE T(Render(l) \o Render(r))
      [] OTHER -> Arith(op, l, r)

EvalUnary(op, v) ==
    CASE op = "not" -> Bool(Not3(AsBool(v)))
      [] op = "-" /\ v.k = "int" -> I(Wrapping(-v.p[1]))
      [] op = "-" /\ v.k = "real" -> R(-v.p[1], v.p[2])
      [] op = "-" /\ IsNull(v) -> Null
      [] OTHER -> Err

\* A text against a pattern of literal codes, "_" (95) and "%" (37).
RECURSIVE LikeGo(_, _)
LikeGo(s, p) ==
    CASE p = <<>> -> s = <<>>
      [] p # <<>> /\ p[1] = 37 -> \E i \in 0 .. Len(s) : LikeGo(SubSeq(s, i + 1, Len(s)), Tail(p))
      [] OTHER -> s # <<>> /\ p[1] \in {95, s[1]} /\ LikeGo(Tail(s), Tail(p))
EvalLike(v, p, neg) ==
    IF v.k = "text" /\ p.k = "text" THEN Bool(Truth(LikeGo(v.p, p.p) # neg)) ELSE Null

\* round half away from zero
Rounded(f) == TruncDiv(2 * f[1] + (IF f[1] < 0 THEN -f[2] ELSE f[2]), 2 * f[2])

CastValue(v, target) ==
    CASE IsNull(v) \/ target = "as is" -> v
      [] target = "int" -> IF IsNumber(v) \/ IsNumeral(v) THEN I(Rounded(Fraction(v))) ELSE Err
      [] target = "real" -> IF IsNumber(v) \/ IsNumeral(v) THEN R(Fraction(v)[1], Fraction(v)[2]) ELSE Err
      [] target = "text" -> T(Render(v))
      [] target = "bool" -> Bool(AsBool(v))

NotNulls(vs) == SelectSeq(vs, LAMBDA v : ~IsNull(v))
Distinct(s) == FoldLeft(LAMBDA acc, v : IF v \in ToSet(acc) THEN acc ELSE Append(acc, v), <<>>, s)

\* The first of vs that none comes before in the given order; NULL if there is none.
Extreme(better, vs) ==
    FoldLeft(LAMBDA m, v : IF IsNull(m) \/ SqlCmp(v, m) = better THEN v ELSE m, Null, vs)
\* GREATEST and LEAST keep the last of arguments that are equal or do not compare.
LastExtreme(want, vs) ==
    FoldLeft(LAMBDA m, v : IF IsNull(m) \/ SqlCmp(m, v) # want THEN v ELSE m, Null, vs)

Abs(v) ==
    CASE IsNull(v) -> Null
      [] v.k = "int" -> I(Wrapping(Magnitude(v.p[1])))
      [] v.k = "real" -> R(Magnitude(v.p[1]), v.p[2])
      [] OTHER -> Err

CallFunc(name, vs) ==
    LET Arg(i) == IF i <= Len(vs) THEN vs[i] ELSE Null
    IN  CASE name = "coalesce" -> FoldLeft(LAMBDA m, v : IF IsNull(m) THEN v ELSE m, Null, vs)
          [] name = "nullif" -> IF SqlEq(Arg(1), Arg(2)) = "true" THEN Null ELSE Arg(1)
          [] name = "ifnull" -> IF IsNull(Arg(1)) THEN Arg(2) ELSE Arg(1)
          [] name = "iif" -> IF Len(vs) # 3 THEN Err
                             ELSE IF AsBool(vs[1]) = "true" THEN vs[2] ELSE vs[3]
          [] name \in {"greatest", "least"} -> LastExtreme(IF name = "greatest" THEN ">" ELSE "<", NotNulls(vs))
          [] name = "abs" -> Abs(Arg(1))
          [] OTHER -> Err

EvalAuth(name, who) == CASE name = "auth.uid" -> who.uid [] name = "auth.role" -> who.role

\* Texts that are no numbers count as 0.
Sum(vs) ==
    LET Frac(v) == IF IsNumber(v) \/ IsNumeral(v) THEN Fraction(v) ELSE <<0, 1>>
        Plus(f, g) == <<f[1] * g[2] + g[1] * f[2], f[2] * g[2]>>
    IN  FoldLeft(LAMBDA f, v : Plus(f, Frac(v)), <<0, 1>>, vs)
Total(func, vs, sum) ==
    CASE func = "avg" -> R(sum[1], sum[2] * Len(vs))
      [] \A v \in ToSet(vs) : v.k = "int" -> I(Wrapping(sum[1]))
      [] OTHER -> R(sum[1], sum[2])

\* vs: the argument's values that are not NULL, in the order of the group's rows.
AggregateOf(func, vs) ==
    CASE func = "count" -> I(Len(vs))
      [] vs = <<>> -> Null
      [] func \in {"min", "max"} -> Extreme(IF func = "max" THEN ">" ELSE "<", vs)
      [] func \in {"sum", "avg"} -> Total(func, vs, Sum(vs))
ComputeAggregate(func, distinct, vals) ==
    CASE Err \in ToSet(vals) -> Err
      [] OTHER -> AggregateOf(func, NotNulls(IF distinct THEN Distinct(vals) ELSE vals))

RECURSIVE Eval(_, _), EvalInList(_, _, _, _, _), EvalCase(_, _, _)

EvalInList(v, list, neg, ctx, sawNull) ==
    IF list = <<>> THEN IF sawNull THEN Null ELSE Bool(Truth(neg))
    ELSE LET item == Eval(list[1], ctx)
         IN  CASE item = Err -> Err
               [] SqlEq(v, item) = "true" -> Bool(Truth(~neg))
               [] OTHER -> EvalInList(v, Tail(list), neg, ctx, sawNull \/ IsNull(item))

\* whens: condition, result, condition, result, ... and perhaps an ELSE. With an
\* operand (<<v>>) a condition is a value it is compared to.
EvalCase(operand, whens, ctx) ==
    CASE whens = <<>> -> Null
      [] Len(whens) = 1 -> Eval(whens[1], ctx)
      [] OTHER ->
           LET cond == Eval(whens[1], ctx)
               matched == IF operand = <<>> THEN AsBool(cond) = "true"
                          ELSE SqlEq(cond, operand[1]) = "true"
           IN  IF cond = Err THEN Err
               ELSE IF matched THEN Eval(whens[2], ctx)
               ELSE EvalCase(operand, SubSeq(whens, 3, Len(whens)), ctx)

Eval(e, ctx) ==
    LET vs == [i \in DOMAIN e.a |-> Eval(e.a[i], ctx)]
    IN  CASE e.k = "lit" -> e.v
          [] e.k = "column" -> ResolveValue(ctx, e)
          [] e.k = "excluded" ->
               IF ctx.excluded = <<>> THEN Err
               ELSE ResolveValue([ctx EXCEPT !.row = ctx.excluded, !.rel = FALSE], e)
          [] e.k = "auth" -> EvalAuth(e.x, ctx.who)
          [] e.k = "in" -> IF vs[1] = Err THEN Err ELSE IF IsNull(vs[1]) THEN Null
                           ELSE EvalInList(vs[1], Tail(e.a), e.neg, ctx, FALSE)
          [] e.k = "case" ->       \* x says whether there is an operand
               IF e.x = "" THEN EvalCase(<<>>, e.a, ctx)
               ELSE IF vs[1] = Err THEN Err ELSE EvalCase(<<vs[1]>>, Tail(e.a), ctx)
          [] e.k = "aggregate" ->  \* neg stands for DISTINCT; no argument is count(*)
               LET Arg(r) == Eval(e.a[1], [ctx EXCEPT !.row = <<r>>, !.group = <<>>])
               IN  IF ctx.group = <<>> THEN Err
                   ELSE IF e.a = <<>> THEN I(Len(ctx.group[1]))
                   ELSE ComputeAggregate(e.x, e.neg, [i \in DOMAIN ctx.group[1] |-> Arg(ctx.group[1][i])])
          [] e.k \in {"sub", "default"} -> Err
          [] OTHER -> IF Err \in ToSet(vs) THEN Err ELSE
               CASE e.k = "unary" -> EvalUnary(e.x, vs[1])
                 [] e.k = "isnull" -> Bool(Truth(IsNull(vs[1]) # e.neg))
                 [] e.k = "like" -> EvalLike(vs[1], vs[2], e.neg)
                 [] e.k = "between" -> Bool(NotIf(e.neg, ThreeValuedAnd(
                          Ordering(">=", SqlCmp(vs[1], vs[2])), Ordering("<=", SqlCmp(vs[1], vs[3])))))
                 [] e.k = "binary" -> EvalBinary(e.x, vs[1], vs[2])
                 [] e.k = "cast" -> CastValue(vs[1], e.x)
                 [] e.k = "func" -> CallFunc(e.x, vs)

RECURSIVE ExprHasSubquery(_), ExprHasAggregate(_), HasErr(_), ShallowRefs(_)
ExprHasSubquery(e) == e.k = "sub" \/ \E c \in ToSet(e.a) : ExprHasSubquery(c)
ExprHasAggregate(e) ==
    e.k = "aggregate" \/ (e.k # "sub" /\ \E c \in ToSet(e.a) : ExprHasAggregate(c))
HasErr(e) == e = Lit(Err) \/ \E c \in ToSet(e.a) : HasErr(c)

\* The columns an expression names, as <<table, column>>, outside its subqueries.
ShallowRefs(e) ==
    CASE e.k = "column" -> {<<e.t, e.x>>}
      [] e.k = "sub" -> {}
      [] OTHER -> UNION {ShallowRefs(c) : c \in ToSet(e.a)}

\* An optional WHERE, HAVING or ON: "true", "false" (also for NULL) or "error".
Verdict(v) == IF v = Err THEN "error" ELSE Truth(AsBool(v) = "true")
Predicate(opt, ctx) == IF opt = <<>> THEN "true" ELSE Verdict(Eval(opt[1], ctx))

(* -------------------------- row-level security ------------------------- *)

PolicyApplies(p, cmd, who) ==
    p.cmd \in {"all", cmd} /\ (p.roles = {} \/ who.role \in p.roles)

\* A bug: only the first policy that applies is asked.
FirstPolicyDecides(tbl, cmd, part, who) ==
    LET mine == SelectSeq(tbl.policies, LAMBDA p : PolicyApplies(p, cmd, who))
    IN  CASE ~tbl.rls \/ who.bypass -> [k |-> "all", preds |-> <<>>]
          [] mine = <<>> -> [k |-> "none", preds |-> <<>>]
          [] OTHER -> [k |-> "some", preds |-> IF part = "check" THEN mine[1].check ELSE mine[1].using]

\* What a session may read (part = "using") or write (part = "check", which
\* falls back to USING): "all", "none", or the rows some predicate admits.
RlsDecision(tbl, cmd, part, who) ==
    LET Pred(p) == IF part = "check" /\ p.check # <<>> THEN p.check ELSE p.using
        Of(mine) == CASE mine = <<>> -> [k |-> "none", preds |-> <<>>]
                      [] \E p \in ToSet(mine) : Pred(p) = <<>> -> [k |-> "all", preds |-> <<>>]
                      [] OTHER -> [k |-> "some", preds |-> [i \in DOMAIN mine |-> Pred(mine[i])[1]]]
    IN  IF ~tbl.rls \/ who.bypass THEN [k |-> "all", preds |-> <<>>]
        ELSE Of(SelectSeq(tbl.policies, LAMBDA p : PolicyApplies(p, cmd, who)))

\* The first predicate that is true or fails decides.
Decided(verdicts) ==
    LET at == {i \in DOMAIN verdicts : verdicts[i] # "false"}
    IN  IF at = {} THEN "false" ELSE verdicts[Min(at)]
Passes(dec, ctx) ==
    IF dec.k = "all" THEN "true"
    ELSE Decided([i \in DOMAIN dec.preds |-> Predicate(<<dec.preds[i]>>, ctx)])
=============================================================================
