------------------------------- MODULE Query --------------------------------
(***************************************************************************)
(* SELECT over a database: run_select chooses between a single-table path, *)
(* a constant path and the relational path, which are separate pipelines   *)
(* in the code and here. db holds the tables (columns, policies and the    *)
(* visible rows in scan order), the views and the session.                 *)
(* Optional clauses are sequences of length at most one. Column types, the *)
(* k-nearest-neighbour path and the case of identifiers are left out.      *)
(***************************************************************************)
EXTENDS QueryEval

Failed == [ok |-> FALSE, cols |-> <<>>, rows |-> <<>>]
Result(cols, rows) == [ok |-> TRUE, cols |-> cols, rows |-> rows]

NoClauses == [with |-> <<>>, distinct |-> FALSE, items |-> <<>>, from |-> <<>>, filter |-> <<>>,
              group |-> <<>>, having |-> <<>>, setops |-> <<>>, order |-> <<>>, limit |-> <<>>,
              offset |-> <<>>]
Source(k, n) == [k |-> k, n |-> n, as |-> n, q |-> <<>>, parts |-> <<>>, kind |-> "", on |-> <<>>,
                 using |-> <<>>]
Item(e) == [star |-> FALSE, qual |-> "", e |-> e, as |-> ""]
Star == [Item(Lit(Null)) EXCEPT !.star = TRUE]

Flat(ss) == FoldLeft(LAMBDA acc, s : acc \o s, <<>>, ss)
AnyErr(ss) == \E s \in ToSet(ss) : Err \in ToSet(s)
Checked(rs) == IF AnyErr(rs.rows) THEN Failed ELSE rs

\* The elements of s whose verdict is "true"; of a result, Failed if one is "error".
Kept(s, verdicts) ==
    LET at == SelectSeq([i \in DOMAIN s |-> i], LAMBDA i : verdicts[i] = "true")
    IN  [j \in DOMAIN at |-> s[at[j]]]
Filtered(rs, verdicts) ==
    IF "error" \in ToSet(verdicts) THEN Failed ELSE [rs EXCEPT !.rows = Kept(@, verdicts)]

(* --------------------------- shared by the paths ------------------------ *)

\* Names of unaliased columns without one of their own.
Positional == <<"col1", "col2", "col3", "col4">>

RECURSIVE ColumnName(_, _, _)
ColumnName(e, as, i) ==
    CASE as # "" -> as
      [] e.k \in {"column", "aggregate", "func"} -> e.x
      [] e.k = "cast" -> ColumnName(e.a[1], "", i)
      [] OTHER -> Positional[i]

StarIncludes(item, col) == item.qual \in {"", col.t}
StarColumns(item, cols) == SelectSeq([i \in DOMAIN cols |-> i], LAMBDA i : StarIncludes(item, cols[i]))

OutputColumns(items, cols) ==
    FoldLeft(LAMBDA acc, item :
               acc \o IF item.star
                      THEN LET at == StarColumns(item, cols) IN [i \in DOMAIN at |-> cols[at[i]].n]
                      ELSE <<ColumnName(item.e, item.as, Len(acc) + 1)>>,
             <<>>, items)

\* One output row; a star over an empty group is an error.
ProjectRow(items, ctx) ==
    Flat([i \in DOMAIN items |->
            IF ~items[i].star THEN <<Eval(items[i].e, ctx)>>
            ELSE IF ctx.row = <<>> THEN <<Err>>
            ELSE LET at == StarColumns(items[i], ctx.cols) IN [j \in DOMAIN at |-> ctx.row[1][at[j]]]])

IsAggregated(sel) ==
    \/ sel.group # <<>> \/ sel.having # <<>>
    \/ \E item \in ToSet(sel.items) : ~item.star /\ ExprHasAggregate(item.e)

\* LIMIT and OFFSET: Null for none, Err, or a number.
AsCount(v) ==
    CASE v.k = "real" -> I(TruncDiv(v.p[1], v.p[2]))
      [] v.k = "text" -> IF IsNumeral(v) THEN I(Fraction(v)[1]) ELSE Err
      [] OTHER -> v
EvalCount(opt, who) == IF opt = <<>> THEN Null ELSE AsCount(Eval(opt[1], RootCtx(who)))

OffsetLimit(rows, limit, offset) ==
    LET Clamped(n) == Min({Max({n, 0}), Len(rows)})
        skip == IF IsNull(offset) THEN 0 ELSE Clamped(offset.p[1])
        keep == IF IsNull(limit) THEN Len(rows) ELSE Clamped(limit.p[1])
    IN  SubSeq(rows, skip + 1, Min({skip + keep, Len(rows)}))

\* Rows after OFFSET and LIMIT of sel, as a result.
Page(cols, rows, limit, offset) ==
    IF Err \in {limit, offset} THEN Failed ELSE Result(cols, OffsetLimit(rows, limit, offset))
Tailed(sel, cols, rows, who) == Page(cols, rows, EvalCount(sel.limit, who), EvalCount(sel.offset, who))

Directed(cmp, asc) ==
    CASE cmp \in {"=", "none"} -> "="
      [] OTHER -> IF asc THEN cmp ELSE IF cmp = "<" THEN ">" ELSE "<"
OrderCmp(a, b, key) ==
    CASE IsNull(a) /\ IsNull(b) -> "="
      [] IsNull(a) -> IF key.nf THEN "<" ELSE ">"
      [] IsNull(b) -> IF key.nf THEN ">" ELSE "<"
      [] OTHER -> Directed(SqlCmp(a, b), key.asc)
SameKeys(e, f, keys, n) == \A j \in 1 .. n : OrderCmp(e.by[j], f.by[j], keys[j]) = "="

\* Entries e with e.by, the values of the sort keys, sorted stably; <<Err>> if a
\* comparison meets a key that failed, which takes two entries.
SortBy(entries, keys) ==
    LET Before(e, f) == \E j \in DOMAIN keys : /\ SameKeys(e, f, keys, j - 1)
                                               /\ OrderCmp(e.by[j], f.by[j], keys[j]) = "<"
        Place(s, e) == Cardinality({i \in DOMAIN s : \E j \in i .. Len(s) : ~Before(e, s[j])})
    IN  IF \E i, j \in DOMAIN entries, n \in DOMAIN keys :
              i # j /\ SameKeys(entries[i], entries[j], keys, n - 1) /\ entries[i].by[n] = Err
        THEN <<Err>>
        ELSE FoldLeft(LAMBDA s, e : InsertAt(s, Place(s, e) + 1, e), <<>>, entries)

\* An ORDER BY key that is an output alias stands for that item.
ResolveAlias(items, e) ==
    LET named == {i \in DOMAIN items : e.k = "column" /\ e.t = "" /\ ~items[i].star /\ items[i].as = e.x}
    IN  IF named = {} THEN e ELSE items[Min(named)].e
OrderKeys(sel, items) ==
    [i \in DOMAIN sel.order |-> [sel.order[i] EXCEPT !.e = ResolveAlias(items, @)]]
KeyValues(keys, ctx) == [i \in DOMAIN keys |-> Eval(keys[i].e, ctx)]

GroupKey(exprs, ctx) == [i \in DOMAIN exprs |-> Eval(exprs[i], ctx)]

\* Groups of rows with equal keys, in the order they are first seen, and their
\* contexts; the rows of the result are the groups. No rows and no GROUP BY: one group.
Groups(rows, keys, exprs) ==
    LET seen == Distinct(keys)
        Of(key) == Kept(rows, [i \in DOMAIN rows |-> Truth(keys[i] = key)])
    IN  IF AnyErr(keys) THEN Failed
        ELSE Result(<<>>, IF exprs = <<>> /\ rows = <<>> THEN <<<<>>>>
                          ELSE [k \in DOMAIN seen |-> Of(seen[k])])
GroupCtxs(base, groups) == [groups EXCEPT !.rows = [i \in DOMAIN @ |-> GroupCtx(base, @[i])]]

\* Of the contexts in ctxs: those that pass opt, and the entries to sort.
Having(ctxs, opt) == Filtered(ctxs, [i \in DOMAIN ctxs.rows |-> Predicate(opt, ctxs.rows[i])])
Entries(ctxs, items, keys) ==
    [ctxs EXCEPT !.rows = [i \in DOMAIN @ |-> [out |-> ProjectRow(items, @[i]), by |-> KeyValues(keys, @[i])]]]
Outputs(entries) == [i \in DOMAIN entries |-> entries[i].out]

(* --------------------------- single-table path -------------------------- *)

OrderGroups(sel, cols, entries, sorted, who) ==
    IF ~entries.ok \/ AnyErr(Outputs(entries.rows)) \/ sorted = <<Err>> THEN Failed
    ELSE Tailed(sel, cols, Outputs(sorted), who)
ProjectGroups(sel, cols, entries, who) ==
    OrderGroups(sel, cols, entries, SortBy(entries.rows, OrderKeys(sel, sel.items)), who)
TableGroups(sel, tbl, matched, who) ==
    Groups(matched, [i \in DOMAIN matched |-> GroupKey(sel.group, RowCtx(matched[i], tbl.cols, who))], sel.group)
GroupedSelect(sel, tbl, matched, who) ==
    ProjectGroups(sel, OutputColumns(sel.items, tbl.cols),
                  Entries(Having(GroupCtxs(RowCtx(<<>>, tbl.cols, who), TableGroups(sel, tbl, matched, who)),
                                 sel.having),
                          sel.items, OrderKeys(sel, sel.items)), who)

\* Plain rows are sorted, paged and only then projected.
ProjectPage(sel, tbl, paged, who) ==
    Checked([paged EXCEPT !.rows = [i \in DOMAIN @ |-> ProjectRow(sel.items, RowCtx(@[i].row, tbl.cols, who))]])
PageMatched(sel, tbl, sorted, who) ==
    IF sorted = <<Err>> THEN Failed
    ELSE ProjectPage(sel, tbl, Tailed(sel, OutputColumns(sel.items, tbl.cols), sorted, who), who)
OrderMatched(sel, tbl, matched, keys, who) ==
    PageMatched(sel, tbl, SortBy([i \in DOMAIN matched |->
        [row |-> matched[i], by |-> KeyValues(keys, RowCtx(matched[i], tbl.cols, who))]], keys), who)

AnswerMatched(sel, tbl, matched, who) ==
    CASE ~matched.ok -> Failed
      [] IsAggregated(sel) -> GroupedSelect(sel, tbl, matched.rows, who)
      [] OTHER -> OrderMatched(sel, tbl, matched.rows, OrderKeys(sel, sel.items), who)

\* The rows of a table that the session may read.
Readable(tbl, who) ==
    Filtered(Result(tbl.cols, tbl.rows),
             [i \in DOMAIN tbl.rows |-> Passes(RlsDecision(tbl, "select", "using", who),
                                              RowCtx(tbl.rows[i], tbl.cols, who))])
Matched(rs, opt, who) ==
    Filtered(rs, [i \in DOMAIN rs.rows |-> Predicate(opt, RowCtx(rs.rows[i], rs.cols, who))])
\* This path ignores the qualifier of a star, as it does that of a column.
Unqualified(sel) == [sel EXCEPT !.items = [i \in DOMAIN @ |-> [@[i] EXCEPT !.qual = ""]]]
SingleTableSelect(db, sel) ==
    LET tbl == db.tables[sel.from[1].n]
    IN  AnswerMatched(Unqualified(sel), tbl, Matched(Readable(tbl, db.who), sel.filter, db.who), db.who)

\* WHERE, ORDER BY, LIMIT and OFFSET are not looked at.
ConstantSelect(db, sel) ==
    IF \E item \in ToSet(sel.items) : item.star \/ ExprHasAggregate(item.e) THEN Failed
    ELSE Checked(Result(OutputColumns(sel.items, <<>>), <<ProjectRow(sel.items, RootCtx(db.who))>>))

SelectHasSubquery(sel) ==
    \/ \E e \in ToSet(sel.filter \o sel.group \o sel.having) : ExprHasSubquery(e)
    \/ \E item \in ToSet(sel.items) : ~item.star /\ ExprHasSubquery(item.e)
    \/ \E key \in ToSet(sel.order) : ExprHasSubquery(key.e)
NeedsRelational(sel) ==
    \/ sel.with # <<>> \/ sel.distinct \/ sel.setops # <<>>
    \/ sel.from # <<>> /\ sel.from[1].k # "table"
    \/ SelectHasSubquery(sel)

(* ---------------------------- relational path --------------------------- *)

Retag(cols, as) == [i \in DOMAIN cols |-> [t |-> as, n |-> cols[i].n]]
RelationFromResult(as, rs) == [rs EXCEPT !.cols = [i \in DOMAIN rs.cols |-> [t |-> as, n |-> rs.cols[i]]]]

\* USING columns as pairs of positions in the combined row; 0 where a name does
\* not pick one column.
UsingPairs(l, r, using) ==
    LET One(cols, n) == IF Cardinality(Matching(cols, "", n)) = 1 THEN Min(Matching(cols, "", n)) ELSE 0
    IN  [i \in DOMAIN using |-> [l |-> One(l.cols, using[i]), r |-> One(r.cols, using[i])]]

RowMatches(l, r, lr, rr, f, who) ==
    LET row == lr \o rr
        pairs == UsingPairs(l, r, f.using)
    IN  IF \E i \in DOMAIN pairs : SqlEq(lr[pairs[i].l], rr[pairs[i].r]) # "true" THEN "false"
        ELSE Predicate(f.on, RelCtx(row, l.cols \o r.cols, who))

\* hit[i][j]: whether row i of l and row j of r match.
JoinMatching(l, r, kind, hit) ==
    LET Nulls(rel) == [i \in DOMAIN rel.cols |-> Null]
        OrNulls(hits, outer, rel) == IF hits = <<>> /\ outer THEN <<Nulls(rel)>> ELSE hits
        LeftOf(j) == [i \in DOMAIN l.rows |-> hit[i][j]]
        OfLeft(i) == LET side == OrNulls(Kept(r.rows, hit[i]), kind \in {"left", "full"}, r)
                     IN  [j \in DOMAIN side |-> l.rows[i] \o side[j]]
        OfRight(j) == LET side == OrNulls(Kept(l.rows, LeftOf(j)), TRUE, l)
                      IN  [i \in DOMAIN side |-> side[i] \o r.rows[j]]
        missed == SelectSeq([j \in DOMAIN r.rows |-> j], LAMBDA j : "true" \notin ToSet(LeftOf(j)))
    IN  CASE \E i \in DOMAIN hit : "error" \in ToSet(hit[i]) -> Failed
          [] kind = "right" -> Result(l.cols \o r.cols, Flat([j \in DOMAIN r.rows |-> OfRight(j)]))
          [] OTHER -> Result(l.cols \o r.cols, Flat([i \in DOMAIN l.rows |-> OfLeft(i)]) \o
                         IF kind = "full" THEN Flat([n \in DOMAIN missed |-> OfRight(missed[n])]) ELSE <<>>)
Join(l, r, f, who) ==
    IF ~l.ok \/ ~r.ok \/ \E p \in ToSet(UsingPairs(l, r, f.using)) : 0 \in {p.l, p.r} THEN Failed
    ELSE JoinMatching(l, r, f.kind, [i \in DOMAIN l.rows |->
                         [j \in DOMAIN r.rows |-> RowMatches(l, r, l.rows[i], r.rows[j], f, who)]])

CombineSetOp(l, r, op, all) ==
    LET Count(row, s) == Cardinality({i \in DOMAIN s : s[i] = row})
        InRight(row) == row \in ToSet(r.rows)
        Nth(i) == Count(l.rows[i], SubSeq(l.rows, 1, i))       \* how often seen so far
        Picked(Keep(_)) ==
            LET at == SelectSeq([i \in DOMAIN l.rows |-> i], Keep)
            IN  [i \in DOMAIN at |-> l.rows[at[i]]]
        rows == CASE op = "union" -> IF all THEN l.rows \o r.rows ELSE Distinct(l.rows \o r.rows)
                  [] op = "intersect" ->
                       IF all THEN Picked(LAMBDA i : Nth(i) <= Count(l.rows[i], r.rows))
                       ELSE Distinct(SelectSeq(l.rows, InRight))
                  [] op = "except" ->
                       IF all THEN Picked(LAMBDA i : Nth(i) > Count(l.rows[i], r.rows))
                       ELSE Distinct(SelectSeq(l.rows, LAMBDA row : ~InRight(row)))
    IN  IF ~l.ok \/ ~r.ok \/ Len(l.cols) # Len(r.cols) THEN Failed ELSE Result(l.cols, rows)

\* ORDER BY of a set operation names an output column or its position.
ApplyOutputOrderLimit(rs, sel, who) ==
    LET Named(n) == {i \in DOMAIN rs.cols : rs.cols[i] = n}
        Position(e) == CASE e.k = "lit" /\ e.v.k = "int" -> IF e.v.p[1] \in DOMAIN rs.cols THEN e.v.p[1] ELSE 0
                         [] e.k = "column" -> IF Named(e.x) = {} THEN 0 ELSE Min(Named(e.x))
                         [] OTHER -> 0
        at == [i \in DOMAIN sel.order |-> Position(sel.order[i].e)]
        sorted == SortBy([j \in DOMAIN rs.rows |->
                            [row |-> rs.rows[j], by |-> [i \in DOMAIN at |-> rs.rows[j][at[i]]]]], sel.order)
    IN  IF ~rs.ok \/ 0 \in ToSet(at) THEN Failed
        ELSE Tailed(sel, rs.cols, [j \in DOMAIN sorted |-> sorted[j].row], who)

SelectShallowRefs(sel) ==
    UNION {ShallowRefs(e) : e \in ToSet(sel.filter \o sel.group \o sel.having)
                                  \cup {item.e : item \in ToSet(sel.items)}
                                  \cup {key.e : key \in ToSet(sel.order)}}

\* e with every column that only the outer row has replaced by its value there.
RECURSIVE BindExpr(_, _, _, _)
BindExpr(e, inner, outer, row) ==
    CASE e.k = "column" ->
           IF NamespaceHas(inner, e.t, e.x) \/ Cardinality(Matching(outer, e.t, e.x)) # 1 THEN e
           ELSE Lit(row[Min(Matching(outer, e.t, e.x))])
      [] e.k = "sub" -> e
      [] OTHER -> MapChildren(e, LAMBDA c : BindExpr(c, inner, outer, row))
\* A bug: the outer row is not bound in WHERE.
BindsItemsOnly(q, inner, outer, row) ==
    [q EXCEPT !.items = [i \in DOMAIN @ |-> [@[i] EXCEPT !.e = BindExpr(@, inner, outer, row)]]]
BindSelect(q, inner, outer, row) ==
    LET B(e) == BindExpr(e, inner, outer, row)
        All(s) == [i \in DOMAIN s |-> B(s[i])]
    IN  [q EXCEPT !.filter = All(@), !.group = All(@), !.having = All(@),
                  !.items = [i \in DOMAIN @ |-> [@[i] EXCEPT !.e = B(@)]],
                  !.order = [i \in DOMAIN @ |-> [@[i] EXCEPT !.e = B(@)]]]

RECURSIVE RunQuery(_, _), EvalCore(_, _, _, _), BuildFrom(_, _, _), ResolveSub(_, _),
          HasCorrelated(_, _, _), FoldCorr(_, _, _, _)

\* A subquery run once and replaced by what it returned.
ReplacedBy(e, rs) ==
    LET list == [i \in DOMAIN rs.rows |-> Lit(rs.rows[i][1])]
    IN  CASE ~rs.ok -> Lit(Err)
          [] e.x = "exists" -> Lit(Bool(Truth((rs.rows # <<>>) # e.neg)))
          [] Len(rs.cols) # 1 -> Lit(Err)
          [] e.x = "in" -> [Node("in", "", <<e.a[1]>> \o list) EXCEPT !.neg = e.neg]
          [] Len(rs.rows) > 1 -> Lit(Err)
          [] OTHER -> IF rs.rows = <<>> THEN Lit(Null) ELSE list[1]
ResolveSubqueryNode(db, e) == ReplacedBy(e, RunQuery(db, e.q[1]))
ResolveSub(db, e) ==
    IF e.k = "sub" THEN ResolveSubqueryNode(db, MapChildren(e, LAMBDA c : ResolveSub(db, c)))
    ELSE MapChildren(e, LAMBDA c : ResolveSub(db, c))

FromNamespace(db, from) == BuildFrom(db, from, <<>>).cols
SubqueryCorrelated(db, q, outer) ==
    \E r \in SelectShallowRefs(q) : /\ ~NamespaceHas(FromNamespace(db, q.from), r[1], r[2])
                                    /\ NamespaceHas(outer, r[1], r[2])
HasCorrelated(db, e, outer) ==
    \/ e.k = "sub" /\ SubqueryCorrelated(db, e.q[1], outer)
    \/ \E c \in ToSet(e.a) : HasCorrelated(db, c, outer)
SelectHasCorrelated(db, sel, outer) ==
    \E e \in ToSet(sel.filter) \cup {item.e : item \in ToSet(sel.items)} : HasCorrelated(db, e, outer)

\* Every subquery of e bound to the outer row and replaced by what it returns.
FoldCorr(db, e, row, outer) ==
    LET below == MapChildren(e, LAMBDA c : FoldCorr(db, c, row, outer))
    IN  IF e.k # "sub" THEN below
        ELSE ResolveSubqueryNode(db, [below EXCEPT !.q[1] = BindSelect(@, FromNamespace(db, @.from), outer, row)])

\* ctes: the CTEs in scope, [name, rel]. The last of equal names counts.
BuildFrom(db, from, ctes) ==
    IF from = <<>> THEN Result(<<>>, <<<<>>>>)
    ELSE LET f == from[1]
             cte == {i \in DOMAIN ctes : ctes[i].name = f.n}
         IN  CASE f.k = "join" ->
                    Join(BuildFrom(db, <<f.parts[1]>>, ctes), BuildFrom(db, <<f.parts[2]>>, ctes), f, db.who)
               [] f.k = "table" /\ cte # {} -> [ctes[Max(cte)].rel EXCEPT !.cols = Retag(@, f.as)]
               [] f.k = "derived" \/ f.n \in DOMAIN db.views ->
                    RelationFromResult(f.as, RunQuery(db, IF f.k = "derived" THEN f.q[1] ELSE db.views[f.n]))
               [] f.n \notin DOMAIN db.tables -> Failed
               [] OTHER -> [Readable(db.tables[f.n], db.who) EXCEPT !.cols = Retag(@, f.as)]

\* A bug: an aggregate over no rows has no group.
NoEmptyGroup(items, group, having, keys, cols, rows, who) ==
    Entries(Result(<<>>, IF rows = <<>> THEN <<>> ELSE <<GroupCtx(RelCtx(<<>>, cols, who), rows)>>), items, keys)

\* Groups that pass HAVING, with their output row and sort keys.
GroupedEntries(items, group, having, keys, cols, rows, who) ==
    Entries(Having(GroupCtxs(RelCtx(<<>>, cols, who),
                             Groups(rows, [i \in DOMAIN rows |-> GroupKey(group, RelCtx(rows[i], cols, who))], group)),
                   having),
            items, keys)

\* Sort keys of a plain row see it as a group of its own (eval_in_group).
FoldItems(db, items, row, cols) ==
    [i \in DOMAIN items |-> [items[i] EXCEPT !.e = FoldCorr(db, @, row, cols)]]
ProjectFolded(items, ctx) ==
    IF \E item \in ToSet(items) : HasErr(item.e) THEN <<Err>> ELSE ProjectRow(items, ctx)
BuildEntries(db, items, keys, cols, rows, correlated) ==
    [i \in DOMAIN rows |->
        [out |-> ProjectFolded(IF correlated THEN FoldItems(db, items, rows[i], cols) ELSE items,
                               RelCtx(rows[i], cols, db.who)),
         by |-> KeyValues(keys, GroupCtx(RelCtx(<<>>, cols, db.who), <<rows[i]>>))]]

\* The stages of a core: its subqueries run once unless one is correlated, WHERE,
\* the entries, and their order. mode: "aggregated", "correlated" or "plain".
ResolveClauses(db, sel) ==
    LET All(s) == [i \in DOMAIN s |-> ResolveSub(db, s[i])]
    IN  [sel EXCEPT !.filter = All(@), !.group = All(@), !.having = All(@),
                    !.items = [i \in DOMAIN @ |-> [@[i] EXCEPT !.e = ResolveSub(db, @)]]]
SelectHasErr(sel) ==
    \E e \in ToSet(sel.filter \o sel.group \o sel.having) \cup {item.e : item \in ToSet(sel.items)} : HasErr(e)

FoldedPredicate(opt, ctx) == IF \E e \in ToSet(opt) : HasErr(e) THEN "error" ELSE Predicate(opt, ctx)
CollectKept(db, filter, rel, mode) ==
    Filtered(rel, [i \in DOMAIN rel.rows |->
        FoldedPredicate(IF mode # "correlated" THEN filter
                        ELSE [j \in DOMAIN filter |-> FoldCorr(db, filter[j], rel.rows[i], rel.cols)],
                        RelCtx(rel.rows[i], rel.cols, db.who))])

CoreTail(sel, cols, rows, tail, who) == IF tail THEN Tailed(sel, cols, rows, who) ELSE Result(cols, rows)
CoreRows(sel, cols, entries, sorted, tail, who) ==
    LET outs == Outputs(sorted)
    IN  IF ~entries.ok \/ AnyErr(Outputs(entries.rows)) \/ sorted = <<Err>> THEN Failed
        ELSE CoreTail(sel, cols, IF sel.distinct THEN Distinct(outs) ELSE outs, tail, who)
CoreSorted(sel, cols, entries, keys, tail, who) ==
    CoreRows(sel, cols, entries, SortBy(entries.rows, keys), tail, who)
CoreEntries(db, sel, kept, mode, tail) ==
    LET keys == IF tail THEN OrderKeys(sel, sel.items) ELSE <<>>
    IN  IF ~kept.ok THEN Failed
        ELSE CoreSorted(sel, OutputColumns(sel.items, kept.cols),
                 IF mode = "aggregated"
                 THEN GroupedEntries(sel.items, sel.group, sel.having, keys, kept.cols, kept.rows, db.who)
                 ELSE Result(<<>>, BuildEntries(db, sel.items, keys, kept.cols, kept.rows, mode = "correlated")),
                 keys, tail, db.who)
CoreKept(db, sel, rel, mode, tail) ==
    IF SelectHasErr(sel) THEN Failed
    ELSE CoreEntries(db, sel, CollectKept(db, sel.filter, rel, mode), mode, tail)
CoreResolved(db, sel, rel, mode, tail) ==
    CoreKept(db, IF mode = "correlated" THEN sel ELSE ResolveClauses(db, sel), rel, mode, tail)
CoreOver(db, sel, rel, tail) ==
    IF ~rel.ok THEN Failed
    ELSE CoreResolved(db, sel, rel, CASE IsAggregated(sel) -> "aggregated"
                                      [] SelectHasCorrelated(db, sel, rel.cols) -> "correlated"
                                      [] OTHER -> "plain", tail)
EvalCore(db, sel, ctes, tail) == CoreOver(db, sel, BuildFrom(db, sel.from, ctes), tail)

\* The clauses WITH and set operation of an arm are not looked at.
CombineArms(sel, arms, who) ==
    IF sel.setops = <<>> THEN arms[1]
    ELSE ApplyOutputOrderLimit(
             FoldLeft(LAMBDA acc, i : CombineSetOp(acc, arms[i + 1], sel.setops[i].op, sel.setops[i].all),
                      arms[1], [i \in DOMAIN sel.setops |-> i]), sel, who)
RunArms(db, sel, ctes) ==
    IF \E c \in ToSet(ctes) : ~c.rel.ok THEN Failed
    ELSE CombineArms(sel, [i \in 1 .. Len(sel.setops) + 1 |->
                             EvalCore(db, IF i = 1 THEN sel ELSE sel.setops[i - 1].q, ctes,
                                      i > 1 \/ sel.setops = <<>>)], db.who)
RunQuery(db, sel) ==
    RunArms(db, sel, [i \in DOMAIN sel.with |->
        [name |-> sel.with[i].name, rel |-> RelationFromResult(sel.with[i].name, RunQuery(db, sel.with[i].q))]])

RunSelect(db, sel) ==
    CASE ~NeedsRelational(sel) /\ sel.from = <<>> -> ConstantSelect(db, sel)
      [] ~NeedsRelational(sel) /\ sel.from # <<>> /\ sel.from[1].n \in DOMAIN db.tables -> SingleTableSelect(db, sel)
      [] OTHER -> RunQuery(db, sel)
=============================================================================
