------------------------------ MODULE SqlExec -------------------------------
(***************************************************************************)
(* A session that runs INSERT, UPDATE and DELETE statements against a      *)
(* small database, one at a time and each in its own transaction, under    *)
(* row-level security. A statement is a function of the database and the   *)
(* session: it is rejected or it replaces the rows of its table. How       *)
(* concurrent transactions interact is the subject of MvccStore.           *)
(***************************************************************************)
EXTENDS Query

CONSTANTS
    Tables,      \* name -> columns, keys, CHECKs, policies (and no rows)
    Views,       \* name -> query
    Sessions,    \* principals a connection may take on
    Statements,  \* the INSERT, UPDATE and DELETE statements that may be run
    Probes,      \* SELECTs asked in every state
    Predicates,  \* WHERE conditions to split a probe by
    MaxRows,     \* rows a table may hold
    MaxStatements \* statements that are run (with MaxRows, bounds the state space)

VARIABLES
    rows,        \* table -> its live rows in scan order
    nextAutoinc, \* table -> next_autoinc
    who,         \* the session's principal
    upserted,    \* whether a REPLACE, DO NOTHING or DO UPDATE has run (history)
    left         \* statements that may still be run

vars == <<rows, nextAutoinc, who, upserted, left>>

Db(w) == [tables |-> [t \in DOMAIN Tables |-> [Tables[t] EXCEPT !.rows = rows[t]]],
          views |-> Views, who |-> w]

(* ------------------------------ constraints ----------------------------- *)

Coerce(ty, v) ==
    CASE ty = "real" /\ v.k = "int" -> R(v.p[1], 1)
      [] ty = "int" /\ v.k = "real" /\ v.p[2] = 1 -> I(v.p[1])
      [] OTHER -> v

CheckNotNull(tbl, row) == \A i \in DOMAIN row : tbl.cols[i].notnull => ~IsNull(row[i])

\* A CHECK is violated only if it is false; a CHECK that fails is an error too.
CheckAccepts(v) == v # Err /\ AsBool(v) # "false"
CheckRowConstraints(tbl, row, w) ==
    \A c \in ToSet(tbl.checks) : CheckAccepts(Eval(c, RowCtx(row, tbl.cols, w)))
CompositeKey(row, set) == [i \in set |-> row[i]]

\* A bug: the rows of the statement are not compared with each other.
UniqueAgainstOldRows(tbl, olds, news) ==
    \A set \in tbl.uniques \ {tbl.pk}, r \in ToSet(olds), s \in ToSet(news) :
        (\A i \in set : ~IsNull(s[i])) => CompositeKey(r, set) # CompositeKey(s, set)

\* Adding news one by one to olds, no two rows have the same non-NULL key.
CheckSecondaryUniques(tbl, olds, news) ==
    \A set \in tbl.uniques \ {tbl.pk} :
        LET Keyed(s) == SelectSeq(s, LAMBDA r : \A i \in set : ~IsNull(r[i]))
            seen == Keyed(olds)
            mine == Keyed(news)
            Key(r) == CompositeKey(r, set)
        IN  \A j \in DOMAIN mine : /\ \A r \in ToSet(seen) : Key(r) # Key(mine[j])
                                   /\ \A i \in 1 .. j - 1 : Key(mine[i]) # Key(mine[j])

\* A bug: a new row is tested with USING where the policy has a WITH CHECK.
EnforceUsing(tbl, cmd, row, w) ==
    Passes(RlsDecision(tbl, cmd, "using", w), RowCtx(row, tbl.cols, w)) = "true"

EnforceRlsWrite(tbl, cmd, row, w) ==
    Passes(RlsDecision(tbl, cmd, "check", w), RowCtx(row, tbl.cols, w)) = "true"

\* What a statement did: accepted or not, the table's rows, the counter, the rows
\* to return and the rows it removed and added.
Rejected(olds, auto) ==
    [ok |-> FALSE, rows |-> olds, auto |-> auto, returned |-> <<>>, removed |-> <<>>, added |-> <<>>]

RlsFilterReturning(tbl, affected, w) ==
    Kept(affected, [i \in DOMAIN affected |-> Passes(RlsDecision(tbl, "select", "using", w),
                                                    RowCtx(affected[i], tbl.cols, w))])
ProjectRows(items, tbl, shown, w) == [i \in DOMAIN shown |-> ProjectRow(items, RowCtx(shown[i], tbl.cols, w))]
ProjectReturning(s, tbl, affected, w) ==
    IF s.returning = <<>> THEN <<>> ELSE ProjectRows(s.returning, tbl, RlsFilterReturning(tbl, affected, w), w)

(* -------------------------------- INSERT -------------------------------- *)

\* One slot per column: <<value>>, or <<>> for the column's default.
SlotsOf(s, tbl, lines) ==
    LET targets == IF s.columns = <<>> THEN [i \in DOMAIN tbl.cols |-> i] ELSE s.columns
        At(c) == {i \in DOMAIN targets : targets[i] = c}
        Slots(line) == [c \in DOMAIN tbl.cols |->
                          IF line = <<>> \/ At(c) = {} THEN <<>> ELSE line[Max(At(c))]]
    IN  IF \/ ~lines.ok
           \/ \E line \in ToSet(lines.rows) : Len(line) # Len(targets)
                                             /\ (line # <<>> \/ s.columns # <<>> \/ s.query # <<>>)
           \/ \E line \in ToSet(lines.rows) : <<Err>> \in ToSet(line)
        THEN [ok |-> FALSE, slots |-> <<>>]
        ELSE [ok |-> TRUE, slots |-> [j \in DOMAIN lines.rows |-> Slots(lines.rows[j])]]
QueryLines(rs) == [rs EXCEPT !.rows = [j \in DOMAIN @ |-> [i \in DOMAIN @[j] |-> <<@[j][i]>>]]]
ValueLines(values, w) ==
    Result(<<>>, [j \in DOMAIN values |-> [i \in DOMAIN values[j] |->
        IF values[j][i].k = "default" THEN <<>> ELSE <<Eval(values[j][i], RootCtx(w))>>]])
BuildInsertSlots(s, tbl, db) ==
    SlotsOf(s, tbl, IF s.query # <<>> THEN QueryLines(RunSelect(db, s.query[1])) ELSE ValueLines(s.values, db.who))

\* A given value moves the counter past itself, a missing one takes the counter.
FinalizeCell(col, slot, auto) ==
    CASE slot # <<>> -> Coerce(col.ty, slot[1])
      [] slot = <<>> /\ col.auto -> I(auto)
      [] OTHER -> Coerce(col.ty, col.dflt)
NextAuto(col, slot, auto) ==
    CASE ~col.auto -> auto
      [] slot = <<>> -> auto + 1
      [] OTHER -> IF Coerce(col.ty, slot[1]).k = "int" THEN Max({auto, Coerce(col.ty, slot[1]).p[1] + 1}) ELSE auto

FinalizeRow(tbl, slot, auto) ==
    FoldLeft(LAMBDA acc, i : [row |-> Append(acc.row, FinalizeCell(tbl.cols[i], slot[i], acc.auto)),
                              auto |-> NextAuto(tbl.cols[i], slot[i], acc.auto)],
             [row |-> <<>>, auto |-> auto], [i \in DOMAIN tbl.cols |-> i])
Stage(tbl, acc, r, w) ==
    IF acc.ok /\ CheckNotNull(tbl, r.row) /\ CheckRowConstraints(tbl, r.row, w)
    THEN [ok |-> TRUE, rows |-> Append(acc.rows, r.row), auto |-> r.auto]
    ELSE [acc EXCEPT !.ok = FALSE]
FinalizeInsertRows(tbl, slots, auto, w) ==
    FoldLeft(LAMBDA acc, slot : Stage(tbl, acc, FinalizeRow(tbl, slot, acc.auto), w),
             [ok |-> TRUE, rows |-> <<>>, auto |-> auto], slots)

\* row with the SET assignments applied, each evaluated in ctx.
Assigned(tbl, row, sets, ctx) ==
    FoldLeft(LAMBDA r, set : [r EXCEPT ![set.c] = Coerce(tbl.cols[set.c].ty, Eval(set.e, ctx))], row, sets)

\* The row DO UPDATE makes of the existing one: <<>> if its WHERE says no. CHECK,
\* UNIQUE, the new primary key and the UPDATE policies are not looked at.
Upserted(tbl, verdict, nv) ==
    CASE verdict = "error" -> [ok |-> FALSE, row |-> <<>>]
      [] verdict = "false" -> [ok |-> TRUE, row |-> <<>>]
      [] OTHER -> [ok |-> Err \notin ToSet(nv) /\ CheckNotNull(tbl, nv), row |-> <<nv>>]
UpsertUpdate(s, tbl, existing, proposed, w) ==
    LET ctx == [RowCtx(existing, tbl.cols, w) EXCEPT !.excluded = <<proposed>>]
    IN  Upserted(tbl, Predicate(s.filter, ctx), Assigned(tbl, existing, s.sets, ctx))

\* acc.all: every version so far with whether it is live; its index is its vid.
\* acc.live: the vid each key is known under. The key of a produced row is the
\* proposed one, also when DO UPDATE gave the row another.
AddVersion(acc, key, row) ==
    [acc EXCEPT !.all = Append(@, [row |-> row, live |-> TRUE]),
                !.live = Append(@, [key |-> key, vid |-> Len(acc.all) + 1]),
                !.affected = Append(@, row)]
SwapVersion(acc, key, old, up) ==
    CASE ~up.ok -> [acc EXCEPT !.ok = FALSE]
      [] up.row = <<>> -> acc
      [] OTHER -> AddVersion([acc EXCEPT !.all[old].live = FALSE], key, up.row[1])
ApplyInsertRow(s, tbl, w, acc, vals) ==
    LET key == CompositeKey(vals, tbl.pk)
        clash == IF tbl.pk # {} THEN {e.vid : e \in {x \in ToSet(acc.live) : x.key = key}} ELSE {}
        old == Max(clash)
    IN  CASE ~acc.ok -> acc
          [] clash = {} -> AddVersion(acc, key, vals)
          [] s.conflict = "error" -> [acc EXCEPT !.ok = FALSE]
          [] s.conflict = "nothing" -> acc
          [] s.conflict \in {"replace", "update"} ->
               SwapVersion(acc, key, old, IF s.conflict = "replace" THEN [ok |-> TRUE, row |-> <<vals>>]
                                          ELSE UpsertUpdate(s, tbl, acc.all[old].row, vals, w))

ApplyInsert(s, tbl, staged, w) ==
    FoldLeft(LAMBDA acc, vals : ApplyInsertRow(s, tbl, w, acc, vals),
             [ok |-> TRUE, affected |-> <<>>,
              all |-> [i \in DOMAIN tbl.rows |-> [row |-> tbl.rows[i], live |-> TRUE]],
              live |-> [i \in DOMAIN tbl.rows |-> [key |-> CompositeKey(tbl.rows[i], tbl.pk), vid |-> i]]],
             staged)

FinishInsert(s, tbl, staged, done, w) ==
    LET live == SelectSeq(done.all, LAMBDA v : v.live)
        gone == SelectSeq(SubSeq(done.all, 1, Len(tbl.rows)), LAMBDA v : ~v.live)
    IN  IF ~done.ok THEN Rejected(tbl.rows, staged.auto)
        ELSE [ok |-> TRUE, rows |-> [i \in DOMAIN live |-> live[i].row], auto |-> staged.auto,
              returned |-> ProjectReturning(s, tbl, done.affected, w),
              removed |-> [i \in DOMAIN gone |-> gone[i].row], added |-> done.affected]
InsertStaged(s, tbl, staged, auto, w) ==
    CASE ~staged.ok -> Rejected(tbl.rows, auto)
      [] \/ \E r \in ToSet(staged.rows) : ~EnforceRlsWrite(tbl, "insert", r, w)
         \/ s.conflict = "error" /\ ~CheckSecondaryUniques(tbl, tbl.rows, staged.rows) ->
           Rejected(tbl.rows, staged.auto)
      [] OTHER -> FinishInsert(s, tbl, staged, ApplyInsert(s, tbl, staged.rows, w), w)
InsertBuilt(s, tbl, built, auto, w) ==
    IF ~built.ok THEN Rejected(tbl.rows, auto)
    ELSE InsertStaged(s, tbl, FinalizeInsertRows(tbl, built.slots, auto, w), auto, w)
RunInsert(s, db, auto) ==
    LET tbl == db.tables[s.table]
    IN  InsertBuilt(s, tbl, BuildInsertSlots(s, tbl, db), auto, db.who)

(* --------------------------- UPDATE and DELETE -------------------------- *)

\* The contexts WHERE is evaluated in for a target row: the row itself, or the row
\* with each row of the FROM or USING source.
TargetCtxs(s, tbl, row, source, w) ==
    IF s.from = <<>> THEN <<RowCtx(row, tbl.cols, w)>>
    ELSE [i \in DOMAIN source.rows |->
            RelCtx(row \o source.rows[i], Retag(tbl.cols, s.table) \o source.cols, w)]

\* The first context that WHERE does not reject, and what it says there.
FirstHit(ctxs, verdicts) ==
    LET at == {j \in DOMAIN ctxs : verdicts[j] # "false"}
    IN  IF at = {} THEN [v |-> "false", ctx |-> <<>>] ELSE [v |-> verdicts[Min(at)], ctx |-> ctxs[Min(at)]]
HitIn(filter, ctxs) == FirstHit(ctxs, [j \in DOMAIN ctxs |-> Predicate(filter, ctxs[j])])

\* Target rows USING lets the command touch and WHERE selects, by index, each with
\* the first context that selects it, as the rows of a result.
SelectTargets(hits, permitted) ==
    Filtered(Result(<<>>, [i \in DOMAIN hits |-> [i |-> i, ctx |-> hits[i].ctx]]),
             [i \in DOMAIN hits |-> IF permitted[i] = "true" THEN hits[i].v ELSE permitted[i]])
TargetsIn(s, tbl, source, w) ==
    IF ~source.ok THEN Failed
    ELSE SelectTargets([i \in DOMAIN tbl.rows |-> HitIn(s.filter, TargetCtxs(s, tbl, tbl.rows[i], source, w))],
                       [i \in DOMAIN tbl.rows |-> Passes(RlsDecision(tbl, s.k, "using", w),
                                                        RowCtx(tbl.rows[i], tbl.cols, w))])
Targets(s, db, tbl) == TargetsIn(s, tbl, BuildFrom(db, s.from, <<>>), db.who)

ComputeUpdates(s, tbl, hits) ==
    [j \in DOMAIN hits |-> Assigned(tbl, tbl.rows[hits[j].i], s.sets, hits[j].ctx)]

CheckUpdateUniques(tbl, kept, news) ==
    LET Key(r) == CompositeKey(r, tbl.pk)
    IN  /\ tbl.pk # {} => \A j \in DOMAIN news : /\ \A r \in ToSet(kept) : Key(r) # Key(news[j])
                                                 /\ \A i \in 1 .. j - 1 : Key(news[i]) # Key(news[j])
        /\ CheckSecondaryUniques(tbl, kept, news)

Untouched(tbl, hits) ==
    LET at == SelectSeq([i \in DOMAIN tbl.rows |-> i], LAMBDA i : \A h \in ToSet(hits) : h.i # i)
    IN  [j \in DOMAIN at |-> tbl.rows[at[j]]]

OldRows(tbl, hits) == [j \in DOMAIN hits |-> tbl.rows[hits[j].i]]

UpdateTo(s, tbl, hits, news, auto, w) ==
    LET kept == Untouched(tbl, hits)
    IN  IF \/ \E r \in ToSet(news) : \/ Err \in ToSet(r)
                                     \/ ~CheckNotNull(tbl, r)
                                     \/ ~CheckRowConstraints(tbl, r, w)
                                     \/ ~EnforceRlsWrite(tbl, "update", r, w)
           \/ ~CheckUpdateUniques(tbl, kept, news)
        THEN Rejected(tbl.rows, auto)
        ELSE [ok |-> TRUE, rows |-> kept \o news, auto |-> auto,
              returned |-> ProjectReturning(s, tbl, news, w), removed |-> OldRows(tbl, hits), added |-> news]
UpdateFound(s, tbl, found, auto, w) ==
    IF ~found.ok THEN Rejected(tbl.rows, auto)
    ELSE UpdateTo(s, tbl, found.rows, ComputeUpdates(s, tbl, found.rows), auto, w)
RunUpdate(s, db, auto) ==
    LET tbl == db.tables[s.table] IN UpdateFound(s, tbl, Targets(s, db, tbl), auto, db.who)

DeleteFound(s, tbl, found, auto, w) ==
    LET gone == OldRows(tbl, found.rows)
    IN  IF ~found.ok THEN Rejected(tbl.rows, auto)
        ELSE [ok |-> TRUE, rows |-> Untouched(tbl, found.rows), auto |-> auto,
              returned |-> ProjectReturning(s, tbl, gone, w), removed |-> gone, added |-> <<>>]
RunDelete(s, db, auto) ==
    LET tbl == db.tables[s.table] IN DeleteFound(s, tbl, Targets(s, db, tbl), auto, db.who)

(* -------------------------------- machine ------------------------------- *)

Init ==
    /\ rows = [t \in DOMAIN Tables |-> <<>>]
    /\ nextAutoinc = [t \in DOMAIN Tables |-> 1]
    /\ who \in Sessions
    /\ upserted = FALSE
    /\ left = MaxStatements

\* Statement s ends with the outcome o.
Execute(s, o) ==
    /\ left > 0
    /\ Len(o.rows) <= MaxRows
    /\ left' = left - 1
    /\ rows' = [rows EXCEPT ![s.table] = o.rows]
    /\ nextAutoinc' = [nextAutoinc EXCEPT ![s.table] = o.auto]
    /\ upserted' = (upserted \/ (o.ok /\ s.k = "insert" /\ s.conflict # "error"))
    /\ UNCHANGED who

SetSession(w) == who' = w /\ UNCHANGED <<rows, nextAutoinc, upserted, left>>

Insert == \E s \in Statements : s.k = "insert" /\ Execute(s, RunInsert(s, Db(who), nextAutoinc[s.table]))
Update == \E s \in Statements : s.k = "update" /\ Execute(s, RunUpdate(s, Db(who), nextAutoinc[s.table]))
Delete == \E s \in Statements : s.k = "delete" /\ Execute(s, RunDelete(s, Db(who), nextAutoinc[s.table]))
Switch == \E w \in Sessions : SetSession(w)

Next == Insert \/ Update \/ Delete \/ Switch

Spec == Init /\ [][Next]_vars

(* ------------------------------ properties ------------------------------ *)

Keyed(tbl, s) == \A set \in tbl.uniques : \A i, j \in DOMAIN s :
    /\ i # j
    /\ set # tbl.pk => \A c \in set : ~IsNull(s[i][c])
    => CompositeKey(s[i], set) # CompositeKey(s[j], set)

\* A row never has NULL in a NOT NULL column; and as long as no insert with a
\* conflict clause has run, every CHECK holds of every row and no two rows share
\* a primary or a unique key (the validation passes of run_insert, run_update).
ConstraintsHold ==
    \A t \in DOMAIN Tables :
        /\ \A r \in ToSet(rows[t]) : CheckNotNull(Tables[t], r)
        /\ ~upserted => /\ \A r \in ToSet(rows[t]) : CheckRowConstraints(Tables[t], r, who)
                        /\ Keyed(Tables[t], rows[t])

\* The CHECK constraints alone, whatever has run.
ChecksHold ==
    \A t \in DOMAIN Tables : \A r \in ToSet(rows[t]) : CheckRowConstraints(Tables[t], r, who)

\* Row-level security as the policies state it: an applicable policy admits row r.
Admits(tbl, cmd, part, r) ==
    \/ ~tbl.rls \/ who.bypass
    \/ \E p \in ToSet(tbl.policies) :
          /\ PolicyApplies(p, cmd, who)
          /\ LET pred == IF part = "check" /\ p.check # <<>> THEN p.check ELSE p.using
             IN  pred = <<>> \/ AsBool(Eval(pred[1], RowCtx(r, tbl.cols, who))) = "true"

Permitted(s, o) ==
    LET tbl == Tables[s.table]
        plain == s.k # "insert" \/ s.conflict \in {"error", "nothing"}
    IN  o.ok => /\ plain => /\ \A r \in ToSet(o.removed) : Admits(tbl, s.k, "using", r)
                            /\ \A r \in ToSet(o.added) : Admits(tbl, s.k, "check", r)
                /\ s.returning = <<Star>> =>
                     \A r \in ToSet(o.returned) : Admits(tbl, "select", "using", r)

\* What a statement would change is what the policies permit: rows it removes are
\* open to its command, rows it adds pass WITH CHECK, rows it returns can be read.
\* (An insert with a conflict clause only has its proposed rows checked.)
WritesPermitted ==
    \A s \in Statements :
        CASE s.k = "insert" -> Permitted(s, RunInsert(s, Db(who), nextAutoinc[s.table]))
          [] s.k = "update" -> Permitted(s, RunUpdate(s, Db(who), nextAutoinc[s.table]))
          [] s.k = "delete" -> Permitted(s, RunDelete(s, Db(who), nextAutoinc[s.table]))

\* A query answered under row-level security is the query answered without it
\* over a database that holds only the rows the session may read: through joins,
\* views, CTEs and subqueries alike (rls_read in both paths).
HiddenRowsDoNotCount ==
    LET open == [Db([who EXCEPT !.bypass = TRUE]) EXCEPT
                   !.tables = [t \in DOMAIN @ |->
                       [@[t] EXCEPT !.rows = SelectSeq(@, LAMBDA r : Admits(Tables[t], "select", "using", r))]]]
    IN  \A q \in Probes : Cardinality({RunSelect(db, q) : db \in {Db(who), open}}) = 1

\* What the relational path answers, the single-table path answers with the same
\* columns and the same rows in the same order. (It pages before it projects, so it
\* may also answer where the other one fails.)
AgreeOn(q) ==
    q.from # <<>> /\ ~NeedsRelational(q) =>
        \A relational \in {RunQuery(Db(who), q)} : relational.ok => RunSelect(Db(who), q) = relational

\* Stars are of the table itself, and rows that are not grouped are not sorted by an
\* aggregate: the paths read a qualifier and a sort key differently (star_includes,
\* eval_in_group).
ReadAlike(q) ==
    /\ \A item \in ToSet(q.items) : item.star => item.qual \in {"", q.from[1].as}
    /\ IsAggregated(q) \/ \A key \in ToSet(OrderKeys(q, q.items)) : ~ExprHasAggregate(key.e)

\* The two paths agree on every query both can take and read alike, in every database
\* the statements can build and for every role.
PathsAgree == \A q \in Probes : ReadAlike(q) => AgreeOn(q)

\* As the comment on the relational path has it, which says that it runs the same
\* filter, group, project and order pipeline: they agree on all of them.
PathsAlwaysAgree == \A q \in Probes : AgreeOn(q)

Times(s, r) == Cardinality({i \in DOMAIN s : s[i] = r})
SameBag(s, t) == \A r \in ToSet(s \o t) : Times(s, r) = Times(t, r)
Where(q, e) == [q EXCEPT !.filter = IF @ = <<>> THEN <<e>> ELSE <<Bin("and", @[1], e)>>]

IsPlain(q) == /\ ~IsAggregated(q) /\ ~q.distinct /\ q.from # <<>>
              /\ q.limit = <<>> /\ q.offset = <<>> /\ q.setops = <<>>

SetOp(q, op, r) == [q EXCEPT !.setops = <<[op |-> op, all |-> TRUE, q |-> r]>>]
Joined(kind, on) ==
    [NoClauses EXCEPT !.items = <<Star>>,
                      !.from = <<[Source("join", "") EXCEPT
                                    !.parts = <<Source("table", "a"), Source("table", "b")>>,
                                    !.kind = kind, !.on = on]>>]
AllOf(t) == [NoClauses EXCEPT !.items = <<Star>>, !.from = <<Source("table", t)>>]
OneColumn(t, e) == [AllOf(t) EXCEPT !.items = <<Item(e)>>]

\* Queries to run one after the other: a law says that if those of the second list
\* are answered, so are those of the first, with the same rows, each as often.
Partition(q, p) ==
    <<<<q>>, <<Where(q, p), Where(q, Node("unary", "not", <<p>>)), Where(q, Node("isnull", "", <<p>>))>>>>
Laws ==
    LET ax == OneColumn("a", Col("x"))
        bx == OneColumn("b", Col("x"))
        on == <<Bin("=", Qualified("a", "x"), Qualified("b", "x"))>>
        exists == Subquery("exists", <<>>, Where(OneColumn("b", Lit(I(1))), on[1]))
        among == Subquery("in", <<Qualified("a", "x")>>, bx)
    IN  {<<<<ax>>, <<SetOp(ax, "intersect", bx), SetOp(ax, "except", bx)>>>>,
         <<<<Joined("full", on), Joined("inner", on)>>, <<Joined("left", on), Joined("right", on)>>>>,
         <<<<Where(AllOf("a"), exists)>>, <<Where(AllOf("a"), among)>>>>}
        \cup {Partition(q, p) : q \in {r \in Probes : IsPlain(r)}, p \in Predicates}

\* The laws the relational operators obey as bags, in every database the
\* statements can build and for every role: A is A INTERSECT ALL B with A EXCEPT
\* ALL B, a full join with the inner one is the left with the right one, a
\* correlated EXISTS keeps the rows the equivalent IN keeps, and a condition, its
\* NOT and its IS NULL partition a query unless one of them fails.
RelationalLaws ==
    \A law \in Laws :
        \A answers \in {[side \in {1, 2} |-> [i \in DOMAIN law[side] |-> RunSelect(Db(who), law[side][i])]]} :
            LET Rows(side) == Flat([i \in DOMAIN answers[side] |-> answers[side][i].rows])
                Answered(side) == \A i \in DOMAIN answers[side] : answers[side][i].ok
            IN  Answered(2) => Answered(1) /\ SameBag(Rows(1), Rows(2))
=============================================================================
