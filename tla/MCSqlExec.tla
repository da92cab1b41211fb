----------------------------- MODULE MCSqlExec ------------------------------
(***************************************************************************)
(* Two tables: a (id, x, own) with an autoincrement key, a UNIQUE x, a     *)
(* CHECK and policies on own; b (id, x) with a REAL x. A view over a, two  *)
(* principals besides the bypassing one, and the statements and queries    *)
(* run against them.                                                       *)
(***************************************************************************)
EXTENDS SqlExec

Ann == T(<<10>>)
Bob == T(<<11>>)
Anon == T(<<12>>)

Column(t, n, ty) == [t |-> t, n |-> n, ty |-> ty, notnull |-> FALSE, dflt |-> Null, auto |-> FALSE]
Own == Bin("=", Col("own"), Node("auth", "auth.uid", <<>>))
Policy(cmd, using, check) == [cmd |-> cmd, roles |-> {Ann, Bob}, using |-> using, check |-> check]

MCTables ==
    [a |-> [cols |-> <<[Column("a", "id", "int") EXCEPT !.auto = TRUE, !.notnull = TRUE],
                       Column("a", "x", "int"),
                       [Column("a", "own", "text") EXCEPT !.dflt = Ann]>>,
            pk |-> {1}, uniques |-> {{1}, {2}}, checks |-> <<Bin(">=", Col("x"), Lit(I(0)))>>,
            rls |-> TRUE,
            policies |-> <<Policy("select", <<Node("isnull", "", <<Col("x")>>)>>, <<>>),
                           Policy("all", <<Own>>, <<>>),
                           Policy("update", <<Node("isnull", "", <<Col("x")>>)>>, <<Lit(I(0))>>)>>,
            rows |-> <<>>],
     b |-> [cols |-> <<Column("b", "x", "real"), Column("b", "y", "int")>>,
            pk |-> {}, uniques |-> {}, checks |-> <<>>, rls |-> FALSE, policies |-> <<>>, rows |-> <<>>]]

Id == Col("id")
X == Col("x")
Agg(f, e) == Node("aggregate", f, <<e>>)
CountStar == Node("aggregate", "count", <<>>)
By(e) == [e |-> e, asc |-> TRUE, nf |-> FALSE]
As(e, n) == [Item(e) EXCEPT !.as = n]
Half == [NoClauses EXCEPT !.items = <<As(X, "x"), As(CountStar, "n")>>, !.from = <<Source("table", "a")>>,
                          !.group = <<X>>]

MCViews == [v |-> OneColumn("a", X)]

MCSessions ==
    {[role |-> Ann, uid |-> Ann, bypass |-> FALSE], [role |-> Bob, uid |-> Bob, bypass |-> FALSE],
     [role |-> Anon, uid |-> Null, bypass |-> TRUE]}

Statement(k, t) ==
    [k |-> k, table |-> t, columns |-> <<>>, values |-> <<>>, query |-> <<>>, conflict |-> "error",
     sets |-> <<>>, from |-> <<>>, filter |-> <<>>, returning |-> <<>>]
InsertA(es) == [Statement("insert", "a") EXCEPT !.values = <<es>>, !.returning = <<Star>>]
Deflt == Node("default", "", <<>>)
MyUid == Node("auth", "auth.uid", <<>>)
Excluded(n) == Node("excluded", n, <<>>)
Set(c, e) == [c |-> c, e |-> e]

PlainStatements ==
    {InsertA(<<Deflt, Lit(Null), Lit(Bob)>>),
     [InsertA(<<Lit(R(1, 1)), MyUid>>) EXCEPT !.columns = <<2, 3>>],
     InsertA(<<Lit(I(1)), Lit(I(0)), Deflt>>),
     InsertA(<<Lit(Null), Lit(I(0)), MyUid>>),
     [Statement("insert", "b") EXCEPT !.values = <<<<Lit(I(1)), Lit(T(<<10>>))>>, <<Lit(R(1, 2)), Lit(I(2))>>>>],
     [Statement("insert", "b") EXCEPT !.query = <<[OneColumn("a", X) EXCEPT !.items = @ \o <<Item(Id)>>]>>],
     [Statement("update", "a") EXCEPT !.sets = <<Set(2, Bin("-", X, Lit(I(1))))>>, !.returning = <<Item(X)>>],
     [Statement("update", "a") EXCEPT !.sets = <<Set(1, Bin("+", Id, Lit(I(1)))), Set(2, Lit(Null))>>,
                                      !.filter = <<Node("isnull", "", <<X>>)>>],
     [Statement("update", "a") EXCEPT !.sets = <<Set(2, Qualified("b", "y")), Set(3, Lit(Bob))>>,
                                      !.from = <<Source("table", "b")>>,
                                      !.filter = <<Bin("=", Qualified("a", "x"), Qualified("b", "x"))>>,
                                      !.returning = <<Star>>],
     [Statement("delete", "a") EXCEPT !.filter = <<Bin("<", X, Lit(I(1)))>>, !.returning = <<Star>>],
     [Statement("delete", "a") EXCEPT !.from = <<Source("table", "b")>>,
                                      !.filter = <<Bin("=", Id, Col("y"))>>],
     [Statement("update", "a") EXCEPT !.sets = <<Set(2, Lit(I(0)))>>],
     Statement("delete", "b")}

MCStatements ==
    PlainStatements \cup
    {[InsertA(<<Lit(I(1)), Lit(I(1)), MyUid>>) EXCEPT !.conflict = c,
                                                       !.sets = <<Set(2, Bin("+", X, Excluded("x")))>>] :
        c \in {"nothing", "replace", "update"}}

UpsertStatements ==
    {InsertA(<<Lit(I(1)), Lit(I(0)), MyUid>>),
     [InsertA(<<Lit(I(1)), Lit(I(1)), MyUid>>) EXCEPT !.conflict = "update",
                                                       !.sets = <<Set(2, Bin("-", X, Excluded("x")))>>]}

MCProbes ==
    {AllOf("a"), AllOf("b"), AllOf("v"),
     [AllOf("a") EXCEPT !.order = <<By(X), [By(Id) EXCEPT !.asc = FALSE]>>, !.limit = <<Lit(I(1))>>],
     [OneColumn("a", X) EXCEPT !.items = <<As(Bin("*", X, Lit(I(-1))), "id")>>, !.order = <<By(Id)>>,
                               !.offset = <<Lit(I(1))>>],
     [Half EXCEPT !.having = <<Bin("<", CountStar, Lit(I(2)))>>,
                  !.order = <<[By(X) EXCEPT !.asc = FALSE, !.nf = TRUE]>>],
     [Half EXCEPT !.order = <<[By(CountStar) EXCEPT !.asc = FALSE], By(X)>>, !.limit = <<Lit(I(1))>>],
     [AllOf("b") EXCEPT !.items = <<[Star EXCEPT !.qual = "p"], Item(Qualified("p", "x"))>>,
                        !.from = <<[Source("table", "b") EXCEPT !.as = "p"]>>,
                        !.filter = <<Bin("<", Col("y"), Lit(I(2)))>>,
                        !.order = <<[By(X) EXCEPT !.nf = TRUE]>>],
     [Half EXCEPT !.from = <<Source("table", "b")>>, !.group = <<>>,
                  !.items = <<Item(Agg("sum", X)), Item(Agg("max", Col("y"))), Item(Agg("avg", X))>>],
     [Half EXCEPT !.distinct = TRUE, !.group = <<>>, !.items = <<Item(Qualified("p", "x"))>>,
                  !.from = <<[Source("join", "") EXCEPT !.kind = "left",
                      !.parts = <<[Source("table", "a") EXCEPT !.as = "p"], [Source("table", "a") EXCEPT !.as = "q"]>>,
                      !.on = <<Bin("<", Qualified("p", "id"), Qualified("q", "id"))>>]>>],
     [OneColumn("a", Subquery("scalar", <<>>, [Half EXCEPT !.items = <<Item(CountStar)>>, !.group = <<>>,
                                                           !.filter = <<Bin("=", X, Qualified("o", "x"))>>]))
        EXCEPT !.from = <<[Source("table", "a") EXCEPT !.as = "o"]>>],
     [OneColumn("c", X) EXCEPT !.with = <<[name |-> "c", q |-> OneColumn("v", X)]>>,
         !.setops = <<[op |-> "union", all |-> FALSE, q |-> OneColumn("b", X)]>>, !.order = <<By(Lit(I(1)))>>],
     [OneColumn("d", X) EXCEPT !.from = <<[Source("derived", "d") EXCEPT !.q = <<Half>>]>>,
         !.filter = <<[Node("in", "", <<X, Lit(I(1)), Lit(Null)>>) EXCEPT !.neg = TRUE]>>]}

\* SELECT x FROM b ORDER BY count( * ).
MCPathProbes == MCProbes \cup {[OneColumn("b", X) EXCEPT !.order = <<By(CountStar)>>]}

MCPredicates ==
    {Bin("<", Col("x"), Lit(I(1))),
     Bin("or", Bin("=", X, Lit(R(1, 1))), Bin("=", X, Lit(Null))),
     Node("case", "", <<Node("isnull", "", <<X>>), Lit(Null), Bin("+", X, Lit(I(3)))>>),
     [Node("in", "", <<X, Lit(I(0)), Lit(Null)>>) EXCEPT !.neg = TRUE],
     [Node("between", "", <<X, Lit(Null), Lit(I(0))>>) EXCEPT !.neg = TRUE],
     Node("func", "nullif", <<X, Lit(I(1))>>),
     Node("like", "", <<Node("cast", "text", <<Node("func", "ifnull", <<Node("cast", "int", <<X>>), Lit(I(1))>>)>>),
                        Lit(T(<<95>>))>>)}
=============================================================================
