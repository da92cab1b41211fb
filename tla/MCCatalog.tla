----------------------------- MODULE MCCatalog ------------------------------
(***************************************************************************)
(* Two tables, one with every kind of column and one that refers to it,    *)
(* two or three views, and logs written before foreign keys and defaults   *)
(* were recorded.                                                          *)
(***************************************************************************)
EXTENDS Catalog

Ty(k) == [k |-> k, dim |-> 0]
Column(n, ty) ==
    [name |-> n, ty |-> ty, primary_key |-> FALSE, not_null |-> FALSE, unique |-> FALSE,
     autoincrement |-> FALSE, default_sql |-> <<>>]
Id == [Column("id", Ty("integer")) EXCEPT !.autoincrement = TRUE]
X == [Column("x", Ty("text")) EXCEPT !.unique = TRUE, !.default_sql = <<"1">>]
E == Column("e", [k |-> "vector", dim |-> 2])
Y == [Column("y", Ty("real")) EXCEPT !.not_null = TRUE]

TableT == [name |-> "t", columns |-> <<Id, E, X>>, primary_key |-> <<"id">>, foreign_keys |-> <<>>,
           checks |-> <<"x > 0">>, uniques |-> <<<<"id", "x">>, <<"x">>>>]
TableU == [name |-> "u", columns |-> <<Y, X>>, primary_key |-> <<>>,
           foreign_keys |-> <<[name |-> "", columns |-> <<"y">>, foreign_table |-> "t", foreign_columns |-> <<>>],
                              [name |-> "own", columns |-> <<"x">>, foreign_table |-> "u",
                               foreign_columns |-> <<"y">>]>>,
           checks |-> <<>>, uniques |-> <<>>]

View(n, with, from, nested) ==
    [name |-> n, body |-> [with |-> with, from |-> from, nested |-> nested], or_replace |-> TRUE]
Cte(n, reads) == [name |-> n, reads |-> reads]
Policy(n, command, using, check) ==
    [name |-> n, command |-> command, roles |-> <<"anon", "user">>, using |-> using, check |-> check]

MCTableDefs == {TableT, TableU}
MCColumnSpecs == {[Column("z", Ty("blob")) EXCEPT !.default_sql = <<"1">>], Y}
VolatileSpecs == {[Column("z", Ty("text")) EXCEPT !.default_sql = <<"now()">>]}
MCIndexDefs == {[name |-> "i", table |-> "t", column |-> "e", params |-> "cosine"]}
MCViewDefs == {View("v", {}, {"w"}, {}), View("w", {Cte("c", {"t"})}, {"c"}, {"v"}), View("w", {}, {"t"}, {"u"})}
ShadowingViews == {View("v", {Cte("v", {"v"})}, {"v"}, {})}
MCPolicyDefs == {Policy("p", "update", <<"x = 1">>, <<>>), Policy("q", "all", <<>>, <<"true">>)}
MCRenames == {"u", "x"}
MCOldLogs ==
    LET columns == PutColumns(<<Y, [X EXCEPT !.default_sql = <<>>]>>)
    IN  {<<>>, <<<<1, "u">> \o columns, <<5>>>>,
         <<<<1, "u">> \o columns \o PutForeignKeys(<<[name |-> "f", columns |-> <<"y">>, foreign_table |-> "t",
                                                      foreign_columns |-> <<"id">>]>>), <<5>>>>}
NoViews == {}
=============================================================================
