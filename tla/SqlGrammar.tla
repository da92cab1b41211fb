----------------------------- MODULE SqlGrammar -----------------------------
(***************************************************************************)
(* The SQL front end (engine/src/sql.rs, engine/src/lex.rs).               *)
(*                                                                         *)
(* The parser is recursive descent without backtracking: it looks at the   *)
(* next word or two, picks a branch and is then committed to it; and no    *)
(* word is reserved, so any word can be read as a name.  Each of its       *)
(* functions is written here as a production: the same data is read in two *)
(* ways (SqlParser): a derivation machine writes sentences of the grammar,  *)
(* taking names only from Names, and Parse reads a token sequence the way   *)
(* the code does.  What the grammar can write, the parser must read,   *)
(* and read every word in the role it was written in.                      *)
(*                                                                         *)
(* Tokens are strings.  The AST a function returns is abstracted to the    *)
(* role of each token: "id" for a name, "kw" for everything else.          *)
(***************************************************************************)
EXTENDS Naturals, Sequences, FiniteSets, SequencesExt

CONSTANTS
    Names,       \* names the derivations use
    Unwritten,   \* tokens the derivations do not use
    Roots,       \* productions to derive sentences from
    Budget       \* bound: optional parts, repetitions and special cases in a sentence

ASSUME GrammarBounds == Budget \in Nat /\ Names # {}

(* --------------------------- grammar notation -------------------------- *)

Kw(w)         == [k |-> "tok", of |-> {w}]
OneOf(S)      == [k |-> "tok", of |-> S]
Id            == [k |-> "id"]
Free(stop)    == [k |-> "free", stop |-> stop]      \* a name, unless it is one of stop
Cat(xs)       == [k |-> "cat", xs |-> xs]
Alt(xs)       == [k |-> "alt", xs |-> xs, cost |-> 0]  \* the last one is the else branch
Else(xs)      == [k |-> "alt", xs |-> xs, cost |-> 1]  \* ... and the others are special cases
Opt(x)        == [k |-> "opt", x |-> x]
Lax(x)        == [k |-> "lax", x |-> x]             \* written always, but may be left out
Many(x)       == [k |-> "many", x |-> x]
Rule(name)    == [k |-> "rule", name |-> name]
Look(p, x)    == [k |-> "look", p |-> p, x |-> x]   \* chosen if p can be read here
Unless(p, x)  == [k |-> "unless", p |-> p, x |-> x] \* chosen unless p can be read here
Parens(deep)  == [k |-> "parens", deep |-> deep]    \* a parenthesis whose content is skipped
Rest          == [k |-> "rest"]                     \* skip_to_end

Kws(ws)    == Cat([i \in DOMAIN ws |-> Kw(ws[i])])
Ahead(x)   == Look(x, x)
List(x)    == Cat(<<x, Many(Cat(<<Kw(","), x>>))>>)
InParen(x) == Cat(<<Kw("("), x, Kw(")")>>)
IfNotExists == Opt(Kws(<<"if", "not", "exists">>))
IfExists    == Opt(Kws(<<"if", "exists">>))

Params  == {"?", "$1", ":n"}
Ints    == {"1"}
Strings == {"'s'", "'q'"}
Reals   == {"1.5", "1.0"}
Punct   == {"(", ")", "[", "]", ",", ";", "::", ".", "*", "=", "<>", "<", "<=", ">", ">=", "+",
            "-", "/", "%", "||", "->", "->>", "<->", "<=>", "<#>"}
Eof     == "eof"
IsWord(t) == t \notin Params \cup Ints \cup Strings \cup Reals \cup Punct \cup {Eof}

(* ------------------------------ expressions ---------------------------- *)

Chain(ops, x) == Cat(<<x, Many(Cat(<<OneOf(ops), x>>))>>)

OrExpr   == Chain({"or"}, Rule("and"))
AndExpr  == Chain({"and"}, Rule("not"))
NotExpr  == Else(<<Cat(<<Kw("not"), Rule("not")>>), Rule("cmp")>>)
VecDist  == Chain({"<->", "<=>", "<#>"}, Rule("concat"))
Concat   == Chain({"||", "->", "->>"}, Rule("add"))
AddExpr  == Chain({"+", "-"}, Rule("mul"))
MulExpr  == Chain({"*", "/", "%"}, Rule("unary"))
Unary    == Else(<<Cat(<<OneOf({"-", "+"}), Rule("unary")>>), Rule("cast")>>)

\* cmp_expr: at most one predicate or comparison; NOT is only eaten in front
\* of one of the four negatable predicates.
InTail  == Cat(<<Kw("in"), Kw("("),
               Opt(Alt(<<Look(OneOf({"select", "with"}), Rule("select")),
                         Unless(Kw(")"), List(Rule("expr")))>>)), Kw(")")>>)
NegTail == Alt(<<Cat(<<OneOf({"like", "ilike"}), Rule("vecdist"),
                      Opt(Cat(<<Kw("escape"), Rule("vecdist")>>))>>),
                 InTail,
                 Cat(<<Kw("between"), Rule("vecdist"), Kw("and"), Rule("vecdist")>>)>>)
CmpExpr == Cat(<<Rule("vecdist"),
    Opt(Alt(<<Cat(<<Kw("is"), Opt(Kw("not")), Kw("null")>>),
              Look(Cat(<<Kw("not"), OneOf({"like", "ilike", "in", "between"})>>),
                   Cat(<<Kw("not"), NegTail>>)),
              Look(OneOf({"like", "ilike", "in", "between"}), NegTail),
              Cat(<<OneOf({"=", "<>", "<", "<=", ">", ">="}), Rule("vecdist")>>)>>))>>)

\* parse_cast_type, eat_type_modifiers
CastType == Cat(<<
    Opt(Ahead(Cat(<<Id, Kw(".")>>))),
    Alt(<<Cat(<<Kw("double"), Lax(Kw("precision"))>>),
          Cat(<<OneOf({"character", "bit"}), Opt(Kw("varying"))>>),
          Cat(<<OneOf({"timestamp", "time"}),
                Opt(Cat(<<OneOf({"with", "without"}), Lax(Kw("time")), Lax(Kw("zone"))>>))>>),
          Id>>),
    Opt(Parens(FALSE)),
    Many(Kws(<<"[", "]">>))>>)
CastExpr == Cat(<<Rule("primary"), Many(Cat(<<Kw("::"), CastType>>))>>)

AggNames == {"count", "sum", "min", "max", "avg", "json_agg", "jsonb_agg", "group_concat",
             "string_agg"}
AggregateCall == Cat(<<OneOf(AggNames), Kw("("), Opt(Kw("distinct")), Opt(Kw("all")),
                       Alt(<<Kw("*"), Rule("expr")>>),
                       Opt(Cat(<<Kw(","), Rule("expr")>>)), Kw(")")>>)
FuncArgs == InParen(Opt(Alt(<<Kw("*"), Unless(Kw(")"), List(Rule("expr")))>>)))
CaseExpr == LET when == Cat(<<Kw("when"), Rule("expr"), Kw("then"), Rule("expr")>>)
            IN  Cat(<<Kw("case"), Opt(Unless(Kw("when"), Rule("expr"))), when, Many(when),
                      Opt(Cat(<<Kw("else"), Rule("expr")>>)), Kw("end")>>)
CallOf(w, body) == Look(Kws(<<w, "(">>), Cat(<<Kw(w), InParen(body)>>))
VectorLiteral == Cat(<<Kw("["),
    Opt(Unless(Kw("]"), List(Cat(<<Opt(Kw("-")), OneOf(Ints \cup Reals)>>)))), Kw("]")>>)

Primary == Else(<<
    OneOf(Ints \cup Reals \cup Strings),
    OneOf(Params),
    Cat(<<Kw("("), Else(<<Look(OneOf({"select", "with"}), Rule("select")), Rule("expr")>>),
          Kw(")")>>),
    VectorLiteral,
    OneOf({"null", "true", "false", "default"}),
    CaseExpr,
    CallOf("cast", Cat(<<Rule("expr"), Kw("as"), CastType>>)),
    CallOf("extract", Cat(<<Id, Kw("from"), Rule("expr")>>)),
    CallOf("exists", Rule("select")),
    Look(Cat(<<OneOf(AggNames), Kw("(")>>), AggregateCall),
    Cat(<<Id, Opt(Alt(<<FuncArgs, Cat(<<Kw("."), Id, Opt(FuncArgs)>>)>>))>>)>>)

(* ------------------------------- queries ------------------------------- *)

\* Mutant: ON is missing from the list.
NoOnClauseKw == {"from", "where", "order", "limit", "offset", "group", "having", "as", "and",
                 "or", "is", "like", "ilike", "asc", "desc", "nulls", "returning", "between",
                 "union", "intersect", "except"}

\* is_clause_kw and is_from_boundary_kw: the words that end an item.
ClauseKw == {"from", "where", "order", "limit", "offset", "group", "having", "as", "and", "or",
             "is", "like", "ilike", "asc", "desc", "nulls", "returning", "on", "between",
             "union", "intersect", "except"}
FromBoundaryKw == {"join", "inner", "left", "right", "full", "cross", "on", "using", "where",
                   "group", "order", "limit", "offset", "having", "union", "intersect",
                   "except", "as"}

AliasUpTo(stop) == Alt(<<Cat(<<Kw("as"), Id>>), Free(stop)>>)
IdList     == InParen(List(Id))
SelectItem == Else(<<Kw("*"), Ahead(Cat(<<Id, Kw("."), Kw("*")>>)),
                    Cat(<<Rule("expr"), Opt(AliasUpTo(ClauseKw))>>)>>)
Items      == List(SelectItem)
Where      == Opt(Cat(<<Kw("where"), Rule("expr")>>))

ParseWith  == Cat(<<Kw("with"), Opt(Kw("recursive")),
                    List(Cat(<<Id, Opt(IdList), Kw("as"), InParen(Rule("select"))>>))>>)

JoinKind   == Alt(<<Cat(<<Kw("join"), Opt(Cat(<<Kw("inner"), Lax(Kw("join"))>>))>>),
                    Ahead(Kws(<<"inner", "join">>)),
                    Cat(<<OneOf({"left", "right", "full"}), Opt(Kw("outer")), Kw("join")>>)>>)
JoinCondition == Alt(<<Cat(<<Kw("using"), IdList>>), Cat(<<Kw("on"), Rule("expr")>>)>>)
FromItem   == Else(<<
    Look(Cat(<<Kw("("), OneOf({"select", "with"})>>),
         Cat(<<InParen(Rule("select")), AliasUpTo(FromBoundaryKw)>>)),
    InParen(Rule("from")),
    Cat(<<Id, Opt(AliasUpTo(FromBoundaryKw))>>)>>)
ParseFrom  == Cat(<<FromItem,
    Many(Alt(<<Cat(<<Kws(<<"cross", "join">>), FromItem>>),
               Cat(<<Kw(","), FromItem>>),
               Cat(<<JoinKind, FromItem, JoinCondition>>)>>))>>)

SelectCore == Cat(<<Kw("select"), Opt(Kw("all")), Opt(Kw("distinct")), Items,
                    Opt(Cat(<<Kw("from"), Rule("from")>>)), Where,
                    Opt(Cat(<<Kws(<<"group", "by">>), List(Rule("expr"))>>)),
                    Opt(Cat(<<Kw("having"), Rule("expr")>>))>>)
OrderBy    == Cat(<<Kws(<<"order", "by">>),
                    List(Cat(<<Rule("expr"), Opt(OneOf({"asc", "desc"})),
                               Opt(Cat(<<Kw("nulls"), OneOf({"first", "last"})>>))>>))>>)
LimitValue == Else(<<OneOf(Params), Cat(<<Opt(Kw("-")), OneOf(Ints)>>)>>)
LimitAll   == Many(Ahead(Kws(<<"limit", "all">>)))
Limit      == Cat(<<Kw("limit"), LimitValue>>)
Offset     == Cat(<<Kw("offset"), LimitValue, Opt(OneOf({"row", "rows"}))>>)
LimitOffset == Cat(<<LimitAll, Opt(Alt(<<Cat(<<Offset, LimitAll, Opt(Limit)>>),
                                         Cat(<<Limit, Opt(Offset)>>)>>))>>)
Select     == Cat(<<Opt(ParseWith), Rule("core"),
                    Many(Cat(<<OneOf({"union", "intersect", "except"}), Opt(Kw("all")),
                               Opt(Kw("distinct")),
                               Else(<<InParen(Rule("select")), Rule("core")>>)>>)),
                    Opt(OrderBy), LimitOffset>>)

(* -------------------------- data modification -------------------------- *)

Returning   == Opt(Cat(<<Kw("returning"), Items>>))
Assignments == List(Cat(<<Id, Kw("="), Rule("expr")>>))
InsertSource == Else(<<Look(OneOf({"select", "with"}), Rule("select")),
                      Kws(<<"default", "values">>),
                      Cat(<<Kw("values"),
                            List(InParen(Opt(Unless(Kw(")"), List(Rule("expr"))))))>>)>>)
OnConflictAction == Cat(<<
    Opt(Alt(<<IdList, Cat(<<Kws(<<"on", "constraint">>), Id>>)>>)), Kw("do"),
    Alt(<<Cat(<<Kws(<<"update", "set">>), Assignments, Where>>), Kw("nothing")>>)>>)
Insert == Cat(<<Kw("insert"),
    Opt(Cat(<<Kw("or"), Lax(OneOf({"replace", "ignore", "abort", "fail", "rollback"}))>>)),
    Kw("into"), Id,
    Opt(Unless(Kws(<<"(", "select">>), IdList)), InsertSource,
    Opt(Cat(<<Kws(<<"on", "conflict">>), OnConflictAction>>)), Returning>>)
Update == Cat(<<Kw("update"), Id, Kw("set"), Assignments,
                Opt(Cat(<<Kw("from"), Rule("from")>>)), Where, Returning>>)
Delete == Cat(<<Kws(<<"delete", "from">>), Id,
                Opt(Cat(<<Kw("using"), Rule("from")>>)), Where, Returning>>)

(* ---------------------------- schema changes --------------------------- *)

ConstraintKw == {"primary", "not", "null", "unique", "references", "default", "check",
                 "autoincrement", "collate", "generated"}
References == Cat(<<Kw("references"), Id>>)
ColumnSpec == Cat(<<Id,
    Opt(Cat(<<Free(ConstraintKw), Opt(Parens(FALSE))>>)),
    Many(Alt(<<Cat(<<Kws(<<"primary", "key">>), Opt(Kw("autoincrement"))>>),
               Kws(<<"not", "null">>), OneOf({"null", "unique", "autoincrement"}),
               Cat(<<Kw("default"), Rule("expr")>>),
               Cat(<<Kw("check"), InParen(Rule("expr"))>>),
               Cat(<<References, Opt(InParen(Id))>>),
               Cat(<<Kw("collate"), Id>>)>>))>>)
TableConstraint ==
    LET body == Alt(<<Cat(<<Kws(<<"foreign", "key">>), IdList, References, Opt(IdList)>>),
                      Cat(<<Kws(<<"primary", "key">>), IdList>>),
                      Cat(<<Kw("unique"), IdList>>),
                      Cat(<<Kw("check"), InParen(Rule("expr"))>>)>>)
    IN  Alt(<<Cat(<<Kw("constraint"), Id, Opt(body)>>), body>>)
CreateTable == Cat(<<Kws(<<"create", "table">>), IfNotExists, Id, Kw("("),
    Many(Cat(<<TableConstraint, Kw(",")>>)), ColumnSpec,
    Many(Cat(<<Kw(","), Alt(<<TableConstraint, ColumnSpec>>)>>)), Kw(")")>>)
AlterTable == Cat(<<Kws(<<"alter", "table">>), Opt(Cat(<<Kw("if"), Lax(Kw("exists"))>>)), Id,
    Alt(<<Cat(<<Kw("add"), Opt(Kw("column")), ColumnSpec>>),
          Cat(<<Kw("drop"), Opt(Kw("column")), Opt(Cat(<<Kw("if"), Lax(Kw("exists"))>>)), Id>>),
          Cat(<<Kw("rename"),
                Alt(<<Cat(<<Kw("to"), Id>>), Cat(<<Opt(Kw("column")), Id, Kw("to"), Id>>)>>)>>),
          Cat(<<OneOf({"enable", "disable"}), Kws(<<"row", "level", "security">>)>>)>>)>>)
IndexOption == Alt(<<Cat(<<Kws(<<"metric", "=">>), OneOf({"cosine", "'q'"})>>),
                     Cat(<<OneOf({"m", "ef_construction", "ef_search"}), Kw("="), OneOf(Ints)>>)>>)
CreateIndex == Cat(<<Kws(<<"create", "index">>), IfNotExists, Id, Kw("on"), Id,
    Kws(<<"using", "hnsw", "(">>), Id,
    Opt(OneOf({"vector_cosine_ops", "vector_l2_ops", "vector_ip_ops"})), Kw(")"),
    Opt(Cat(<<Kw("with"), InParen(List(IndexOption))>>))>>)
CreateView == Cat(<<Kw("create"), Opt(Kws(<<"or", "replace">>)), Opt(OneOf({"temp", "temporary"})),
    Kw("view"), IfNotExists, Id, Opt(IdList), Kw("as"), Rule("select")>>)
CreateIsView == Cat(<<Kw("create"), Opt(Kws(<<"or", "replace">>)),
                      Opt(OneOf({"temp", "temporary"})), Kw("view")>>)
CreatePolicy == Cat(<<Kws(<<"create", "policy">>), Id, Kw("on"), Id,
    Opt(Cat(<<Kw("for"), OneOf({"all", "select", "insert", "update", "delete"})>>)),
    Opt(Cat(<<Kw("to"), List(Id)>>)),
    Opt(Cat(<<Kw("using"), InParen(Rule("expr"))>>)),
    Opt(Cat(<<Kws(<<"with", "check">>), InParen(Rule("expr"))>>))>>)
Drop(what)  == Cat(<<Kws(<<"drop", what>>), IfExists, Id>>)
DropPolicy  == Cat(<<Drop("policy"), Kw("on"), Id>>)

(* ------------------- session, transactions, statements ----------------- *)

DottedName == Cat(<<Id, Many(Ahead(Cat(<<Kw("."), Id>>)))>>)
SetValue   == Cat(<<Opt(OneOf({"=", "to"})), Opt(Alt(<<OneOf(Strings \cup Ints), Id>>))>>)
SetStmt    == Cat(<<Kw("set"), Opt(OneOf({"session", "local"})),
                    Alt(<<Cat(<<Kw("role"), Alt(<<OneOf({"none", "default"}), Id>>), Rest>>),
                          Look(Id, Cat(<<DottedName, SetValue, Rest>>)), Rest>>)>>)
ResetStmt  == Cat(<<Kw("reset"), Opt(Alt(<<Kw("role"), DottedName>>)), Rest>>)
Explain    == Cat(<<Kw("explain"), Opt(Kw("analyze")), Opt(Kw("verbose")), Opt(Parens(TRUE)),
                    Rule("statement")>>)
Show       == Cat(<<Kw("show"), Many(DottedName)>>)
Noop       == Cat(<<OneOf({"pragma", "vacuum", "analyze", "discard"}), Rest>>)

TransactionMode == Alt(<<
    Cat(<<Kw("isolation"), Lax(Kw("level")),
          Lax(Alt(<<Kw("serializable"), Cat(<<Kw("repeatable"), Lax(Kw("read"))>>),
                    Cat(<<Kw("read"), Lax(OneOf({"committed", "uncommitted"}))>>)>>))>>),
    Cat(<<Kw("read"), Lax(OneOf({"only", "write"}))>>),
    Cat(<<Kw("not"), Lax(Kw("deferrable"))>>),
    Kw("deferrable")>>)
TransactionModes == Cat(<<Many(Alt(<<Ahead(Cat(<<Kw(","), TransactionMode>>)),
                                     TransactionMode>>)), Opt(Kw(","))>>)
WorkWord == Opt(OneOf({"transaction", "work"}))
Transaction == Alt(<<
    Cat(<<Kw("begin"), WorkWord, TransactionModes>>),
    Cat(<<Kw("start"), Opt(Kw("transaction")), TransactionModes>>),
    Cat(<<Kw("savepoint"), Id>>),
    Cat(<<Kw("release"), Opt(Kw("savepoint")), Id>>),
    Cat(<<OneOf({"rollback", "abort"}), WorkWord,
          Opt(Cat(<<Kw("to"), Opt(Kw("savepoint")), Id>>))>>),
    Cat(<<OneOf({"commit", "end"}), WorkWord>>)>>)

Statement == Else(<<
    Look(Kws(<<"create", "index">>), CreateIndex),
    Look(Kws(<<"create", "policy">>), CreatePolicy),
    Look(CreateIsView, CreateView),
    CreateTable,
    Look(Kws(<<"drop", "index">>), Drop("index")),
    Look(Kws(<<"drop", "view">>), Drop("view")),
    Look(Kws(<<"drop", "policy">>), DropPolicy),
    Drop("table"),
    AlterTable, Insert,
    Look(OneOf({"select", "with"}), Rule("select")),
    Update, Delete, Explain, Show, SetStmt, ResetStmt, Noop, Transaction>>)

Rules == [expr |-> OrExpr, and |-> AndExpr, not |-> NotExpr, cmp |-> CmpExpr,
          vecdist |-> VecDist, concat |-> Concat, add |-> AddExpr, mul |-> MulExpr,
          unary |-> Unary, cast |-> CastExpr, primary |-> Primary, from |-> ParseFrom,
          core |-> SelectCore, select |-> Select, statement |-> Statement]
=============================================================================
