----------------------------- MODULE SqlParser ------------------------------
(***************************************************************************)
(* Reading and writing the grammar of SqlGrammar: the recursive-descent    *)
(* parser (Parse), the lexer and the text a DEFAULT, CHECK or policy       *)
(* expression is stored as (Lex, RenderTokens), and a machine that derives *)
(* sentences for them to read.                                             *)
(***************************************************************************)
EXTENDS SqlGrammar

VARIABLES
    root,      \* the production being derived
    todo,      \* what is still to be written, leftmost first
    sentence,  \* the tokens written, each with its role
    budget     \* optional parts that may still be written

vars == <<root, todo, sentence, budget>>

(* -------------------------------- parser ------------------------------- *)

TokAt(ts, i) == IF i <= Len(ts) THEN ts[i] ELSE Eof

Read(ts, i, n, role) == [ok |-> TRUE, at |-> i + n, roles |-> [j \in 1 .. n |-> role]]
Fail(i) == [ok |-> FALSE, at |-> i, roles |-> <<>>]
Then(r, s) == IF s.ok THEN [s EXCEPT !.roles = r.roles \o @] ELSE s

RECURSIVE Parse(_, _, _), Starts(_, _, _), Closing(_, _, _)

\* The token after the parenthesis at i: the matching one (skip_parens) or the
\* first one (parse_type_size).
Closing(ts, i, depth) ==
    CASE TokAt(ts, i) = Eof -> i
      [] TokAt(ts, i) = ")" /\ depth = 1 -> i + 1
      [] TokAt(ts, i) = ")" -> Closing(ts, i + 1, depth - 1)
      [] TokAt(ts, i) = "(" -> Closing(ts, i + 1, depth + 1)
      [] OTHER -> Closing(ts, i + 1, depth)

FirstClosing(ts, i) == 1 + Min({j \in i .. Len(ts) : ts[j] = ")"} \cup {Len(ts)})

\* Whether the parser, looking at the tokens from i on, enters x.
Starts(x, ts, i) ==
    CASE x.k = "tok"    -> TokAt(ts, i) \in x.of
      [] x.k = "id"     -> IsWord(TokAt(ts, i))
      [] x.k = "free"   -> IsWord(TokAt(ts, i)) /\ TokAt(ts, i) \notin x.stop
      [] x.k = "cat"    -> Starts(x.xs[1], ts, i)
      [] x.k = "alt"    -> \E j \in DOMAIN x.xs : Starts(x.xs[j], ts, i)
      [] x.k = "rule"   -> TRUE
      [] x.k = "look"   -> Parse(x.p, ts, i).ok
      [] x.k = "unless" -> ~Parse(x.p, ts, i).ok /\ Starts(x.x, ts, i)
      [] x.k = "parens" -> TokAt(ts, i) = "("
      [] x.k \in {"opt", "lax", "many", "rest"} -> TRUE

\* x read from i on: where it ends and the role of each token, or failure. A
\* branch once entered is never given up.
Parse(x, ts, i) ==
    CASE x.k = "tok" -> IF Starts(x, ts, i) THEN Read(ts, i, 1, "kw") ELSE Fail(i)
      [] x.k \in {"id", "free"} -> IF Starts(x, ts, i) THEN Read(ts, i, 1, "id") ELSE Fail(i)
      [] x.k = "cat" ->
           LET first == Parse(x.xs[1], ts, i)
           IN  IF Len(x.xs) = 1 \/ ~first.ok THEN first
               ELSE Then(first, Parse(Cat(Tail(x.xs)), ts, first.at))
      [] x.k = "alt" ->
           LET entered == {j \in DOMAIN x.xs : Starts(x.xs[j], ts, i)} \cup {Len(x.xs)}
           IN  Parse(x.xs[Min(entered)], ts, i)
      [] x.k \in {"opt", "lax"} ->
           IF Starts(x.x, ts, i) THEN Parse(x.x, ts, i) ELSE Read(ts, i, 0, "kw")
      [] x.k = "many" ->
           IF ~Starts(x.x, ts, i) THEN Read(ts, i, 0, "kw")
           ELSE LET one == Parse(x.x, ts, i)
                IN  IF one.ok THEN Then(one, Parse(x, ts, one.at)) ELSE one
      [] x.k = "rule" -> Parse(Rules[x.name], ts, i)
      [] x.k \in {"look", "unless"} -> Parse(x.x, ts, i)
      [] x.k = "parens" ->
           IF TokAt(ts, i) # "(" THEN Fail(i)
           ELSE LET end == IF x.deep THEN Closing(ts, i, 0) ELSE FirstClosing(ts, i)
                IN  Read(ts, i, end - i, "kw")
      [] x.k = "rest" -> Read(ts, i, Len(ts) + 1 - i, "kw")

\* parse, parse_expr: nothing may follow but one semicolon after a statement.
ParseAll(name, ts) ==
    LET r == Parse(Rules[name], ts, 1)
    IN  IF r.ok /\ r.at = Len(ts) + 1 THEN r ELSE Fail(r.at)

(* ------------------------------ lexer, text ---------------------------- *)

\* The text of a token, one entry per character; the letters of a word and the
\* digits of a number are one entry.
Text(t) ==
    CASE t = "1.5" -> <<"1", ".", "5">>
      [] t = "1.0" -> <<"1">>                           \* Rust prints 1.0 as 1
      [] t = "'s'" -> <<"'", "s", "'">>
      [] t = "'q'" -> <<"'", "s", "'", "'", "s", "'">>  \* a quote inside is doubled
      [] t = "$1"  -> <<"$", "1">>
      [] t = ":n"  -> <<":", "n">>
      [] t = "a b" -> <<"a", " ", "b">>                 \* quotes are not put back
      [] t = "->"  -> <<"-", ">">>
      [] t = "->>" -> <<"-", ">", ">">>
      [] t = "<->" -> <<"<", "-", ">">>
      [] t = "<=>" -> <<"<", "=", ">">>
      [] t = "<#>" -> <<"<", "#", ">">>
      [] t = "<>"  -> <<"<", ">">>
      [] t = "<="  -> <<"<", "=">>
      [] t = ">="  -> <<">", "=">>
      [] t = "||"  -> <<"|", "|">>
      [] t = "::"  -> <<":", ":">>
      [] OTHER     -> <<t>>

\* Mutant: no space around operators either.
HugsOperators(prev, cur) ==
    /\ ~(cur = "(" /\ (IsWord(prev) \/ prev = ")"))
    /\ cur \notin {",", ")", "::", ".", "-"}
    /\ prev \notin {"(", "::", ".", "-"}

NeedsSpace(prev, cur) ==
    /\ ~(cur = "(" /\ (IsWord(prev) \/ prev = ")"))
    /\ cur \notin {",", ")", "::", "."}
    /\ prev \notin {"(", "::", "."}

RenderTokens(ts) ==
    FlattenSeq([i \in DOMAIN ts |->
        (IF i > 1 /\ NeedsSpace(ts[i - 1], ts[i]) THEN <<" ">> ELSE <<>>) \o Text(ts[i])])

Single == {"(", ")", "[", "]", ",", ";", ".", "*", "+", "-", "/", "%", "?", "=", "<", ">"}
Double == {<<"-", ">">>, <<"<", "=">>, <<"<", ">">>, <<">", "=">>, <<"|", "|">>, <<":", ":">>}
Triple == {<<"-", ">", ">">>, <<"<", "-", ">">>, <<"<", "=", ">">>, <<"<", "#", ">">>}
Letters(c) == IsWord(c) /\ c \notin {" ", "'", "$", ":", "|", "#", "5", "err"}
Digits     == {"1", "5"}

RECURSIVE Lex(_)

\* The tokens of a text: longest operator first, -- to the end, a word or a
\* number as long as it can be; text that is no token is "err".
Lex(cs) ==
    LET n == Len(cs)
        c == cs[1]
        Pre(k) == SubSeq(cs, 1, k)
        After(t, k) == <<t>> \o Lex(SubSeq(cs, k + 1, n))
        Run(ok(_)) == Max({k \in 1 .. n : \A j \in 1 .. k : ok(cs[j])} \cup {1})
        number == Run(LAMBDA d : d \in Digits \cup {"."})
        word   == Run(LAMBDA d : Letters(d) \/ d \in Digits)
        IsQuote(j) == cs[j] = "'"
        close  == {k \in 2 .. n : IsQuote(k) /\ (k = n \/ ~IsQuote(k + 1))
                                  /\ Cardinality({j \in 2 .. k : IsQuote(j)}) % 2 = 1}
    IN  CASE n = 0 -> <<>>
          [] n > 0 /\ c = " " -> Lex(Tail(cs))
          [] n > 1 /\ Pre(2) = <<"-", "-">> -> <<>>
          [] n > 2 /\ Pre(3) \in Triple -> After(cs[1] \o cs[2] \o cs[3], 3)
          [] n > 1 /\ Pre(2) \in Double /\ ~(n > 2 /\ Pre(3) \in Triple) ->
                After(cs[1] \o cs[2], 2)
          [] n > 0 /\ c = "'" ->
                IF close = {} THEN <<"err">>
                ELSE LET k == Min(close) IN After(IF k = 3 THEN "'s'" ELSE "'q'", k)
          [] n > 1 /\ c = "$" -> IF cs[2] \in Digits THEN After("$1", 2) ELSE <<"err">>
          [] n > 1 /\ c = ":" /\ cs[2] # ":" -> After(":n", 2)
          [] n > 0 /\ c \in Digits ->
                After(IF number = 1 THEN c ELSE IF number = 3 THEN "1.5" ELSE "err", number)
          [] n > 0 /\ Letters(c) -> After(IF word = 1 THEN c ELSE "err", word)
          [] n > 0 /\ c \in Single /\ ~(n > 1 /\ Pre(2) \in Double \cup {<<"-", "-">>})
                                   /\ ~(n > 2 /\ Pre(3) \in Triple) -> After(c, 1)
          [] OTHER -> <<"err">>

(* ------------------------------ derivations ---------------------------- *)

Written(ts, role) == [i \in DOMAIN ts |-> [tok |-> ts[i], role |-> role]]

RECURSIVE Settled(_, _, _)

\* A derivation carried on to the next choice.
Settled(xs, written, left) ==
    LET x == Head(xs)
        Go(more) == Settled(more \o Tail(xs), written, left)
        Put(ts)  == Settled(Tail(xs), written \o Written(ts, "kw"), left)
        toks     == x.of \ Unwritten
    IN  CASE xs = <<>> -> [todo |-> xs, sentence |-> written, budget |-> left]
          [] xs # <<>> /\ x.k = "cat" -> Go(x.xs)
          [] xs # <<>> /\ x.k = "rule" -> Go(<<Rules[x.name]>>)
          [] xs # <<>> /\ x.k \in {"look", "unless", "lax"} -> Go(<<x.x>>)
          [] xs # <<>> /\ x.k = "parens" -> Put(<<"(", "1", ")">>)
          [] xs # <<>> /\ x.k = "rest" -> Put(<<>>)
          [] xs # <<>> /\ x.k = "tok" /\ Cardinality(toks) = 1 -> Put(<<CHOOSE t \in toks : TRUE>>)
          [] xs # <<>> /\ x.k \in {"opt", "many"} /\ left = 0 -> Go(<<>>)
          [] xs # <<>> /\ x.k = "alt" /\ x.cost > left -> Go(<<x.xs[Len(x.xs)]>>)
          [] OTHER -> [todo |-> xs, sentence |-> written, budget |-> left]

Init ==
    /\ root \in Roots
    /\ \E x \in IF Rules[root].k = "alt" THEN Range(Rules[root].xs) ELSE {Rules[root]} :
          LET s == Settled(<<x>>, <<>>, Budget)
          IN  todo = s.todo /\ sentence = s.sentence /\ budget = s.budget

Top == Head(todo)
Expand(xs, ts, role, cost) ==
    /\ todo # <<>>
    /\ budget >= cost
    /\ LET s == Settled(xs \o Tail(todo), sentence \o Written(ts, role), budget - cost)
       IN  todo' = s.todo /\ sentence' = s.sentence /\ budget' = s.budget
    /\ UNCHANGED root

WriteToken == Top.k = "tok" /\ \E t \in Top.of \ Unwritten : Expand(<<>>, <<t>>, "kw", 0)
WriteName  == Top.k \in {"id", "free"} /\ \E t \in Names : Expand(<<>>, <<t>>, "id", 0)
Choose     == Top.k = "alt" /\ \E j \in DOMAIN Top.xs :
                 Expand(<<Top.xs[j]>>, <<>>, "kw", IF j = Len(Top.xs) THEN 0 ELSE Top.cost)
Optional   == Top.k = "opt" /\ (Expand(<<>>, <<>>, "kw", 0) \/ Expand(<<Top.x>>, <<>>, "kw", 1))
Repeat     == Top.k = "many" /\ (Expand(<<>>, <<>>, "kw", 0)
                                 \/ Expand(<<Top.x, Top>>, <<>>, "kw", 1))
Done == todo = <<>> /\ UNCHANGED vars

Next == (todo # <<>> /\ (WriteToken \/ WriteName \/ Choose \/ Optional \/ Repeat)) \/ Done
Spec == Init /\ [][Next]_vars

(* ------------------------------ properties ----------------------------- *)

Toks  == [i \in DOMAIN sentence |-> sentence[i].tok]
Roles == [i \in DOMAIN sentence |-> sentence[i].role]

\* RETURNING right after a table without an alias: parse_from_alias takes the
\* word as the alias, is_from_boundary_kw does not list it.
ReturningAsAlias ==
    \E i \in 2 .. Len(sentence) : /\ sentence[i].tok = "returning"
                                  /\ sentence[i - 1].role = "id"
                                  /\ sentence[i].role = "kw"

\* EXPLAIN of the statement ANALYZE is read as EXPLAIN ANALYZE of nothing.
ExplainOfAnalyze ==
    \E i \in 2 .. Len(sentence) : sentence[i].tok = "analyze" /\ sentence[i - 1].tok = "explain"

\* The parser reads every sentence of its own grammar and reads each word in
\* the role it was written in: no lookahead commits it to the wrong branch and
\* no clause keyword is taken for a name (is_clause_kw, is_from_boundary_kw,
\* is_constraint_kw, next_starts_neg_predicate), with two exceptions: RETURNING
\* after a bare table, and EXPLAIN of the statement ANALYZE.
ReadsWhatItWrites ==
    todo = <<>> /\ ~ReturningAsAlias /\ ~ExplainOfAnalyze =>
        LET r == ParseAll(root, Toks) IN r.ok /\ r.roles = Roles

\* The text kept for a DEFAULT, CHECK or policy expression lexes back to the
\* tokens it was captured from: no two tokens run into each other, none turns
\* into a comment or a longer operator (needs_space, render_token, lex).
CaptureRereads ==
    todo = <<>> /\ root = "expr" => Lex(RenderTokens(Toks)) = Toks
=============================================================================
