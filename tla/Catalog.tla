------------------------------ MODULE Catalog -------------------------------
(***************************************************************************)
(* The catalog as a log of facts: every DDL statement is validated against *)
(* the store, appended to the WAL in encoded form with a Commit record and *)
(* then applied to the store; reopening the database decodes the log and   *)
(* applies the committed groups to an empty store. Rows are here only as   *)
(* far as schema changes reshape them. DDL holds the write lane over a     *)
(* quiescent pipeline (GroupCommit), so statements do not interleave. Views*)
(* are the relations their bodies read. Names are already in lower case.   *)
(***************************************************************************)
EXTENDS Integers, Sequences, SequencesExt, FiniteSets, Functions, TLC

CONSTANTS
    TableDefs,    \* CREATE TABLE statements
    ColumnSpecs,  \* columns ALTER TABLE may add
    IndexDefs,    \* CREATE INDEX statements
    ViewDefs,     \* CREATE VIEW statements
    PolicyDefs,   \* CREATE POLICY statements
    Renames,      \* names a table or a column may be renamed to
    OldLogs,      \* logs an earlier version of the program may have left
    MaxLog,       \* records the log may hold (bounds the state space)
    MaxVid,       \* bound on a table's version ids
    MaxClock      \* bound on the wall clock

VARIABLES
    store,        \* what the running database holds
    log,          \* the records of the WAL, encoded
    pending,      \* operations appended and not yet applied
    clock         \* wall clock

vars == <<store, log, pending, clock>>

Null == [k |-> "null", p |-> 0]
IntV(i) == [k |-> "int", p |-> i]

(* -------------------------------- schemas ------------------------------- *)

Put(f, n, v) == (n :> v) @@ f
Without(f, n) == Restrict(f, DOMAIN f \ {n})
Empty == [n \in {} |-> 0]

ColumnIndex(schema, n) == {i \in DOMAIN schema.columns : schema.columns[i].name = n}
PrimaryKey(columns) ==
    LET keys == SelectSeq(columns, LAMBDA c : c.primary_key)
    IN  [i \in DOMAIN keys |-> keys[i].name]

HasTable(n) == n \in DOMAIN store.tables
HasColumn(n, c) == HasTable(n) /\ ColumnIndex(store.tables[n].schema, c) # {}

\* Foreign keys with their referenced columns, by default the primary key of the
\* referenced table; {} if there is none or the numbers differ.
ResolveForeignKeys(table, columns, specs) ==
    LET Pk(ft) == IF ft = table THEN PrimaryKey(columns)
                  ELSE IF HasTable(ft) THEN PrimaryKey(store.tables[ft].schema.columns) ELSE <<>>
        Foreign(fk) == IF fk.foreign_columns = <<>> THEN Pk(fk.foreign_table) ELSE fk.foreign_columns
    IN  IF \E fk \in ToSet(specs) : Len(Foreign(fk)) # Len(fk.columns) \/ Foreign(fk) = <<>> THEN {}
        ELSE {[i \in DOMAIN specs |->
                 [name |-> IF specs[i].name # "" THEN specs[i].name ELSE <<table, specs[i].columns>>,
                  columns |-> specs[i].columns, foreign_table |-> specs[i].foreign_table,
                  foreign_columns |-> Foreign(specs[i])]]}

\* The schemas CREATE TABLE may register: at most one.
SchemasOf(d) ==
    LET columns == [i \in DOMAIN d.columns |->
                      IF d.columns[i].name \in ToSet(d.primary_key)
                      THEN [d.columns[i] EXCEPT !.primary_key = TRUE, !.not_null = TRUE]
                      ELSE d.columns[i]]
    IN  IF ~ToSet(d.primary_key) \subseteq {c.name : c \in ToSet(columns)} THEN {}
        ELSE {[name |-> d.name, columns |-> columns, foreign_keys |-> fks, checks |-> d.checks,
               uniques |-> d.uniques, rls_enabled |-> FALSE, policies |-> <<>>] :
                 fks \in ResolveForeignKeys(d.name, columns, d.foreign_keys)}

(* --------------------------------- codec -------------------------------- *)

Bit(b) == IF b THEN 1 ELSE 0
Types == <<"integer", "real", "text", "blob">>
Commands == <<"all", "select", "insert", "update", "delete">>

PutList(s) == <<Len(s)>> \o s
PutLists(ss) == <<Len(ss)>> \o FlattenSeq([i \in DOMAIN ss |-> PutList(ss[i])])
PutOpt(o) == <<Len(o)>> \o o
PutColType(ty) == IF ty.k = "vector" THEN <<4, ty.dim>> ELSE <<CHOOSE i \in 0 .. 3 : Types[i + 1] = ty.k>>
PutValue(v) == IF v.k = "null" THEN <<0>> ELSE <<1, v.p>>
Flags(c) == Bit(c.primary_key) + 2 * Bit(c.not_null) + 4 * Bit(c.unique) + 8 * Bit(c.autoincrement)
PutColumns(cs) == <<Len(cs)>> \o FlattenSeq([i \in DOMAIN cs |->
                      <<cs[i].name>> \o PutColType(cs[i].ty) \o <<Flags(cs[i])>>])
PutDefaults(cs) == <<Len(cs)>> \o FlattenSeq([i \in DOMAIN cs |-> PutOpt(cs[i].default_sql)])
PutForeignKeys(fks) == <<Len(fks)>> \o FlattenSeq([i \in DOMAIN fks |->
    <<fks[i].name, fks[i].foreign_table>> \o PutList(fks[i].columns) \o PutList(fks[i].foreign_columns)])

\* A record is its tag and its fields; variable parts are prefixed by a count.
Encode(op) ==
    CASE op.k = "create" -> <<1, op.schema.name>> \o PutColumns(op.schema.columns)
                            \o PutForeignKeys(op.schema.foreign_keys) \o PutDefaults(op.schema.columns)
                            \o PutList(op.schema.checks) \o PutLists(op.schema.uniques)
      [] op.k = "drop" -> <<2, op.name>>
      [] op.k = "insert" -> <<3, op.table, op.vid, Len(op.values)>>
                            \o FlattenSeq([i \in DOMAIN op.values |-> PutValue(op.values[i])])
      [] op.k = "delete" -> <<4, op.table, op.vid>>
      [] op.k = "commit" -> <<5>>
      [] op.k = "create_index" -> <<6, op.def.name, op.def.table, op.def.column, op.def.params>>
      [] op.k = "drop_index" -> <<7, op.name>>
      [] op.k = "alter_add" -> <<8, op.table>> \o PutColumns(<<op.column>>) \o PutDefaults(<<op.column>>)
                               \o PutList(<<>>) \o PutLists(<<>>)
      [] op.k = "alter_drop" -> <<9, op.table, op.column>>
      [] op.k = "rename_column" -> <<10, op.table, op.from, op.to>>
      [] op.k = "rename_table" -> <<11, op.table, op.to>>
      [] op.k = "create_view" -> <<12, op.name, op.sql>>
      [] op.k = "drop_view" -> <<13, op.name>>
      [] op.k = "create_policy" ->
            <<14, op.table, op.policy.name, CHOOSE i \in 0 .. 4 : Commands[i + 1] = op.policy.command>>
            \o PutList(op.policy.roles) \o PutOpt(op.policy.using) \o PutOpt(op.policy.check)
      [] op.k = "drop_policy" -> <<15, op.table, op.name>>
      [] op.k = "set_rls" -> <<16, op.table, Bit(op.enabled)>>

\* A decoder reads from position p of record b: the value and the next position.
Got(v, p) == [v |-> v, p |-> p]
Str(b, p) == Got(b[p], p + 1)
OptStr(b, p) == IF b[p] = 1 THEN Got(<<b[p + 1]>>, p + 2) ELSE Got(<<>>, p + 1)
Counted(b, p, Item(_, _)) ==
    FoldLeft(LAMBDA acc, i : Got(Append(acc.v, Item(b, acc.p).v), Item(b, acc.p).p),
             Got(<<>>, p + 1), [i \in 1 .. b[p] |-> i])
StrList(b, p) == Counted(b, p, Str)
StrLists(b, p) == Counted(b, p, StrList)
ColType(b, p) ==
    CASE b[p] = 4 -> Got([k |-> "vector", dim |-> b[p + 1]], p + 2)
      [] b[p] \in {0, 1, 3} -> Got([k |-> Types[b[p] + 1], dim |-> 0], p + 1)
      [] OTHER -> Got([k |-> "text", dim |-> 0], p + 1)
ValueAt(b, p) == IF b[p] = 0 THEN Got(Null, p + 1) ELSE Got(IntV(b[p + 1]), p + 2)
FlagSet(flags, bit) == (flags \div bit) % 2 = 1
ColumnAt(b, p) ==
    LET ty == ColType(b, p + 1)
    IN  Got([name |-> b[p], ty |-> ty.v, primary_key |-> FlagSet(b[ty.p], 1), not_null |-> FlagSet(b[ty.p], 2),
             unique |-> FlagSet(b[ty.p], 4), autoincrement |-> FlagSet(b[ty.p], 8), default_sql |-> <<>>],
            ty.p + 1)
DecodeColumns(b, p) == Counted(b, p, ColumnAt)
ForeignKeyAt(b, p) ==
    LET columns == StrList(b, p + 2)
        foreign == StrList(b, columns.p)
    IN  Got([name |-> b[p], columns |-> columns.v, foreign_table |-> b[p + 1], foreign_columns |-> foreign.v],
            foreign.p)
AtEnd(b, p) == p > Len(b)
\* Sections a record of an earlier version does not have are empty.
DecodeForeignKeys(b, p) == IF AtEnd(b, p) THEN Got(<<>>, p) ELSE Counted(b, p, ForeignKeyAt)

\* A bug: defaults are taken for the columns that have one, in order.
ShiftedDefaults(b, p, columns) ==
    IF AtEnd(b, p) THEN [columns |-> columns, checks |-> <<>>, uniques |-> <<>>]
    ELSE LET defaults == Counted(b, p, OptStr)
             given == SelectSeq(defaults.v, LAMBDA d : d # <<>>)
             checks == StrList(b, defaults.p)
         IN  [columns |-> [i \in DOMAIN columns |->
                             [columns[i] EXCEPT !.default_sql = IF i <= Len(given) THEN given[i] ELSE <<>>]],
              checks |-> checks.v, uniques |-> StrLists(b, checks.p).v]

DecodeTableExtras(b, p, columns) ==
    IF AtEnd(b, p) THEN [columns |-> columns, checks |-> <<>>, uniques |-> <<>>]
    ELSE LET defaults == Counted(b, p, OptStr)
             checks == StrList(b, defaults.p)
         IN  [columns |-> [i \in DOMAIN columns |-> [columns[i] EXCEPT !.default_sql = defaults.v[i]]],
              checks |-> checks.v, uniques |-> StrLists(b, checks.p).v]

DecodeCreate(b) ==
    LET columns == DecodeColumns(b, 3)
        fks == DecodeForeignKeys(b, columns.p)
        extras == DecodeTableExtras(b, fks.p, columns.v)
    IN  [k |-> "create",
         schema |-> [name |-> b[2], columns |-> extras.columns, foreign_keys |-> fks.v, checks |-> extras.checks,
                     uniques |-> extras.uniques, rls_enabled |-> FALSE, policies |-> <<>>]]
DecodeAlterAdd(b) ==
    LET columns == DecodeColumns(b, 3)
    IN  [k |-> "alter_add", table |-> b[2],
         column |-> Last(DecodeTableExtras(b, columns.p, columns.v).columns)]
DecodeCreatePolicy(b) ==
    LET roles == StrList(b, 5)
        using == OptStr(b, roles.p)
        command == IF b[4] \in 1 .. 4 THEN Commands[b[4] + 1] ELSE "all"
    IN  [k |-> "create_policy", table |-> b[2],
         policy |-> [name |-> b[3], command |-> command, roles |-> roles.v, using |-> using.v,
                     check |-> OptStr(b, using.p).v]]

Decode(b) ==
    CASE b[1] = 1 -> DecodeCreate(b)
      [] b[1] = 2 -> [k |-> "drop", name |-> b[2]]
      [] b[1] = 3 -> [k |-> "insert", table |-> b[2], vid |-> b[3], values |-> Counted(b, 4, ValueAt).v]
      [] b[1] = 4 -> [k |-> "delete", table |-> b[2], vid |-> b[3]]
      [] b[1] = 5 -> [k |-> "commit"]
      [] b[1] = 6 -> [k |-> "create_index", def |-> [name |-> b[2], table |-> b[3], column |-> b[4], params |-> b[5]]]
      [] b[1] = 7 -> [k |-> "drop_index", name |-> b[2]]
      [] b[1] = 8 -> DecodeAlterAdd(b)
      [] b[1] = 9 -> [k |-> "alter_drop", table |-> b[2], column |-> b[3]]
      [] b[1] = 10 -> [k |-> "rename_column", table |-> b[2], from |-> b[3], to |-> b[4]]
      [] b[1] = 11 -> [k |-> "rename_table", table |-> b[2], to |-> b[3]]
      [] b[1] = 12 -> [k |-> "create_view", name |-> b[2], sql |-> b[3]]
      [] b[1] = 13 -> [k |-> "drop_view", name |-> b[2]]
      [] b[1] = 14 -> DecodeCreatePolicy(b)
      [] b[1] = 15 -> [k |-> "drop_policy", table |-> b[2], name |-> b[3]]
      [] b[1] = 16 -> [k |-> "set_rls", table |-> b[2], enabled |-> b[3] # 0]

(* ------------------------------- the store ------------------------------ *)

NoStore == [tables |-> Empty, views |-> Empty, indexes |-> Empty, committed_lsn |-> 0]
NewTable(schema) == [schema |-> schema, rows |-> <<>>, next_vid |-> 1, next_autoinc |-> 1]

\* Operations on a table that is not there change nothing.
OnTable(s, n, Change(_)) ==
    IF n \in DOMAIN s.tables THEN [s EXCEPT !.tables[n] = Change(@)] ELSE s

InsertTable(s, schema) == [s EXCEPT !.tables = Put(@, schema.name, NewTable(schema))]
DropTable(s, n) ==
    [s EXCEPT !.tables = Without(@, n),
              !.indexes = Restrict(@, {i \in DOMAIN @ : @[i].table # n})]
AddPolicy(s, n, policy) ==
    OnTable(s, n, LAMBDA t : [t EXCEPT !.schema.policies =
        Append(SelectSeq(@, LAMBDA p : p.name # policy.name), policy)])
DropPolicy(s, n, name) ==
    OnTable(s, n, LAMBDA t : [t EXCEPT !.schema.policies = SelectSeq(@, LAMBDA p : p.name # name)])
SetRls(s, n, enabled) == OnTable(s, n, LAMBDA t : [t EXCEPT !.schema.rls_enabled = enabled])

\* Text of a DEFAULT: a constant, the clock, or text that does not evaluate.
EvalConstSql(d, now) ==
    CASE d = <<>> -> Null
      [] d = <<"now()">> -> IntV(now)
      [] d = <<"1">> -> IntV(1)
      [] OTHER -> Null

AddColumn(s, n, column, fill) ==
    OnTable(s, n, LAMBDA t : [t EXCEPT !.schema.columns = Append(@, column),
                                       !.rows = [i \in DOMAIN @ |-> [@[i] EXCEPT !.values = Append(@, fill)]]])
\* A bug: the rows keep the value of the dropped column.
DropFromSchema(s, n, column) ==
    OnTable(s, n, LAMBDA t : IF ColumnIndex(t.schema, column) = {} THEN t
                             ELSE [t EXCEPT !.schema.columns = RemoveAt(@, Min(ColumnIndex(t.schema, column)))])
DropColumn(s, n, column) ==
    OnTable(s, n, LAMBDA t :
        LET at == ColumnIndex(t.schema, column)
            i == Min(at)
        IN  IF at = {} THEN t
            ELSE [t EXCEPT !.schema.columns = RemoveAt(@, i),
                           !.rows = [r \in DOMAIN @ |->
                               [@[r] EXCEPT !.values = IF i <= Len(@) THEN RemoveAt(@, i) ELSE @]]])
RenameColumn(s, n, from, to) ==
    OnTable(s, n, LAMBDA t :
        LET at == ColumnIndex(t.schema, from)
        IN  [t EXCEPT !.schema.columns = [i \in DOMAIN @ |->
                IF at # {} /\ i = Min(at) THEN [@[i] EXCEPT !.name = to] ELSE @[i]]])
\* A table of the new name is replaced; indexes and foreign keys keep the old name.
RenameTable(s, n, to) ==
    IF n \notin DOMAIN s.tables THEN s
    ELSE [s EXCEPT !.tables = Put(Without(@, n), to, [s.tables[n] EXCEPT !.schema.name = to])]

ApplyAlter(s, op, now) ==
    CASE op.k = "alter_add" -> AddColumn(s, op.table, op.column, EvalConstSql(op.column.default_sql, now))
      [] op.k = "alter_drop" -> DropColumn(s, op.table, op.column)
      [] op.k = "rename_column" -> RenameColumn(s, op.table, op.from, op.to)
      [] op.k = "rename_table" -> RenameTable(s, op.table, op.to)
      [] op.k = "set_rls" -> SetRls(s, op.table, op.enabled)

ReplayInsert(s, n, vid, values, lsn) ==
    OnTable(s, n, LAMBDA t : [t EXCEPT
        !.rows = Append(@, [vid |-> vid, values |-> values, create_lsn |-> lsn, delete_lsn |-> 0]),
        !.next_vid = Max({@, vid + 1})])
ReplayDelete(s, n, vid, lsn) ==
    OnTable(s, n, LAMBDA t : [t EXCEPT !.rows = [i \in DOMAIN @ |->
        IF @[i].vid = vid THEN [@[i] EXCEPT !.delete_lsn = lsn] ELSE @[i]]])

ParseView(sql) == sql.body

ApplyReplay(s, op, lsn, now) ==
    CASE op.k = "create" -> InsertTable(s, op.schema)
      [] op.k = "drop" -> DropTable(s, op.name)
      [] op.k = "insert" -> ReplayInsert(s, op.table, op.vid, op.values, lsn)
      [] op.k = "delete" -> ReplayDelete(s, op.table, op.vid, lsn)
      [] op.k = "create_index" -> [s EXCEPT !.indexes = Put(@, op.def.name, op.def)]
      [] op.k = "drop_index" -> [s EXCEPT !.indexes = Without(@, op.name)]
      [] op.k = "create_view" -> [s EXCEPT !.views = Put(@, op.name, ParseView(op.sql))]
      [] op.k = "drop_view" -> [s EXCEPT !.views = Without(@, op.name)]
      [] op.k = "create_policy" -> AddPolicy(s, op.table, op.policy)
      [] op.k = "drop_policy" -> DropPolicy(s, op.table, op.name)
      [] OTHER -> ApplyAlter(s, op, now)

\* The operations of one transaction at its commit LSN: what replay does with a
\* group, and what the live paths amount to once its rows are published.
ApplyGroup(s, ops, lsn, now) ==
    [FoldLeft(LAMBDA acc, op : ApplyReplay(acc, op, lsn, now), s, ops) EXCEPT !.committed_lsn = Max({@, lsn})]

\* A bug: the ids of deleted rows are forgotten.
AutoincOfLiveRows(t) ==
    LET at == {i \in DOMAIN t.schema.columns : t.schema.columns[i].autoincrement}
    IN  IF at = {} THEN t
        ELSE [t EXCEPT !.next_autoinc =
                Max({0} \cup {r.values[Min(at)].p : r \in {x \in ToSet(t.rows) : x.delete_lsn = 0}}) + 1]

RebuildAutoinc(t) ==
    LET at == {i \in DOMAIN t.schema.columns : t.schema.columns[i].autoincrement}
    IN  IF at = {} THEN t
        ELSE [t EXCEPT !.next_autoinc = Max({0} \cup {r.values[Min(at)].p : r \in ToSet(t.rows)}) + 1]

\* Records up to a Commit are one group; what follows the last Commit is dropped.
Replay(records, now) ==
    LET Step(acc, i) ==
            LET op == Decode(records[i])
            IN  IF op.k = "commit" THEN [s |-> ApplyGroup(acc.s, acc.group, i, now), group |-> <<>>]
                ELSE [acc EXCEPT !.group = Append(@, op)]
        done == FoldLeft(Step, [s |-> NoStore, group |-> <<>>], [i \in DOMAIN records |-> i]).s
    IN  [done EXCEPT !.tables = [n \in DOMAIN @ |-> RebuildAutoinc(@[n])]]

(* --------------------------------- views -------------------------------- *)

\* A body: its CTEs, the relations it reads where they are in scope, and the ones
\* derived tables and subqueries in expressions read, where they are not.
ReferencedRelations(body) ==
    (UNION {c.reads : c \in body.with} \cup body.from \cup body.nested) \ {c.name : c \in body.with}

\* The relations reached from the set reached through the views.
Closure(views, Reads(_), reached) ==
    FoldLeft(LAMBDA acc, i : acc \cup UNION {Reads(views[v]) : v \in acc \cap DOMAIN views},
             reached, [i \in 1 .. Cardinality(DOMAIN views) |-> i])

\* A bug: only a view that names itself is refused.
DirectlyRecursive(name, body) == name \in ReferencedRelations(body)

ViewWouldCycle(name, body) ==
    name \in Closure(store.views, ReferencedRelations, ReferencedRelations(body))

(* ------------------------------- statements ----------------------------- *)

Commit == [k |-> "commit"]

Init ==
    /\ log \in OldLogs
    /\ clock = 0
    /\ store = Replay(log, clock)
    /\ pending = <<>>

\* The validated operations are made durable with their Commit record.
AppendWal(ops) ==
    /\ pending = <<>>
    /\ Len(log) + Len(ops) < MaxLog
    /\ log' = log \o [i \in DOMAIN ops |-> Encode(ops[i])] \o <<Encode(Commit)>>
    /\ pending' = ops
    /\ UNCHANGED <<store, clock>>

\* The statement's thread goes on to apply what it logged.
Apply ==
    /\ pending # <<>>
    /\ store' = ApplyGroup(store, pending, Len(log), clock)
    /\ pending' = <<>>
    /\ UNCHANGED <<log, clock>>

CreateTable ==
    \E d \in TableDefs : \E schema \in SchemasOf(d) :
        ~HasTable(d.name) /\ AppendWal(<<[k |-> "create", schema |-> schema]>>)
DropTableStmt == \E n \in DOMAIN store.tables : AppendWal(<<[k |-> "drop", name |-> n]>>)

AlterAdd ==
    \E n \in DOMAIN store.tables, c \in ColumnSpecs :
        /\ ~HasColumn(n, c.name)
        /\ AppendWal(<<[k |-> "alter_add", table |-> n, column |-> [c EXCEPT !.primary_key = FALSE]]>>)
AlterDrop ==
    \E n \in DOMAIN store.tables : \E c \in ToSet(store.tables[n].schema.columns) :
        AppendWal(<<[k |-> "alter_drop", table |-> n, column |-> c.name]>>)
\* Neither name is looked up before it is logged.
AlterRenameColumn ==
    \E n \in DOMAIN store.tables, from, to \in Renames :
        from # to /\ AppendWal(<<[k |-> "rename_column", table |-> n, from |-> from, to |-> to]>>)
AlterRenameTable ==
    \E n \in DOMAIN store.tables, to \in Renames :
        AppendWal(<<[k |-> "rename_table", table |-> n, to |-> to]>>)
AlterRls ==
    \E n \in DOMAIN store.tables, on \in BOOLEAN :
        AppendWal(<<[k |-> "set_rls", table |-> n, enabled |-> on]>>)

CreateIndex ==
    \E d \in IndexDefs :
        /\ d.name \notin DOMAIN store.indexes
        /\ HasColumn(d.table, d.column)
        /\ LET schema == store.tables[d.table].schema
           IN  schema.columns[Min(ColumnIndex(schema, d.column))].ty.k = "vector"
        /\ AppendWal(<<[k |-> "create_index", def |-> d]>>)
DropIndex == \E n \in DOMAIN store.indexes : AppendWal(<<[k |-> "drop_index", name |-> n]>>)

CreateView ==
    \E d \in ViewDefs :
        /\ ~HasTable(d.name)
        /\ d.name \in DOMAIN store.views => d.or_replace
        /\ ~ViewWouldCycle(d.name, d.body)
        /\ AppendWal(<<[k |-> "create_view", name |-> d.name, sql |-> d]>>)
DropView == \E n \in DOMAIN store.views : AppendWal(<<[k |-> "drop_view", name |-> n]>>)

PolicyNames(n) == {p.name : p \in ToSet(store.tables[n].schema.policies)}
CreatePolicy ==
    \E n \in DOMAIN store.tables, p \in PolicyDefs :
        p.name \notin PolicyNames(n) /\ AppendWal(<<[k |-> "create_policy", table |-> n, policy |-> p]>>)
DropPolicyStmt ==
    \E n \in DOMAIN store.tables : \E p \in PolicyNames(n) :
        AppendWal(<<[k |-> "drop_policy", table |-> n, name |-> p]>>)

(* ---------------------------------- rows -------------------------------- *)

LiveRows(t) == SelectSeq(t.rows, LAMBDA r : r.delete_lsn = 0)
NewRow(n) ==
    LET t == store.tables[n]
    IN  [k |-> "insert", table |-> n, vid |-> t.next_vid,
         values |-> [i \in DOMAIN t.schema.columns |->
                       IF t.schema.columns[i].autoincrement THEN IntV(t.next_autoinc) ELSE IntV(0)]]
\* Both counters move when the row is built, whatever becomes of the statement.
Numbered(t) == [t EXCEPT !.next_vid = @ + 1, !.next_autoinc = @ + Bit(\E c \in ToSet(t.schema.columns) : c.autoincrement)]
Write(n, ops) ==
    /\ pending = <<>>
    /\ store.tables[n].next_vid <= MaxVid
    /\ Len(log) + Len(ops) < MaxLog
    /\ log' = log \o [i \in DOMAIN ops |-> Encode(ops[i])] \o <<Encode(Commit)>>
    /\ pending' = ops
    /\ store' = [store EXCEPT !.tables[n] = Numbered(@)]
    /\ UNCHANGED clock

Insert == \E n \in DOMAIN store.tables : Write(n, <<NewRow(n)>>)
Update ==
    \E n \in DOMAIN store.tables : \E r \in ToSet(LiveRows(store.tables[n])) :
        Write(n, <<[k |-> "delete", table |-> n, vid |-> r.vid], NewRow(n)>>)
Delete ==
    \E n \in DOMAIN store.tables : \E r \in ToSet(LiveRows(store.tables[n])) :
        AppendWal(<<[k |-> "delete", table |-> n, vid |-> r.vid]>>)
RolledBackInsert ==
    \E n \in DOMAIN store.tables :
        /\ pending = <<>>
        /\ store.tables[n].next_vid <= MaxVid
        /\ store' = [store EXCEPT !.tables[n] = Numbered(@)]
        /\ UNCHANGED <<log, pending, clock>>

\* Time passes only while the database is closed: enough to tell two clocks apart.
CrashAndReopen ==
    /\ clock < MaxClock
    /\ clock' = clock + 1
    /\ store' = Replay(log, clock')
    /\ pending' = <<>>
    /\ UNCHANGED log

Ddl ==
    \/ CreateTable \/ DropTableStmt \/ AlterAdd \/ AlterDrop \/ AlterRenameColumn \/ AlterRenameTable
    \/ AlterRls \/ CreateIndex \/ DropIndex \/ CreateView \/ DropView \/ CreatePolicy \/ DropPolicyStmt
Next == Ddl \/ Insert \/ Update \/ Delete \/ RolledBackInsert \/ Apply \/ CrashAndReopen

Spec == Init /\ [][Next]_vars

(* ------------------------------ properties ------------------------------ *)

\* What a restart is to preserve: everything but the counters.
Durable(s) ==
    [s EXCEPT !.tables = [n \in DOMAIN @ |-> [@[n] EXCEPT !.next_vid = 0, !.next_autoinc = 0]]]

\* Whenever no statement is between its append and its application, a restart would
\* rebuild exactly the tables, rows, policies, views and indexes the running
\* database has: through the codec, in log order and with the schema changes
\* applied to the rows as they were (encode, decode, replay, apply_alter).
RecoveryRebuildsCatalog == pending = <<>> => Durable(Replay(log, clock + 1)) = Durable(store)

\* Every version has one value per column of its table's schema, whatever order
\* rows and columns came and went in (add_column, drop_column, replay_insert).
RowsFitSchema ==
    \A n \in DOMAIN store.tables : \A r \in ToSet(store.tables[n].rows) :
        Len(r.values) = Len(store.tables[n].schema.columns)

\* No version id and no autoincrement value is handed out again, not even after its
\* row was deleted and the database restarted (alloc_vid, rebuild_autoinc).
CountersAhead ==
    pending = <<>> =>
    \A n \in DOMAIN store.tables :
        LET t == store.tables[n]
        IN  \A r \in ToSet(t.rows) :
              /\ r.vid < t.next_vid
              /\ \A i \in DOMAIN t.schema.columns :
                    t.schema.columns[i].autoincrement => r.values[i].p < t.next_autoinc

\* The relations running a view reads: a CTE stands for itself only where it is in
\* scope (build_from, run_query).
Expands(body) ==
    UNION {c.reads : c \in body.with} \cup body.nested \cup (body.from \ {c.name : c \in body.with})

\* No view reaches itself, so expanding one ends (view_would_cycle: "Every stored
\* view is acyclic by this check, so query-time view expansion always terminates").
ViewExpansionTerminates ==
    \A v \in DOMAIN store.views : v \notin Closure(store.views, Expands, Expands(store.views[v]))
=============================================================================
