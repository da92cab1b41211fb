---------------------------- MODULE WireSession ----------------------------
(***************************************************************************)
(* One client's session with the wire-protocol server                      *)
(* (server/src/session.rs): the message loop, the simple and the extended  *)
(* query protocol, prepared statements and portals, the statements that    *)
(* never reach the engine and the PostgREST templates that reach it        *)
(* rewritten (server/src/datapath.rs), over one engine connection          *)
(* (engine/src/conn.rs), whose statements may fail and whose commit may    *)
(* fail, and which is rolled back when the client goes away.               *)
(*                                                                         *)
(* A statement is its kind; a write counts as one row, and a POST writes   *)
(* as many as its JSON body has.  Column shapes, values and tags are left  *)
(* out; a reply is its message type.                                       *)
(***************************************************************************)
EXTENDS Integers, Sequences

CONSTANTS
    StmtNames, PortalNames,
    Sqls,           \* the kinds of statement the client sends
    MaxBody,        \* rows in the JSON body of a POST
    Eager,          \* whether the client may send a Query before it has synced
    MaxWrites,      \* bound: rows written
    MaxRuns         \* bound: executions of a portal

\* Statements by how the server treats them.  The engine's own:
EngineSqls == {"select", "dml", "ddl", "begin", "commit", "rollback", "garbage"}
\* answered by introspect::intercept, or refused as catalog queries:
CannedSqls == {"rows", "tag", "catalog"}
\* and PostgREST's templates.
PgrstReads == {"read", "embed"}
PgrstWrites == {"post", "patch"}

ASSUME SessionAssumption ==
    /\ Sqls \subseteq EngineSqls \cup CannedSqls \cup PgrstReads \cup PgrstWrites
    /\ MaxBody \in Nat \ {0} /\ Eager \in BOOLEAN
    /\ MaxWrites \in Nat /\ MaxRuns \in Nat

VARIABLES
    conn,       \* the engine connection: in a transaction?, rows pending, rows durable
    stmts,      \* Session.stmts
    portals,    \* Session.portals
    skip,       \* Session.skip_until_sync
    failed,     \* Session.failed_txn
    out,        \* the replies to the last message
    \* History: for each bound portal, how often its statement has run and how
    \* often the client was told so; whether an error was reported in the open
    \* transaction; whether an extended message has failed since the last Sync.
    tally, dirty, mute

vars == <<conn, stmts, portals, skip, failed, out, tally, dirty, mute>>

NoStmt == "none"
NoPortal == [stmt |-> "", sql |-> NoStmt, mat |-> FALSE]
Fresh == [ran |-> 0, told |-> 0]

Init ==
    /\ conn = [txn |-> FALSE, pending |-> 0, durable |-> 0]
    /\ stmts = [s \in StmtNames |-> NoStmt]
    /\ portals = [p \in PortalNames |-> NoPortal]
    /\ skip = FALSE /\ failed = FALSE /\ dirty = FALSE /\ mute = FALSE
    /\ out = <<"Ready">>
    /\ tally = [p \in PortalNames |-> Fresh]

-----------------------------------------------------------------------------
(* The engine connection: the outcomes of a statement.                      *)

Ok(c) == [ok |-> TRUE, conn |-> c]
Err(c) == [ok |-> FALSE, conn |-> c]
Write(c) == IF c.txn THEN [c EXCEPT !.pending = @ + 1] ELSE [c EXCEPT !.durable = @ + 1]
Idle(c) == [c EXCEPT !.txn = FALSE, !.pending = 0]

\* exec_dml: atomic; in a transaction its rows stay pending, else it commits.
ExecDml(c) == {Ok(Write(c)), Err(c)}
\* exec_ddl: autocommit only.
ExecDdl(c) == IF c.txn THEN {Err(c)} ELSE {Ok(Write(c)), Err(c)}
Begin(c) == IF c.txn THEN {Err(c)} ELSE {Ok([c EXCEPT !.txn = TRUE])}
\* commit takes the transaction before it tries: a failure ends it too.
Commit(c) ==
    IF c.txn THEN {Ok([Idle(c) EXCEPT !.durable = @ + c.pending]), Err(Idle(c))}
    ELSE {Err(c)}
Rollback(c) == IF c.txn THEN {Ok(Idle(c))} ELSE {Err(c)}

\* Connection::run of a parsed statement.
Run(c, sql) ==
    CASE sql = "dml" -> ExecDml(c)
      [] sql = "ddl" -> ExecDdl(c)
      [] sql = "begin" -> Begin(c)
      [] sql = "commit" -> Commit(c)
      [] sql = "rollback" -> Rollback(c)
      [] sql = "garbage" -> {Err(c)}              \* sql::parse fails
      [] OTHER -> {Ok(c), Err(c)}                 \* a SELECT

\* run_pgrst_insert: one INSERT after another, up to the first that fails.
PgrstInsert(c, n) ==
    LET after[i \in 0..n] ==
          IF i = 0 THEN {Ok(c)}
          ELSE UNION {IF o.ok THEN ExecDml(o.conn) ELSE {o} : o \in after[i - 1]}
    IN after[n]

\* materialize without its cache: a body may be malformed, and has any length;
\* an embed fetches the base rows and then each relation.
RunPrepared(c, sql) ==
    CASE sql = "post" -> {Err(c)} \cup UNION {PgrstInsert(c, n) : n \in 1..MaxBody}
      [] sql = "patch" -> {Err(c)} \cup ExecDml(c)
      [] sql = "rows" \/ sql = "tag" -> {Ok(c)}
      [] OTHER -> Run(c, sql)

\* Whether the reply to a statement has a row description.
HasRows(sql) == sql \in {"select", "rows"} \cup PgrstReads \cup PgrstWrites

-----------------------------------------------------------------------------
(* Session state shared by the handlers.                                    *)

Status == IF ~conn.txn THEN "I" ELSE IF failed THEN "E" ELSE "T"

\* An error reported in the open transaction; a new transaction starts clean.
StillDirty(d, c, o) == o.conn.txn /\ (~o.ok \/ (d /\ c.txn))

\* Mutant: the error is sent but the transaction is not marked.
FailUnmarked(c, before) ==
    /\ out' = Append(before, "Error")
    /\ skip' = TRUE /\ mute' = TRUE
    /\ dirty' = c.txn
    /\ UNCHANGED failed

\* fail: the error, and in the extended protocol nothing more until Sync.
Fail(c, before) ==
    /\ out' = Append(before, "Error")
    /\ failed' = (failed \/ c.txn)
    /\ skip' = TRUE /\ mute' = TRUE
    /\ dirty' = c.txn

-----------------------------------------------------------------------------
(* The simple query protocol.                                               *)

\* run_simple_one, then what simple_query does after it.
RunSimpleOne(st, sql) ==
    LET outcomes == IF sql = "catalog" THEN {Err(st.conn)}
                    ELSE IF sql \in PgrstReads \cup PgrstWrites THEN {Err(st.conn)}
                    ELSE RunPrepared(st.conn, sql)
        after(o) ==
          [conn   |-> o.conn,
           err    |-> ~o.ok,
           failed |-> IF o.ok THEN st.failed /\ o.conn.txn ELSE st.failed \/ o.conn.txn,
           dirty  |-> StillDirty(st.dirty, st.conn, o),
           out    |-> st.out \o (IF ~o.ok THEN <<"Error">>
                                 ELSE IF HasRows(sql) THEN <<"RowDescription", "CommandComplete">>
                                 ELSE <<"CommandComplete">>)]
    IN IF st.err THEN {st} ELSE {after(o) : o \in outcomes}

\* simple_query's loop over the statements of the message.
RunBatch(start, batch) ==
    LET after[i \in 0..Len(batch)] ==
          IF i = 0 THEN {start}
          ELSE UNION {RunSimpleOne(st, batch[i]) : st \in after[i - 1]}
    IN after[Len(batch)]

SimpleQuery(batch) ==
    LET start == [conn |-> conn, err |-> FALSE, failed |-> failed, dirty |-> dirty,
                  out |-> IF batch = <<>> THEN <<"EmptyQuery">> ELSE <<>>]
    IN \E st \in RunBatch(start, batch) :
         /\ conn' = st.conn
         /\ failed' = st.failed
         /\ dirty' = st.dirty
         /\ out' = Append(st.out, "Ready")
         /\ UNCHANGED <<stmts, portals, skip, tally, mute>>

-----------------------------------------------------------------------------
(* The extended query protocol.                                             *)

\* A message of the extended protocol that arrives after an error.
Skipped == out' = <<>> /\ UNCHANGED <<conn, stmts, portals, skip, failed, tally, dirty, mute>>

Parse(s, sql) ==
    IF skip THEN Skipped
    ELSE IF sql \in {"catalog", "garbage"}
    THEN Fail(conn, <<>>) /\ UNCHANGED <<conn, stmts, portals, tally>>
    ELSE /\ stmts' = [stmts EXCEPT ![s] = sql]
         /\ out' = <<"ParseComplete">>
         /\ UNCHANGED <<conn, portals, skip, failed, tally, dirty, mute>>

BindPortal(p, s) ==
    IF stmts[s] = NoStmt
    THEN Fail(conn, <<>>) /\ UNCHANGED <<conn, stmts, portals, tally>>
    ELSE /\ portals' = [portals EXCEPT ![p] = [stmt |-> s, sql |-> stmts[s], mat |-> FALSE]]
         /\ tally' = [tally EXCEPT ![p] = Fresh]
         /\ out' = <<"BindComplete">>
         /\ UNCHANGED <<conn, stmts, skip, failed, dirty, mute>>

\* Mutant: skip_until_sync is not looked at.
BindAnyway(p, s) == BindPortal(p, s)

Bind(p, s) == IF skip THEN Skipped ELSE BindPortal(p, s)

\* Statement describe: a SELECT is run with NULL parameters for its columns.
DescribeStmt(s) ==
    IF skip THEN Skipped
    ELSE IF stmts[s] = NoStmt
    THEN Fail(conn, <<>>) /\ UNCHANGED <<conn, stmts, portals, tally>>
    ELSE \E o \in IF stmts[s] = "select" THEN Run(conn, "select") ELSE {Ok(conn)} :
         /\ UNCHANGED <<conn, stmts, portals, tally>>
         /\ IF o.ok
            THEN /\ out' = <<"ParameterDescription",
                             IF HasRows(stmts[s]) THEN "RowDescription" ELSE "NoData">>
                 /\ UNCHANGED <<skip, failed, dirty, mute>>
            ELSE Fail(conn, <<"ParameterDescription">>)

\* Mutant: the result cached by a portal describe is not looked for.
NoCache(p) ==
    LET sql == stmts[portals[p].stmt]
    IN IF portals[p] = NoPortal \/ sql = NoStmt THEN {Err(conn)}
       ELSE RunPrepared(conn, sql)

\* materialize: the cached result, or the statement run now.
Materialize(p) ==
    LET sql == stmts[portals[p].stmt]
    IN IF portals[p] = NoPortal THEN {Err(conn)}
       ELSE IF portals[p].mat THEN {Ok(conn)}
       ELSE IF sql = NoStmt THEN {Err(conn)}
       ELSE RunPrepared(conn, sql)

\* The runs of p once materialize is done, told apart by its cache.
Ran(p, o) ==
    tally[p].ran + (IF o.ok /\ (~portals[p].mat \/ o.conn # conn) THEN 1 ELSE 0)

DescribePortal(p) ==
    IF skip THEN Skipped
    ELSE \E o \in Materialize(p) :
         /\ conn' = o.conn
         /\ UNCHANGED stmts
         /\ tally' = [tally EXCEPT ![p].ran = Ran(p, o)]
         /\ IF o.ok
            THEN /\ portals' = [portals EXCEPT ![p].mat = TRUE]
                 /\ out' = <<IF HasRows(portals[p].sql) THEN "RowDescription" ELSE "NoData">>
                 /\ dirty' = StillDirty(dirty, conn, o)
                 /\ UNCHANGED <<skip, failed, mute>>
            ELSE Fail(o.conn, <<>>) /\ UNCHANGED portals

Execute(p) ==
    IF skip THEN Skipped
    ELSE \E o \in Materialize(p) :
         /\ conn' = o.conn
         /\ UNCHANGED stmts
         /\ IF o.ok
            THEN /\ portals' = [portals EXCEPT ![p].mat = FALSE]
                 /\ tally' = [tally EXCEPT ![p] = [ran |-> Ran(p, o), told |-> @.told + 1]]
                 /\ out' = <<"CommandComplete">>
                 /\ failed' = (failed /\ o.conn.txn)
                 /\ dirty' = StillDirty(dirty, conn, o)
                 /\ UNCHANGED <<skip, mute>>
            ELSE Fail(o.conn, <<>>) /\ UNCHANGED <<portals, tally>>

\* close does not look at skip_until_sync.
CloseStmt(s) ==
    /\ stmts' = [stmts EXCEPT ![s] = NoStmt]
    /\ out' = <<"CloseComplete">>
    /\ UNCHANGED <<conn, portals, skip, failed, tally, dirty, mute>>
ClosePortal(p) ==
    /\ portals' = [portals EXCEPT ![p] = NoPortal]
    /\ tally' = [tally EXCEPT ![p] = Fresh]
    /\ out' = <<"CloseComplete">>
    /\ UNCHANGED <<conn, stmts, skip, failed, dirty, mute>>

-----------------------------------------------------------------------------
(* serve: the message loop.                                                 *)

Sync ==
    /\ skip' = FALSE /\ mute' = FALSE
    /\ out' = <<"Ready">>
    /\ UNCHANGED <<conn, stmts, portals, failed, tally, dirty>>

Unsupported ==
    /\ Fail(conn, <<>>)
    /\ UNCHANGED <<conn, stmts, portals, tally>>

\* Terminate, or the stream ends: Connection::drop rolls back; the client
\* connects again.
Reconnect ==
    /\ conn' = Idle(conn)
    /\ stmts' = [s \in StmtNames |-> NoStmt]
    /\ portals' = [p \in PortalNames |-> NoPortal]
    /\ skip' = FALSE /\ failed' = FALSE /\ dirty' = FALSE /\ mute' = FALSE
    /\ out' = <<"Ready">>
    /\ tally' = [p \in PortalNames |-> Fresh]

\* Bounds: the client stops writing, and executing a portal.
MayWrite == conn.pending + conn.durable + MaxBody < MaxWrites

Next ==
    \/ \E a \in Sqls, b \in Sqls :
         MayWrite /\ (Eager \/ ~mute) /\ (SimpleQuery(<<a>>) \/ SimpleQuery(<<a, b>>))
    \/ (Eager \/ ~mute) /\ SimpleQuery(<<>>)
    \/ \E s \in StmtNames, sql \in Sqls : Parse(s, sql)
    \/ \E p \in PortalNames, s \in StmtNames : Bind(p, s)
    \/ \E s \in StmtNames : DescribeStmt(s) \/ CloseStmt(s)
    \/ \E p \in PortalNames :
         MayWrite /\ tally[p].told < MaxRuns /\ (DescribePortal(p) \/ Execute(p))
    \/ \E p \in PortalNames : ClosePortal(p)
    \/ Sync \/ Unsupported \/ Reconnect

Spec == Init /\ [][Next]_vars

-----------------------------------------------------------------------------
(* Properties.                                                              *)

Conn == [txn : BOOLEAN, pending : Nat, durable : Nat]

TypeOK ==
    /\ conn \in Conn
    /\ stmts \in [StmtNames -> Sqls \cup {NoStmt}]
    /\ portals \in [PortalNames -> [stmt : StmtNames \cup {NoPortal.stmt},
                                    sql : Sqls \cup {NoStmt}, mat : BOOLEAN]]
    /\ {skip, failed, dirty, mute} \subseteq BOOLEAN
    /\ tally \in [PortalNames -> [ran : Nat, told : Nat]]

\* A bound portal's statement has run as often as the client was told of its
\* completion, and once more exactly while a portal describe has run it ahead of
\* its Execute (session.rs materialize: Describe and Execute never double-run a
\* statement, and a result is never reported twice).
ExactlyOnce ==
    \A p \in PortalNames :
      tally[p].ran = tally[p].told + (IF portals[p].mat THEN 1 ELSE 0)

\* The status byte of ReadyForQuery never hides a failure: when it says that a
\* transaction is open and well, no statement of that transaction has failed,
\* through either protocol (session.rs status).
NoHiddenFailure == Status = "T" => ~dirty

\* ... and when it says that the transaction has failed, one of its statements
\* did.
FailedMeansFailed == Status = "E" => dirty

\* From an error in the extended protocol to the next Sync the server discards
\* what it reads: no statement runs, none is prepared and no portal is bound
\* (session.rs skip_until_sync).
DiscardsUntilSync ==
    [][mute /\ mute' =>
         /\ UNCHANGED conn
         /\ \A s \in StmtNames : stmts'[s] \in {stmts[s], NoStmt}
         /\ \A p \in PortalNames : portals'[p] \in {portals[p], NoPortal}]_vars

\* A portal runs the statement that was bound to it.
RunsWhatWasBound ==
    [][\A p \in PortalNames :
         tally'[p].ran > tally[p].ran => stmts[portals[p].stmt] = portals[p].sql]_vars

\* A message of the extended protocol refused outside a transaction has written
\* nothing.
RefusedWritesNothing ==
    [][out' = <<"Error">> /\ ~conn.txn => conn'.durable = conn.durable]_vars
=============================================================================
