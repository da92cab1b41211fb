------------------------ MODULE WireSessionProofs ------------------------
(***************************************************************************)
(* Proofs about WireSession: a portal's statement runs exactly once per    *)
(* completion the client is told of, the status byte never hides a         *)
(* failure, and nothing runs between an error and Sync.                    *)
(***************************************************************************)
EXTENDS WireSession, InductionLemmas

Outcome == [ok : BOOLEAN, conn : Conn]

-----------------------------------------------------------------------------
(* The outcomes of statements are outcomes.                                 *)

\* What a statement leaves of the connection.
LEMMA ConnSteps ==
    ASSUME NEW c \in Conn
    PROVE  /\ Write(c) \in Conn /\ Idle(c) \in Conn
           /\ [c EXCEPT !.txn = TRUE] \in Conn
           /\ [Idle(c) EXCEPT !.durable = @ + c.pending] \in Conn
           /\ Ok(c) \in Outcome /\ Err(c) \in Outcome
<1>1. c.txn \in BOOLEAN /\ c.pending \in Nat /\ c.durable \in Nat
  BY DEF Conn
<1>2. c = [txn |-> c.txn, pending |-> c.pending, durable |-> c.durable]
  BY DEF Conn
<1>3. Write(c) \in Conn
  BY <1>1, <1>2 DEF Conn, Write
<1>4. Idle(c) \in Conn
  BY DEF Conn, Idle
<1>5. [Idle(c) EXCEPT !.durable = @ + c.pending] \in Conn
  <2>1. \A d \in Conn, m \in Nat : [d EXCEPT !.durable = @ + m] \in Conn
    BY DEF Conn
  <2> QED BY <1>1, <1>4, <2>1
<1>6. [c EXCEPT !.txn = TRUE] \in Conn
  BY <1>1, <1>2 DEF Conn
<1>7. Ok(c) \in Outcome /\ Err(c) \in Outcome
  BY DEF Ok, Err, Outcome
<1> QED BY <1>3, <1>4, <1>5, <1>6, <1>7

\* What the engine answers to a statement or a row.
LEMMA RunType ==
    ASSUME NEW c \in Conn, NEW sql
    PROVE  Run(c, sql) \subseteq Outcome /\ ExecDml(c) \subseteq Outcome
<1>1. \A d \in Conn : Ok(d) \in Outcome /\ Err(d) \in Outcome
  BY ConnSteps
<1>2. /\ Write(c) \in Conn /\ Idle(c) \in Conn
      /\ [c EXCEPT !.txn = TRUE] \in Conn
      /\ [Idle(c) EXCEPT !.durable = @ + c.pending] \in Conn
  BY ConnSteps
<1>3. ExecDml(c) \subseteq Outcome
  BY <1>1, <1>2 DEF ExecDml
<1>4. ExecDdl(c) \subseteq Outcome /\ Begin(c) \subseteq Outcome
  BY <1>1, <1>2 DEF ExecDdl, Begin
<1>5. Commit(c) \subseteq Outcome /\ Rollback(c) \subseteq Outcome
  BY <1>1, <1>2 DEF Commit, Rollback
<1> QED
  BY <1>1, <1>3, <1>4, <1>5 DEF Run

\* What a POST of n rows may come to.
LEMMA PgrstInsertType ==
    ASSUME NEW c \in Conn, NEW n \in Nat
    PROVE  PgrstInsert(c, n) \subseteq Outcome
<1> DEFINE Step(S) == UNION {IF o.ok THEN ExecDml(o.conn) ELSE {o} : o \in S}
           Sets  == SUBSET Outcome
           first == {Ok(c)}
           F     == [i \in 1..n |-> [S \in Sets |-> Step(S)]]
           Def(f) == [i \in 0..n |-> IF i = 0 THEN {Ok(c)} ELSE Step(f[i - 1])]
           after == CHOOSE f : f = Def(f)
<1>1. \A S \in Sets : Step(S) \in Sets
  <2> TAKE S \in Sets
  <2>1. ASSUME NEW o \in S PROVE (IF o.ok THEN ExecDml(o.conn) ELSE {o}) \subseteq Outcome
    <3>1. o \in Outcome /\ o.conn \in Conn
      BY DEF Outcome
    <3>2. ExecDml(o.conn) \subseteq Outcome
      BY <3>1, RunType
    <3> QED BY <3>1, <3>2
  <2> QED BY <2>1
<1>2. first \in Sets
  BY ConnSteps
<1>3. \E g : Iterates(g, Sets, first, n, F)
  <2>1. F \in [1..n -> [Sets -> Sets]]
    <3> HIDE DEF Step, Sets
    <3> QED BY <1>1
  <2> HIDE DEF F, Sets, first
  <2> QED BY <1>2, <2>1, IterationExists
<1>4. PICK g : Iterates(g, Sets, first, n, F)
  BY <1>3
<1>5. /\ g \in [0..n -> Sets] /\ g[0] = first
      /\ \A i \in 1..n : g[i] = Step(g[i - 1])
  <2> HIDE DEF Step, Sets, first
  <2> QED BY <1>4 DEF Iterates
<1>6. g = Def(g)
  <2> HIDE DEF Step, Sets
  <2> QED BY <1>5
<1>7. after = Def(after)
  <2> HIDE DEF Def
  <2> QED BY <1>6
<1>8. after[0] = first /\ \A i \in 1..n : after[i] = Step(after[i - 1])
  <2>1. ASSUME NEW f, f = Def(f)
        PROVE  f[0] = first /\ \A i \in 1..n : f[i] = Step(f[i - 1])
    <3>1. Def(f)[0] = first /\ \A i \in 1..n : Def(f)[i] = Step(f[i - 1])
      <4> HIDE DEF Step
      <4> QED OBVIOUS
    <3> HIDE DEF Def, Step, first
    <3> QED BY <2>1, <3>1
  <2> HIDE DEF after, Def, Step, first
  <2> QED BY <1>7, <2>1
<1>9. AgreeOnSteps(g, after, n)
  <2> HIDE DEF after, Step, first
  <2> QED BY <1>5, <1>8 DEF AgreeOnSteps
<1>10. g[n] = after[n]
  <2> HIDE DEF after
  <2> QED BY <1>9, IterationUnique
<1>11. PgrstInsert(c, n) = after[n]
  BY DEF PgrstInsert
<1>12. g[n] \in Sets
  BY <1>5
<1> HIDE DEF after
<1> QED BY <1>10, <1>11, <1>12

\* What a prepared statement may come to, with the PostgREST templates.
LEMMA RunPreparedType ==
    ASSUME NEW c \in Conn, NEW sql
    PROVE  RunPrepared(c, sql) \subseteq Outcome
<1>1. Ok(c) \in Outcome /\ Err(c) \in Outcome
  BY ConnSteps
<1>2. ExecDml(c) \subseteq Outcome /\ Run(c, sql) \subseteq Outcome
  BY RunType
<1>3. \A n \in 1..MaxBody : PgrstInsert(c, n) \subseteq Outcome
  BY PgrstInsertType
<1> QED
  BY <1>1, <1>2, <1>3 DEF RunPrepared

\* What running a portal may come to.
LEMMA MaterializeType ==
    ASSUME TypeOK, NEW p
    PROVE  Materialize(p) \subseteq Outcome
<1>1. conn \in Conn
  BY DEF TypeOK
<1>2. Ok(conn) \in Outcome /\ Err(conn) \in Outcome
  BY <1>1, ConnSteps
<1>3. RunPrepared(conn, stmts[portals[p].stmt]) \subseteq Outcome
  BY <1>1, RunPreparedType
<1> QED
  BY <1>2, <1>3 DEF Materialize

-----------------------------------------------------------------------------
(* The simple query protocol never hides a failure, whatever the batch.     *)

Replies == {"Error", "EmptyQuery", "RowDescription", "CommandComplete"}

\* The states of simple_query's loop in which a failure in the open transaction
\* is on record.
Honest == {st \in [conn : Conn, err : BOOLEAN, failed : BOOLEAN, dirty : BOOLEAN,
                   out : Seq(Replies)] :
              st.conn.txn /\ st.dirty => st.failed}

\* One statement of a batch: its failure is recorded while the transaction is open.
LEMMA RunSimpleOneHonest ==
    ASSUME NEW st \in Honest, NEW sql
    PROVE  RunSimpleOne(st, sql) \subseteq Honest
<1> DEFINE outcomes == IF sql = "catalog" THEN {Err(st.conn)}
                       ELSE IF sql \in PgrstReads \cup PgrstWrites THEN {Err(st.conn)}
                       ELSE RunPrepared(st.conn, sql)
           reply(o) == IF ~o.ok THEN <<"Error">>
                       ELSE IF HasRows(sql) THEN <<"RowDescription", "CommandComplete">>
                       ELSE <<"CommandComplete">>
           after(o) ==
             [conn   |-> o.conn,
              err    |-> ~o.ok,
              failed |-> IF o.ok THEN st.failed /\ o.conn.txn ELSE st.failed \/ o.conn.txn,
              dirty  |-> StillDirty(st.dirty, st.conn, o),
              out    |-> st.out \o reply(o)]
<1>1. /\ st.conn \in Conn /\ st.out \in Seq(Replies)
      /\ st.failed \in BOOLEAN /\ st.dirty \in BOOLEAN
      /\ st.conn.txn /\ st.dirty => st.failed
  BY DEF Honest
<1>2. outcomes \subseteq Outcome
  BY <1>1, ConnSteps, RunPreparedType
<1>3. ASSUME NEW o \in Outcome PROVE after(o) \in Honest
  <2>1. o.ok \in BOOLEAN /\ o.conn \in Conn /\ o.conn.txn \in BOOLEAN /\ st.conn.txn \in BOOLEAN
    BY <1>1 DEF Outcome, Conn
  <2>2. reply(o) \in Seq(Replies)
    <3>1. /\ <<"Error">> \in Seq(Replies) /\ <<"CommandComplete">> \in Seq(Replies)
          /\ <<"RowDescription", "CommandComplete">> \in Seq(Replies)
      BY DEF Replies
    <3> QED BY <3>1, Zenon
  <2>3. st.out \o reply(o) \in Seq(Replies)
    <3> HIDE DEF reply
    <3> QED BY <1>1, <2>2
  <2> DEFINE f == IF o.ok THEN st.failed /\ o.conn.txn ELSE st.failed \/ o.conn.txn
             d == StillDirty(st.dirty, st.conn, o)
  <2>4. f \in BOOLEAN /\ d \in BOOLEAN
    BY <1>1, <2>1 DEF StillDirty
  <2>5. o.conn.txn /\ d => f
    BY <1>1, <2>1 DEF StillDirty
  <2> HIDE DEF f, d, reply
  <2>6. [conn |-> o.conn, err |-> ~o.ok, failed |-> f, dirty |-> d,
         out |-> st.out \o reply(o)] \in Honest
    BY <2>1, <2>3, <2>4, <2>5 DEF Honest
  <2> QED BY <2>6 DEF f, d
<1>4. RunSimpleOne(st, sql) = IF st.err THEN {st} ELSE {after(o) : o \in outcomes}
  BY DEF RunSimpleOne
<1> HIDE DEF after, outcomes
<1> QED
  BY <1>2, <1>3, <1>4

\* A batch of any length does not lose the record.
LEMMA RunBatchHonest ==
    ASSUME NEW start \in Honest, NEW batch, Len(batch) \in Nat
    PROVE  RunBatch(start, batch) \subseteq Honest
<1> DEFINE n == Len(batch)
           Step(S, i) == UNION {RunSimpleOne(st, batch[i]) : st \in S}
           Sets  == SUBSET Honest
           first == {start}
           F     == [i \in 1..n |-> [S \in Sets |-> Step(S, i)]]
           Def(f) == [i \in 0..n |-> IF i = 0 THEN {start} ELSE Step(f[i - 1], i)]
           after == CHOOSE f : f = Def(f)
<1>1. \A S \in Sets, i \in 1..n : Step(S, i) \in Sets
  BY RunSimpleOneHonest
<1>2. first \in Sets /\ n \in Nat
  OBVIOUS
<1>3. \E g : Iterates(g, Sets, first, n, F)
  <2>1. F \in [1..n -> [Sets -> Sets]]
    <3> HIDE DEF Step, Sets, n
    <3> QED BY <1>1
  <2> HIDE DEF F, Sets, first, n
  <2> QED BY <1>2, <2>1, IterationExists
<1>4. PICK g : Iterates(g, Sets, first, n, F)
  BY <1>3
<1>5. /\ g \in [0..n -> Sets] /\ g[0] = first
      /\ \A i \in 1..n : g[i] = Step(g[i - 1], i)
  <2> HIDE DEF Step, Sets, first, n
  <2> QED BY <1>4 DEF Iterates
<1>6. g = Def(g)
  <2> HIDE DEF Step, Sets, n
  <2> QED BY <1>2, <1>5
<1>7. after = Def(after)
  <2> HIDE DEF Def
  <2> QED BY <1>6
<1>8. after[0] = first /\ \A i \in 1..n : after[i] = Step(after[i - 1], i)
  <2>1. ASSUME NEW f, f = Def(f)
        PROVE  f[0] = first /\ \A i \in 1..n : f[i] = Step(f[i - 1], i)
    <3>1. Def(f)[0] = first /\ \A i \in 1..n : Def(f)[i] = Step(f[i - 1], i)
      <4> HIDE DEF Step, n
      <4> QED BY <1>2
    <3> HIDE DEF Def, Step, first, n
    <3> QED BY <2>1, <3>1
  <2> HIDE DEF after, Def, Step, first, n
  <2> QED BY <1>7, <2>1
<1>9. AgreeOnSteps(g, after, n)
  <2> HIDE DEF after, Step, first, n
  <2> QED BY <1>5, <1>8 DEF AgreeOnSteps
<1>10. g[n] = after[n] /\ g[n] \in Sets
  <2> HIDE DEF after, Sets, n
  <2> QED BY <1>2, <1>5, <1>9, IterationUnique
<1>11. RunBatch(start, batch) = after[n]
  BY DEF RunBatch
<1> HIDE DEF after, n
<1> QED BY <1>10, <1>11

-----------------------------------------------------------------------------
(* The inductive invariant.                                                 *)

\* What the session knows of its connection: between an error in the extended
\* protocol and Sync it is skipping.
SessionInv ==
    /\ TypeOK
    /\ ExactlyOnce
    /\ conn.txn /\ dirty => failed
    /\ mute => skip

\* A new session satisfies the invariant.
LEMMA InitInv == Init => SessionInv
<1> SUFFICES ASSUME Init PROVE SessionInv
  OBVIOUS
<1>1. TypeOK
  BY DEF Init, TypeOK, Conn, NoStmt, NoPortal, Fresh
<1>2. ExactlyOnce
  <2>1. ASSUME NEW p \in PortalNames
        PROVE  tally[p].ran = 0 /\ tally[p].told = 0 /\ ~portals[p].mat
    BY DEF Init, NoPortal, Fresh
  <2> QED BY <2>1 DEF ExactlyOnce
<1> QED
  BY <1>1, <1>2 DEF Init, SessionInv

\* A refused message: the error is on record and the session skips until Sync.
LEMMA FailInv ==
    ASSUME SessionInv, NEW c \in Conn, NEW before, Fail(c, before), conn' = c,
           stmts' = stmts, portals' = portals,
           tally' \in [PortalNames -> [ran : Nat, told : Nat]], ExactlyOnce'
    PROVE  SessionInv'
  BY DEF SessionInv, TypeOK, Fail, Conn, NoStmt, NoPortal

\* A simple query runs a batch, and touches no portal.
LEMMA SimpleQueryInv ==
    ASSUME SessionInv, NEW batch, Len(batch) \in Nat, SimpleQuery(batch)
    PROVE  SessionInv'
<1> DEFINE start == [conn |-> conn, err |-> FALSE, failed |-> failed, dirty |-> dirty,
                     out |-> IF batch = <<>> THEN <<"EmptyQuery">> ELSE <<>>]
<1>1. start \in Honest
  <2>1. (IF batch = <<>> THEN <<"EmptyQuery">> ELSE <<>>) \in Seq(Replies)
    <3>1. <<"EmptyQuery">> \in Seq(Replies) /\ <<>> \in Seq(Replies)
      BY DEF Replies
    <3> QED BY <3>1, Zenon
  <2> DEFINE o == IF batch = <<>> THEN <<"EmptyQuery">> ELSE <<>>
  <2> HIDE DEF o
  <2>2. [conn |-> conn, err |-> FALSE, failed |-> failed, dirty |-> dirty, out |-> o] \in Honest
    BY <2>1 DEF Honest, SessionInv, TypeOK, o
  <2> QED BY <2>2 DEF o
<1>2. PICK st \in RunBatch(start, batch) :
         /\ conn' = st.conn /\ failed' = st.failed /\ dirty' = st.dirty
         /\ UNCHANGED <<stmts, portals, skip, tally, mute>>
  BY DEF SimpleQuery
<1>3. st \in Honest
  <2> HIDE DEF start
  <2> QED BY <1>1, RunBatchHonest
<1>4. /\ conn' \in Conn /\ failed' \in BOOLEAN /\ dirty' \in BOOLEAN
      /\ conn'.txn /\ dirty' => failed'
  BY <1>2, <1>3 DEF Honest
<1> QED
  BY <1>2, <1>4 DEF SessionInv, TypeOK, ExactlyOnce

\* Parse keeps a statement, or fails and mutes the session.
LEMMA ParseInv ==
    ASSUME SessionInv, NEW s \in StmtNames, NEW sql \in Sqls, Parse(s, sql)
    PROVE  SessionInv'
<1>1. CASE skip
  BY <1>1 DEF SessionInv, TypeOK, ExactlyOnce, Parse, Skipped
<1>2. CASE ~skip /\ sql \in {"catalog", "garbage"}
  <2>1. Fail(conn, <<>>) /\ UNCHANGED <<conn, stmts, portals, tally>>
    BY <1>2 DEF Parse
  <2>2. ExactlyOnce' /\ tally' \in [PortalNames -> [ran : Nat, told : Nat]] /\ conn \in Conn
    BY <2>1 DEF SessionInv, ExactlyOnce, TypeOK
  <2> QED BY <2>1, <2>2, FailInv
<1>3. CASE ~skip /\ sql \notin {"catalog", "garbage"}
  BY <1>3 DEF SessionInv, TypeOK, ExactlyOnce, Parse
<1> QED BY <1>1, <1>2, <1>3

\* Bind makes a portal that has not run.
LEMMA BindInv ==
    ASSUME SessionInv, NEW p \in PortalNames, NEW s \in StmtNames, Bind(p, s)
    PROVE  SessionInv'
<1>1. CASE skip
  BY <1>1 DEF SessionInv, TypeOK, ExactlyOnce, Bind, Skipped
<1>2. CASE ~skip /\ stmts[s] = NoStmt
  <2>1. Fail(conn, <<>>) /\ UNCHANGED <<conn, stmts, portals, tally>>
    BY <1>2 DEF Bind, BindPortal
  <2>2. ExactlyOnce' /\ tally' \in [PortalNames -> [ran : Nat, told : Nat]] /\ conn \in Conn
    BY <2>1 DEF SessionInv, ExactlyOnce, TypeOK
  <2> QED BY <2>1, <2>2, FailInv
<1>3. CASE ~skip /\ stmts[s] # NoStmt
  <2>1. /\ portals' = [portals EXCEPT ![p] = [stmt |-> s, sql |-> stmts[s], mat |-> FALSE]]
        /\ tally' = [tally EXCEPT ![p] = Fresh]
        /\ UNCHANGED <<conn, stmts, skip, failed, dirty, mute>>
    BY <1>3 DEF Bind, BindPortal
  <2>2. stmts[s] \in Sqls \cup {NoStmt}
    BY DEF SessionInv, TypeOK
  <2>3. TypeOK'
    BY <2>1, <2>2 DEF SessionInv, TypeOK, Fresh
  <2>4. ExactlyOnce'
    BY <2>1 DEF SessionInv, TypeOK, ExactlyOnce, Fresh
  <2> QED BY <2>1, <2>3, <2>4 DEF SessionInv
<1> QED BY <1>1, <1>2, <1>3

\* Describe of a statement runs nothing.
LEMMA DescribeStmtInv ==
    ASSUME SessionInv, NEW s \in StmtNames, DescribeStmt(s)
    PROVE  SessionInv'
<1>1. CASE skip
  BY <1>1 DEF SessionInv, TypeOK, ExactlyOnce, DescribeStmt, Skipped
<1>2. CASE ~skip
  <2>1. UNCHANGED <<conn, stmts, portals, tally>>
    BY <1>2 DEF DescribeStmt
  <2>2. ExactlyOnce' /\ tally' \in [PortalNames -> [ran : Nat, told : Nat]] /\ conn \in Conn
    BY <2>1 DEF SessionInv, ExactlyOnce, TypeOK
  <2>3. \/ \E before : Fail(conn, before)
        \/ UNCHANGED <<skip, failed, dirty, mute>>
    BY <1>2 DEF DescribeStmt
  <2>4. CASE \E before : Fail(conn, before)
    BY <2>1, <2>2, <2>4, FailInv
  <2>5. CASE UNCHANGED <<skip, failed, dirty, mute>>
    BY <2>1, <2>2, <2>5 DEF SessionInv, TypeOK
  <2> QED BY <2>3, <2>4, <2>5
<1> QED BY <1>1, <1>2

\* A successful materialize of a bound portal runs its statement unless the
\* result is cached.
LEMMA RanOnce ==
    ASSUME SessionInv, NEW p \in PortalNames, NEW o \in Materialize(p)
    PROVE  /\ o \in Outcome
           /\ Ran(p, o) = tally[p].ran + (IF o.ok /\ ~portals[p].mat THEN 1 ELSE 0)
           /\ tally[p].ran \in Nat /\ tally[p].told \in Nat
           /\ tally[p].ran = tally[p].told + (IF portals[p].mat THEN 1 ELSE 0)
<1>1. o \in Outcome
  BY MaterializeType DEF SessionInv
<1>2. CASE portals[p].mat
  <2>1. o.conn = conn \/ ~o.ok
    BY <1>2 DEF Materialize, Ok, Err
  <2> QED
    BY <1>1, <1>2, <2>1 DEF Ran, SessionInv, TypeOK, ExactlyOnce
<1>3. CASE ~portals[p].mat
  BY <1>1, <1>3 DEF Ran, SessionInv, TypeOK, ExactlyOnce
<1> QED BY <1>2, <1>3

\* Describe of a portal may run it ahead, once.
LEMMA DescribePortalInv ==
    ASSUME SessionInv, NEW p \in PortalNames, DescribePortal(p)
    PROVE  SessionInv'
<1>1. CASE skip
  BY <1>1 DEF SessionInv, TypeOK, ExactlyOnce, DescribePortal, Skipped
<1>2. CASE ~skip
  <2>1. PICK o \in Materialize(p) :
         /\ conn' = o.conn
         /\ UNCHANGED stmts
         /\ tally' = [tally EXCEPT ![p].ran = Ran(p, o)]
         /\ IF o.ok
            THEN /\ portals' = [portals EXCEPT ![p].mat = TRUE]
                 /\ dirty' = StillDirty(dirty, conn, o)
                 /\ UNCHANGED <<skip, failed, mute>>
            ELSE Fail(o.conn, <<>>) /\ UNCHANGED portals
    BY <1>2 DEF DescribePortal
  <2>2. /\ o \in Outcome
        /\ Ran(p, o) = tally[p].ran + (IF o.ok /\ ~portals[p].mat THEN 1 ELSE 0)
        /\ tally[p].ran \in Nat /\ tally[p].told \in Nat
        /\ tally[p].ran = tally[p].told + (IF portals[p].mat THEN 1 ELSE 0)
    BY RanOnce
  <2>3. o.conn \in Conn /\ o.ok \in BOOLEAN /\ o.conn.txn \in BOOLEAN
    BY <2>2 DEF Outcome, Conn
  <2>4. tally' \in [PortalNames -> [ran : Nat, told : Nat]]
    <3>1. Ran(p, o) \in Nat
      BY <2>2
    <3> QED BY <2>1, <3>1 DEF SessionInv, TypeOK
  <2>5. /\ tally'[p].ran = Ran(p, o) /\ tally'[p].told = tally[p].told
        /\ \A q \in PortalNames \ {p} : tally'[q] = tally[q]
    BY <2>1 DEF SessionInv, TypeOK
  <2>6. CASE o.ok
    <3>1. /\ portals' = [portals EXCEPT ![p].mat = TRUE]
          /\ dirty' = StillDirty(dirty, conn, o)
          /\ UNCHANGED <<skip, failed, mute>>
      BY <2>1, <2>6
    <3>2. portals'[p].mat /\ \A q \in PortalNames \ {p} : portals'[q] = portals[q]
      BY <3>1 DEF SessionInv, TypeOK
    <3>3. ExactlyOnce'
      <4>1. Ran(p, o) = tally[p].told + 1
        BY <2>2, <2>6
      <4> QED BY <2>5, <3>2, <4>1 DEF SessionInv, ExactlyOnce
    <3>4. dirty' \in BOOLEAN /\ (conn'.txn /\ dirty' => failed')
      BY <2>1, <2>3, <2>6, <3>1 DEF SessionInv, TypeOK, StillDirty
    <3>5. TypeOK'
      BY <2>1, <2>3, <2>4, <3>1, <3>4 DEF SessionInv, TypeOK
    <3> QED BY <3>1, <3>3, <3>4, <3>5 DEF SessionInv
  <2>7. CASE ~o.ok
    <3>1. Fail(o.conn, <<>>) /\ UNCHANGED portals
      BY <2>1, <2>7
    <3>2. ExactlyOnce'
      <4>1. Ran(p, o) = tally[p].ran
        BY <2>2, <2>7
      <4> QED BY <2>5, <3>1, <4>1 DEF SessionInv, ExactlyOnce
    <3> QED BY <2>1, <2>3, <2>4, <3>1, <3>2, FailInv
  <2> QED BY <2>3, <2>6, <2>7
<1> QED BY <1>1, <1>2

\* Execute tells of the run a Describe has done, or runs the portal.
LEMMA ExecuteInv ==
    ASSUME SessionInv, NEW p \in PortalNames, Execute(p)
    PROVE  SessionInv'
<1>1. CASE skip
  BY <1>1 DEF SessionInv, TypeOK, ExactlyOnce, Execute, Skipped
<1>2. CASE ~skip
  <2>1. PICK o \in Materialize(p) :
         /\ conn' = o.conn
         /\ UNCHANGED stmts
         /\ IF o.ok
            THEN /\ portals' = [portals EXCEPT ![p].mat = FALSE]
                 /\ tally' = [tally EXCEPT ![p] = [ran |-> Ran(p, o), told |-> @.told + 1]]
                 /\ failed' = (failed /\ o.conn.txn)
                 /\ dirty' = StillDirty(dirty, conn, o)
                 /\ UNCHANGED <<skip, mute>>
            ELSE Fail(o.conn, <<>>) /\ UNCHANGED <<portals, tally>>
    BY <1>2 DEF Execute
  <2>2. /\ o \in Outcome
        /\ Ran(p, o) = tally[p].ran + (IF o.ok /\ ~portals[p].mat THEN 1 ELSE 0)
        /\ tally[p].ran \in Nat /\ tally[p].told \in Nat
        /\ tally[p].ran = tally[p].told + (IF portals[p].mat THEN 1 ELSE 0)
    BY RanOnce
  <2>3. o.conn \in Conn /\ o.ok \in BOOLEAN /\ o.conn.txn \in BOOLEAN
    BY <2>2 DEF Outcome, Conn
  <2>4. CASE o.ok
    <3>1. /\ portals' = [portals EXCEPT ![p].mat = FALSE]
          /\ tally' = [tally EXCEPT ![p] = [ran |-> Ran(p, o), told |-> @.told + 1]]
          /\ failed' = (failed /\ o.conn.txn)
          /\ dirty' = StillDirty(dirty, conn, o)
          /\ UNCHANGED <<skip, mute>>
      BY <2>1, <2>4
    <3>2. ~portals'[p].mat /\ \A q \in PortalNames \ {p} : portals'[q] = portals[q]
      BY <3>1 DEF SessionInv, TypeOK
    <3>3. Ran(p, o) = tally[p].told + 1
      BY <2>2, <2>4
    <3>4. /\ tally'[p].ran = Ran(p, o) /\ tally'[p].told = tally[p].told + 1
          /\ \A q \in PortalNames \ {p} : tally'[q] = tally[q]
      BY <3>1 DEF SessionInv, TypeOK
    <3>5. ExactlyOnce'
      BY <2>2, <3>2, <3>3, <3>4 DEF SessionInv, ExactlyOnce
    <3>6. /\ dirty' \in BOOLEAN /\ failed' \in BOOLEAN
          /\ (conn'.txn /\ dirty' => failed')
      BY <2>1, <2>3, <2>4, <3>1 DEF SessionInv, TypeOK, StillDirty
    <3>7. tally' \in [PortalNames -> [ran : Nat, told : Nat]]
      BY <2>2, <3>1, <3>3 DEF SessionInv, TypeOK
    <3>8. TypeOK'
      BY ZenonT(30), <2>1, <2>3, <3>1, <3>6, <3>7 DEF SessionInv, TypeOK
    <3> QED BY <3>1, <3>5, <3>6, <3>8 DEF SessionInv
  <2>5. CASE ~o.ok
    <3>1. Fail(o.conn, <<>>) /\ UNCHANGED <<portals, tally>>
      BY <2>1, <2>5
    <3>2. ExactlyOnce' /\ tally' \in [PortalNames -> [ran : Nat, told : Nat]]
      BY <3>1 DEF SessionInv, ExactlyOnce, TypeOK
    <3> QED BY <2>1, <2>3, <3>1, <3>2, FailInv
  <2> QED BY <2>3, <2>4, <2>5
<1> QED BY <1>1, <1>2

\* Close forgets a statement or a portal with its account.
LEMMA CloseInv ==
    ASSUME SessionInv,
           \/ \E s \in StmtNames : CloseStmt(s)
           \/ \E p \in PortalNames : ClosePortal(p)
    PROVE  SessionInv'
<1>1. ASSUME NEW s \in StmtNames, CloseStmt(s) PROVE SessionInv'
  BY <1>1 DEF SessionInv, TypeOK, ExactlyOnce, CloseStmt
<1>2. ASSUME NEW p \in PortalNames, ClosePortal(p) PROVE SessionInv'
  <2>1. NoPortal \in [stmt : StmtNames \cup {NoPortal.stmt},
                      sql : Sqls \cup {NoStmt}, mat : BOOLEAN] /\ ~NoPortal.mat
    BY DEF NoPortal
  <2>2. Fresh \in [ran : Nat, told : Nat] /\ Fresh.ran = 0 /\ Fresh.told = 0
    BY DEF Fresh
  <2>3. TypeOK'
    BY <1>2, <2>1, <2>2 DEF SessionInv, TypeOK, ClosePortal
  <2>4. ExactlyOnce'
    BY <1>2, <2>1, <2>2 DEF SessionInv, TypeOK, ClosePortal, ExactlyOnce
  <2> QED BY <1>2, <2>3, <2>4 DEF SessionInv, ClosePortal
<1> QED BY <1>1, <1>2

\* Sync, an unsupported message and a new connection.
LEMMA LoopInv ==
    ASSUME SessionInv, Sync \/ Unsupported \/ Reconnect
    PROVE  SessionInv'
<1>1. CASE Sync
  BY <1>1 DEF SessionInv, TypeOK, ExactlyOnce, Sync
<1>2. CASE Unsupported
  <2>1. ExactlyOnce' /\ tally' \in [PortalNames -> [ran : Nat, told : Nat]] /\ conn \in Conn
    BY <1>2 DEF SessionInv, ExactlyOnce, TypeOK, Unsupported
  <2> QED BY <1>2, <2>1, FailInv DEF Unsupported
<1>3. CASE Reconnect
  <2>1. NoPortal \in [stmt : StmtNames \cup {NoPortal.stmt},
                      sql : Sqls \cup {NoStmt}, mat : BOOLEAN] /\ ~NoPortal.mat
    BY DEF NoPortal
  <2>2. Fresh \in [ran : Nat, told : Nat] /\ Fresh.ran = 0 /\ Fresh.told = 0
    BY DEF Fresh
  <2>3. Idle(conn) \in Conn
    BY ConnSteps DEF SessionInv, TypeOK
  <2>4. TypeOK'
    BY <1>3, <2>1, <2>2, <2>3 DEF SessionInv, TypeOK, Reconnect
  <2>5. ExactlyOnce'
    BY <1>3, <2>1, <2>2 DEF ExactlyOnce, Reconnect
  <2> QED BY <1>3, <2>4, <2>5 DEF SessionInv, Reconnect
<1> QED BY <1>1, <1>2, <1>3

\* Every message preserves the invariant.
LEMMA NextInv == SessionInv /\ [Next]_vars => SessionInv'
<1> SUFFICES ASSUME SessionInv, [Next]_vars PROVE SessionInv'
  OBVIOUS
<1>1. CASE \E a \in Sqls, b \in Sqls : SimpleQuery(<<a>>) \/ SimpleQuery(<<a, b>>)
  <2>1. \A a, b : Len(<<a>>) \in Nat /\ Len(<<a, b>>) \in Nat
    OBVIOUS
  <2> QED BY <1>1, <2>1, SimpleQueryInv
<1>2. CASE SimpleQuery(<<>>)
  <2>1. Len(<<>>) \in Nat
    OBVIOUS
  <2> QED BY <1>2, <2>1, SimpleQueryInv
<1>3. CASE \E s \in StmtNames, sql \in Sqls : Parse(s, sql)
  BY <1>3, ParseInv
<1>4. CASE \E p \in PortalNames, s \in StmtNames : Bind(p, s)
  BY <1>4, BindInv
<1>5. CASE \E s \in StmtNames : DescribeStmt(s)
  BY <1>5, DescribeStmtInv
<1>6. CASE \E p \in PortalNames : DescribePortal(p) \/ Execute(p)
  BY <1>6, DescribePortalInv, ExecuteInv
<1>7. CASE (\E s \in StmtNames : CloseStmt(s)) \/ \E p \in PortalNames : ClosePortal(p)
  BY <1>7, CloseInv
<1>8. CASE Sync \/ Unsupported \/ Reconnect
  BY <1>8, LoopInv
<1>9. CASE UNCHANGED vars
  BY <1>9 DEF SessionInv, TypeOK, ExactlyOnce, vars
<1> QED
  BY <1>1, <1>2, <1>3, <1>4, <1>5, <1>6, <1>7, <1>8, <1>9 DEF Next

-----------------------------------------------------------------------------
(* The theorems.                                                            *)

\* The session's invariant holds for any names, any statements and any length
\* of a POST's body.
THEOREM SessionInvariance == Spec => []SessionInv
  BY InitInv, NextInv, PTL DEF Spec

\* Describe and Execute never double-run a statement, and a completion is never
\* reported twice (session.rs materialize).
THEOREM PortalsRunExactlyOnce == Spec => []ExactlyOnce
<1>1. SessionInv => ExactlyOnce
  BY DEF SessionInv
<1> QED
  BY <1>1, SessionInvariance, PTL

\* The status byte of ReadyForQuery never says "T" in a transaction one of whose
\* statements has failed, through either protocol (session.rs status).
THEOREM StatusHidesNoFailure == Spec => []NoHiddenFailure
<1>1. SessionInv => NoHiddenFailure
  BY DEF SessionInv, NoHiddenFailure, Status
<1> QED
  BY <1>1, SessionInvariance, PTL

\* With a client that waits for Sync before it sends a simple query, nothing runs
\* and nothing is prepared or bound from an error to the next Sync (session.rs
\* skip_until_sync).
THEOREM NothingRunsUntilSync == ~Eager => (Spec => DiscardsUntilSync)
<1> DEFINE Kept == /\ UNCHANGED conn
                   /\ \A s \in StmtNames : stmts'[s] \in {stmts[s], NoStmt}
                   /\ \A p \in PortalNames : portals'[p] \in {portals[p], NoPortal}
<1>1. ASSUME ~Eager, SessionInv, [Next]_vars, mute, mute' PROVE Kept
  <2>1. skip /\ (\A s \in StmtNames : stmts[s] = stmts[s])
    BY <1>1 DEF SessionInv
  <2>2. CASE Skipped \/ UNCHANGED vars
    BY <2>2 DEF Skipped, vars
  <2>3. CASE (\E s \in StmtNames : CloseStmt(s)) \/ \E p \in PortalNames : ClosePortal(p)
    BY <1>1, <2>3 DEF CloseStmt, ClosePortal, SessionInv, TypeOK
  <2>4. CASE Sync \/ Unsupported \/ Reconnect
    <3>1. Unsupported
      BY <1>1, <2>4 DEF Sync, Reconnect
    <3> QED BY <3>1 DEF Unsupported
  <2>5. CASE \E s \in StmtNames, sql \in Sqls : Parse(s, sql)
    BY <2>1, <2>2, <2>5 DEF Parse
  <2>6. CASE \E p \in PortalNames, s \in StmtNames : Bind(p, s)
    BY <2>1, <2>2, <2>6 DEF Bind
  <2>7. CASE \E s \in StmtNames : DescribeStmt(s)
    BY <2>1, <2>2, <2>7 DEF DescribeStmt
  <2>8. CASE \E p \in PortalNames : DescribePortal(p) \/ Execute(p)
    BY <2>1, <2>2, <2>8 DEF DescribePortal, Execute
  <2> QED
    BY <1>1, <2>2, <2>3, <2>4, <2>5, <2>6, <2>7, <2>8 DEF Next
<1>2. ~Eager /\ SessionInv /\ [Next]_vars => [mute /\ mute' => Kept]_vars
  <2> HIDE DEF Kept
  <2> QED BY <1>1
<1>3. ASSUME ~Eager PROVE Spec => DiscardsUntilSync
  <2>1. SessionInv /\ [Next]_vars => [mute /\ mute' => Kept]_vars
    BY <1>2, <1>3
  <2> QED BY <2>1, SessionInvariance, PTL DEF Spec, DiscardsUntilSync
<1> QED BY <1>3
=============================================================================
