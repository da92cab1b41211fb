----------------------------- MODULE MvccStore -----------------------------
(***************************************************************************)
(* The versioned row store (engine/src/store.rs), the statements that      *)
(* change it (the DML half of engine/src/exec.rs) and the transactions     *)
(* that run them (engine/src/conn.rs), over the log they are recovered     *)
(* from (engine/src/db.rs replay).                                         *)
(*                                                                         *)
(* The commit pipeline appears by what GroupCommit shows of it: commits    *)
(* queue in lane order, a prefix of the queue is appended in one durable   *)
(* step, and is then stamped or discarded in another (what a failed append *)
(* may leave behind is GroupCommit's subject).  One LSN stands for         *)
(* the records of a transaction.  A row is a primary key and a value; a    *)
(* WHERE clause is abstracted to the key it selects, and a statement over  *)
(* several rows is a run of one-row statements, which all succeed or all   *)
(* fail, since nobody else sees a writer's pending rows (an INSERT whose   *)
(* DO UPDATE assigns the primary key is modelled only with one row).       *)
(***************************************************************************)
EXTENDS Naturals, Sequences, FiniteSets, FiniteSetsExt

CONSTANTS
    Conns,          \* connections
    Tables,         \* table names
    Keys, Vals,     \* primary keys and values of the rows
    Unique,         \* the tables whose value column is UNIQUE
    OnConflicts,    \* the INSERT conflict actions used, of Actions below
    Midway,         \* what a failing statement may leave in the store, of Leftovers
    MaxOwners,      \* bound: transactions in a behaviour
    MaxOps,         \* bound: WAL ops of a transaction
    MaxVid,         \* bound: versions created in a table
    MaxSaves,       \* bound: savepoints of a transaction
    MaxCrashes      \* bound: process crashes

\* On a primary-key conflict: raise, DO NOTHING, REPLACE, or DO UPDATE, whose SET
\* leaves the primary key alone or assigns it too.
Actions == {"error", "nothing", "replace", "update", "rekey"}

\* A statement that raises after it has changed rows leaves new versions, or also
\* rows it has superseded.
Leftovers == {"insert", "supersede"}

ASSUME StoreAssumption ==
    /\ IsFiniteSet(Conns)
    /\ Unique \subseteq Tables
    /\ OnConflicts \subseteq Actions
    /\ Midway \subseteq Leftovers
    /\ MaxOwners \in Nat /\ MaxOps \in Nat /\ MaxVid \in Nat
    /\ MaxSaves \in Nat /\ MaxCrashes \in Nat

\* The stamp of an in-flight create or delete: above every LSN.
PENDING == MaxOwners + 1

VARIABLES
    rows,       \* Table.rows: the versions of each table
    nextVid,    \* Table.next_vid
    committed,  \* Store.committed_lsn
    pc,         \* idle, open (in a transaction), writing (holds the lane), queued
    snap,       \* Txn.snapshot
    owner,      \* Txn.owner
    ops,        \* Txn.wal_ops
    saves,      \* Txn.savepoints
    nextOwner,  \* next_owner()
    queue,      \* connections whose commit is queued
    flush,      \* the drained batch and whether its append succeeded
    wal,        \* durable transactions, in LSN order: sequence of op sequences
    crashes

storeVars == <<rows, nextVid, committed>>
txnVars   == <<pc, snap, owner, ops, saves>>
pipeVars  == <<queue, flush, wal>>
vars == <<storeVars, txnVars, nextOwner, pipeVars, crashes>>

NoFlush == [ok |-> TRUE, batch |-> <<>>]

Init ==
    /\ rows = [t \in Tables |-> {}]
    /\ nextVid = [t \in Tables |-> 1]
    /\ committed = 0
    /\ pc = [c \in Conns |-> "idle"]
    /\ snap = [c \in Conns |-> 0]
    /\ owner = [c \in Conns |-> 0]
    /\ ops = [c \in Conns |-> <<>>]
    /\ saves = [c \in Conns |-> <<>>]
    /\ nextOwner = 1
    /\ queue = <<>>
    /\ flush = NoFlush
    /\ wal = <<>>
    /\ crashes = 0

-----------------------------------------------------------------------------
(* RowVersion.                                                              *)

visible_to_reader(v, s) == v.create <= s /\ (v.del = 0 \/ v.del > s)

visible_to_writer(v, s, me) ==
    /\ IF v.create = PENDING THEN v.owner = me ELSE v.create <= s
    /\ ~ IF v.del = PENDING THEN v.owner = me ELSE v.del # 0 /\ v.del <= s

\* Mutant: only committed supersedes conflict.
NoCommittedConflict(v, s, me) == ~(v.del # 0 /\ v.del # PENDING /\ v.del > s)

\* check_no_conflict: no committed supersede after our snapshot, no pending one
\* of another writer.
NoConflict(v, s, me) ==
    /\ ~(v.del # 0 /\ v.del # PENDING /\ v.del > s)
    /\ ~(v.del = PENDING /\ v.owner # me)

\* pk_index / pk_keys: the rows live in the latest committed state or our own,
\* and those a concurrent writer is inserting.
Live(t, me) == {v \in rows[t] : visible_to_writer(v, committed, me)}
ForeignInserts(t, me) ==
    {v \in rows[t] : /\ ~visible_to_writer(v, committed, me)
                     /\ v.create = PENDING /\ v.owner # me /\ v.del = 0}

\* Mutant: rows a concurrent writer is inserting are not looked at.
KeyFreeAmongLive(t, me, k, except) == \A v \in Live(t, me) \ except : v.key # k

KeyFree(t, me, k, except) ==
    /\ \A v \in ForeignInserts(t, me) \ except : v.key # k
    /\ \A v \in Live(t, me) \ except : v.key # k

\* check_secondary_uniques.
ValueFree(t, me, x, except) ==
    t \in Unique => \A v \in Live(t, me) \ except : v.val # x

\* supersede and append_version, in the store and as WAL ops.
Supersede(R, v, me) == (R \ {v}) \cup {[v EXCEPT !.del = PENDING, !.owner = me]}
NewVersion(t, k, x, me) ==
    [vid |-> nextVid[t], key |-> k, val |-> x, create |-> PENDING, del |-> 0,
     owner |-> me]
InsertOp(t, k, x) == [op |-> "insert", tab |-> t, vid |-> nextVid[t], key |-> k, val |-> x]
DeleteOp(t, v) == [op |-> "delete", tab |-> t, vid |-> v.vid, key |-> v.key, val |-> v.val]

-----------------------------------------------------------------------------
(* Transactions.                                                            *)

Goto(c, l) == pc' = [pc EXCEPT ![c] = l]
LaneFree == \A c \in Conns : pc[c] # "writing"
\* The transactions of the connections C are over.
EndTxns(C) ==
    /\ pc'    = [c \in Conns |-> IF c \in C THEN "idle" ELSE pc[c]]
    /\ snap'  = [c \in Conns |-> IF c \in C THEN 0 ELSE snap[c]]
    /\ owner' = [c \in Conns |-> IF c \in C THEN 0 ELSE owner[c]]
    /\ ops'   = [c \in Conns |-> IF c \in C THEN <<>> ELSE ops[c]]
    /\ saves' = [c \in Conns |-> IF c \in C THEN <<>> ELSE saves[c]]

\* BEGIN, or the implicit transaction of an autocommit statement.
Begin(c) ==
    /\ pc[c] = "idle"
    /\ nextOwner <= MaxOwners
    /\ snap' = [snap EXCEPT ![c] = committed]
    /\ owner' = [owner EXCEPT ![c] = nextOwner]
    /\ nextOwner' = nextOwner + 1
    /\ Goto(c, "open")
    /\ UNCHANGED <<storeVars, ops, saves, pipeVars, crashes>>

\* ensure_writer, before the transaction's first DML statement.
EnsureWriter(c) ==
    /\ pc[c] = "open"
    /\ LaneFree
    /\ Goto(c, "writing")
    /\ UNCHANGED <<storeVars, snap, owner, ops, saves, nextOwner, pipeVars, crashes>>

\* What a statement with these ops leaves in the store if it raises.
Leftover(newOps) == IF newOps[1].op = "delete" THEN "supersede" ELSE "insert"

\* A statement changes the rows of its table, adding as many versions as are fresh.
\* If it succeeds its ops are added to the transaction's.  It may also raise when the
\* rows have changed (at a later row of an INSERT, or when RETURNING is evaluated):
\* then nothing puts the rows back and wal_ops stays as it was.
Statement(c, t, R, newOps, fresh) ==
    /\ pc[c] = "writing"
    /\ rows' = [rows EXCEPT ![t] = R]
    /\ nextVid' = [nextVid EXCEPT ![t] = @ + fresh]
    /\ nextVid'[t] <= MaxVid + 1
    /\ \/ /\ Len(ops[c]) + Len(newOps) <= MaxOps
          /\ ops' = [ops EXCEPT ![c] = @ \o newOps]
       \/ /\ Leftover(newOps) \in Midway
          /\ UNCHANGED ops
    /\ UNCHANGED <<committed, pc, snap, owner, saves, nextOwner, pipeVars, crashes>>

\* INSERT of a row whose key is free (apply_insert_row without a clash); only a
\* plain INSERT looks at the UNIQUE columns.
InsertNew(c, t, k, x) ==
    LET me == owner[c] IN
    /\ KeyFree(t, me, k, {})
    /\ \E action \in OnConflicts : action = "error" => ValueFree(t, me, x, {})
    /\ Statement(c, t, rows[t] \cup {NewVersion(t, k, x, me)}, <<InsertOp(t, k, x)>>, 1)

\* The row of a live key k becomes (newKey, x) by an INSERT that clashes with it.
Upsert(c, t, k, newKey, x) ==
    LET me == owner[c] IN
    /\ \A v \in ForeignInserts(t, me) : v.key # k
    /\ \E old \in Live(t, me) :
          /\ old.key = k
          /\ Statement(c, t,
                Supersede(rows[t], old, me) \cup {NewVersion(t, newKey, x, me)},
                <<DeleteOp(t, old), InsertOp(t, newKey, x)>>, 1)

InsertReplace(c, t, k, x) ==
    /\ "replace" \in OnConflicts
    /\ Upsert(c, t, k, k, x)

\* upsert_update.
InsertDoUpdate(c, t, k, newKey, x) ==
    /\ (IF newKey = k THEN "update" ELSE "rekey") \in OnConflicts
    /\ Upsert(c, t, k, newKey, x)

\* UPDATE of the row with key k to a new key and value.  (All rows of an UPDATE
\* are checked before any is applied: one row stands for several.)
Update(c, t, k, newKey, x) ==
    LET me == owner[c] IN
    \E old \in rows[t] :
        /\ old.key = k
        /\ visible_to_writer(old, snap[c], me)
        /\ NoConflict(old, snap[c], me)
        /\ KeyFree(t, me, newKey, {old})
        /\ ValueFree(t, me, x, {old})
        /\ Statement(c, t,
              Supersede(rows[t], old, me) \cup {NewVersion(t, newKey, x, me)},
              <<DeleteOp(t, old), InsertOp(t, newKey, x)>>, 1)

Delete(c, t, k) ==
    LET me == owner[c] IN
    \E old \in rows[t] :
        /\ old.key = k
        /\ visible_to_writer(old, snap[c], me)
        /\ NoConflict(old, snap[c], me)
        /\ Statement(c, t, Supersede(rows[t], old, me), <<DeleteOp(t, old)>>, 0)

Dml(c) ==
    \E t \in Tables, k \in Keys :
        \/ \E x \in Vals : \/ InsertNew(c, t, k, x)
                           \/ InsertReplace(c, t, k, x)
        \/ \E newKey \in Keys, x \in Vals : \/ InsertDoUpdate(c, t, k, newKey, x)
                                           \/ Update(c, t, k, newKey, x)
        \/ Delete(c, t, k)

(* ---------------------------- savepoints ------------------------------- *)

Mine(v, me) == v.owner = me

\* SAVEPOINT: pending_snapshot collects the vids of every table in one set.
Savepoint(c) ==
    /\ pc[c] \in {"open", "writing"}
    /\ Len(saves[c]) < MaxSaves
    /\ LET all == UNION {rows[t] : t \in Tables}
           me  == owner[c] IN
       saves' = [saves EXCEPT ![c] = Append(@,
          [ins |-> {v.vid : v \in {w \in all : Mine(w, me) /\ w.create = PENDING}},
           del |-> {v.vid : v \in {w \in all : Mine(w, me) /\ w.del = PENDING}},
           len |-> Len(ops[c])])]
    /\ UNCHANGED <<storeVars, pc, snap, owner, ops, nextOwner, pipeVars, crashes>>

\* RELEASE: drop the savepoint and those set after it.
ReleaseSavepoint(c) ==
    /\ pc[c] \in {"open", "writing"}
    /\ \E at \in 1..Len(saves[c]) : saves' = [saves EXCEPT ![c] = SubSeq(@, 1, at - 1)]
    /\ UNCHANGED <<storeVars, pc, snap, owner, ops, nextOwner, pipeVars, crashes>>

\* Mutant: rows deleted since the savepoint stay deleted.
NothingRevived(R, me, sp) ==
    {v \in R : ~(Mine(v, me) /\ v.create = PENDING /\ v.vid \notin sp.ins)}

\* rollback_to_savepoint on one table's versions.
RolledBackTo(R, me, sp) ==
    LET Undone(v)  == Mine(v, me) /\ v.create = PENDING /\ v.vid \notin sp.ins
        Revived(v) == Mine(v, me) /\ v.del = PENDING /\ v.vid \notin sp.del
        kept       == {v \in R : ~Undone(v)} IN
    {IF Revived(v)
     THEN [v EXCEPT !.del = 0, !.owner = IF v.create = PENDING THEN me ELSE 0]
     ELSE v : v \in kept}

\* Mutant: the WAL ops are not truncated.
RollbackToKeepsOps(c) ==
    /\ pc[c] \in {"open", "writing"}
    /\ \E at \in 1..Len(saves[c]) :
          /\ rows' = [t \in Tables |-> RolledBackTo(rows[t], owner[c], saves[c][at])]
          /\ saves' = [saves EXCEPT ![c] = SubSeq(@, 1, at)]
    /\ UNCHANGED <<nextVid, committed, pc, snap, owner, ops, nextOwner, pipeVars, crashes>>

\* ROLLBACK TO: restore the pending set, truncate wal_ops and the savepoints.
RollbackTo(c) ==
    /\ pc[c] \in {"open", "writing"}
    /\ \E at \in 1..Len(saves[c]) :
          LET sp == saves[c][at] IN
          /\ rows' = [t \in Tables |-> RolledBackTo(rows[t], owner[c], sp)]
          /\ ops' = [ops EXCEPT ![c] = SubSeq(@, 1, sp.len)]
          /\ saves' = [saves EXCEPT ![c] = SubSeq(@, 1, at)]
    /\ UNCHANGED <<nextVid, committed, pc, snap, owner, nextOwner, pipeVars, crashes>>

(* ------------------------ commit and rollback -------------------------- *)

\* rollback_owner on one table's versions.
RolledBack(R, me) ==
    {IF Mine(v, me) /\ v.del = PENDING THEN [v EXCEPT !.del = 0, !.owner = 0] ELSE v :
        v \in {w \in R : ~(Mine(w, me) /\ w.create = PENDING)}}

Rollback(c) ==
    /\ pc[c] \in {"open", "writing"}
    /\ rows' = IF pc[c] = "writing"
               THEN [t \in Tables |-> RolledBack(rows[t], owner[c])] ELSE rows
    /\ EndTxns({c})
    /\ UNCHANGED <<nextVid, committed, nextOwner, pipeVars, crashes>>

\* finish_commit with nothing to log: release the lane, leave the store alone.
CommitEmpty(c) ==
    /\ pc[c] \in {"open", "writing"}
    /\ ops[c] = <<>>
    /\ EndTxns({c})
    /\ UNCHANGED <<storeVars, nextOwner, pipeVars, crashes>>

\* finish_commit: hand the WAL ops to the coordinator and the lane to the next.
Commit(c) ==
    /\ pc[c] = "writing"
    /\ ops[c] # <<>>
    /\ queue' = Append(queue, c)
    /\ Goto(c, "queued")
    /\ UNCHANGED <<storeVars, snap, owner, ops, saves, nextOwner, flush, wal, crashes>>

\* A leader appends a prefix of the queue: one LSN per transaction.
FlushBatch ==
    /\ flush = NoFlush
    /\ \E n \in 1..Len(queue) :
          LET b == SubSeq(queue, 1, n) IN
          /\ queue' = SubSeq(queue, n + 1, Len(queue))
          /\ \/ /\ flush' = [ok |-> TRUE, batch |-> b]
                /\ wal' = wal \o [i \in 1..n |-> ops[b[i]]]
             \/ /\ flush' = [ok |-> FALSE, batch |-> b]
                /\ UNCHANGED wal
    /\ UNCHANGED <<storeVars, txnVars, nextOwner, crashes>>

\* The LSN of the i-th transaction of the batch just appended.
CommitLsn(b, i) == Len(wal) - Len(b) + i

\* finalize_owner on one version.
Finalized(v, lsn) ==
    [v EXCEPT !.create = IF @ = PENDING THEN lsn ELSE @,
              !.del    = IF @ = PENDING THEN lsn ELSE @,
              !.owner  = 0]

\* Stamp the versions of each transaction of the batch with its LSN and let
\* readers see them, all under the store lock.
Publish ==
    /\ flush # NoFlush /\ flush.ok
    /\ LET b      == flush.batch
           At(v)  == {i \in 1..Len(b) : owner[b[i]] = v.owner} IN
          rows' = [t \in Tables |->
                     {IF At(v) = {} THEN v ELSE Finalized(v, CommitLsn(b, Max(At(v)))) :
                         v \in rows[t]}]
    /\ committed' = Len(wal)
    /\ EndTxns(Range(flush.batch))
    /\ flush' = NoFlush
    /\ UNCHANGED <<nextVid, nextOwner, queue, wal, crashes>>

\* The append failed: rollback_owner for each transaction of the batch.
Discard ==
    /\ flush # NoFlush /\ ~flush.ok
    /\ LET b         == flush.batch
           Doomed(v) == \E i \in 1..Len(b) : owner[b[i]] = v.owner IN
          rows' = [t \in Tables |->
                     {v \in rows[t] : ~Doomed(v)} \cup
                     UNION {RolledBack({v \in rows[t] : Mine(v, owner[b[i]])},
                                       owner[b[i]]) : i \in 1..Len(b)}]
    /\ EndTxns(Range(flush.batch))
    /\ flush' = NoFlush
    /\ UNCHANGED <<nextVid, committed, nextOwner, queue, wal, crashes>>

(* ----------------------------- recovery -------------------------------- *)

\* The LSNs at which the log inserts or deletes a version.
LsnsOf(w, op, t, vid) ==
    {i \in 1..Len(w) : \E j \in 1..Len(w[i]) :
        w[i][j].op = op /\ w[i][j].tab = t /\ w[i][j].vid = vid}

\* replay: what the log says the versions of table t are.  A delete is of a version
\* that is already there: one of a row that was never logged (see Statement) does
\* not touch the version that is given its id after a crash.
Replay(w, t) ==
    UNION {{[vid |-> w[i][j].vid, key |-> w[i][j].key, val |-> w[i][j].val,
             create |-> i,
             del |-> Max({0} \cup {d \in LsnsOf(w, "delete", t, w[i][j].vid) : d >= i}),
             owner |-> 0] :
            j \in {n \in 1..Len(w[i]) : w[i][n].op = "insert" /\ w[i][n].tab = t}} :
           i \in 1..Len(w)}

\* The process dies and the database is opened again.
CrashAndReopen ==
    /\ crashes < MaxCrashes
    /\ crashes' = crashes + 1
    /\ rows' = [t \in Tables |-> Replay(wal, t)]
    /\ nextVid' = [t \in Tables |-> 1 + Max({0} \cup {v.vid : v \in Replay(wal, t)})]
    /\ committed' = Len(wal)
    /\ EndTxns(Conns)
    /\ queue' = <<>>
    /\ flush' = NoFlush
    /\ UNCHANGED <<nextOwner, wal>>

Rest ==
    /\ \A c \in Conns : pc[c] = "idle"
    /\ UNCHANGED vars

Next ==
    \/ \E c \in Conns :
          \/ Begin(c) \/ EnsureWriter(c) \/ Dml(c)
          \/ Savepoint(c) \/ ReleaseSavepoint(c) \/ RollbackTo(c)
          \/ Rollback(c) \/ CommitEmpty(c) \/ Commit(c)
    \/ FlushBatch \/ Publish \/ Discard
    \/ CrashAndReopen
    \/ Rest

Spec == Init /\ [][Next]_vars

-----------------------------------------------------------------------------
(* Properties.                                                              *)

Version == [vid : Nat, key : Keys, val : Vals, create : 0..PENDING, del : 0..PENDING,
            owner : Nat]
Op == [op : {"insert", "delete"}, tab : Tables, vid : Nat, key : Keys, val : Vals]

TypeOK ==
    /\ \A t \in Tables : rows[t] \subseteq Version
    /\ nextVid \in [Tables -> Nat]
    /\ committed \in 0..MaxOwners
    /\ pc \in [Conns -> {"idle", "open", "writing", "queued"}]
    /\ snap \in [Conns -> 0..MaxOwners]
    /\ owner \in [Conns -> 0..MaxOwners]
    /\ \A c \in Conns : \A i \in 1..Len(ops[c]) : ops[c][i] \in Op
    /\ \A i \in 1..Len(wal) : \A j \in 1..Len(wal[i]) : wal[i][j] \in Op
    /\ crashes \in Nat

\* What a snapshot at LSN s sees of table t.
Seen(R, s) == {[vid |-> v.vid, key |-> v.key, val |-> v.val] :
                 v \in {w \in R : visible_to_reader(w, s)}}

\* The store and the log tell the same history: at every snapshot a reader may
\* hold, the rows in memory are the rows recovery would rebuild (replay vs
\* finalize_owner, rollback_owner, rollback_to_savepoint).
StoreMatchesLog ==
    \A t \in Tables : \A s \in 0..committed :
        Seen(rows[t], s) = Seen(Replay(wal, t), s)

\* A writer's pending versions are exactly what its WAL ops say, whatever
\* savepoints and concurrent writers did (Txn.wal_ops, RowVersion.owner), and
\* every pending stamp belongs to a transaction that is still running: ending a
\* transaction, by a failed append too, leaves nothing of it behind.
PendingMatchesOps ==
    /\ \A c \in Conns : pc[c] \in {"writing", "queued"} =>
          \A t \in Tables :
              LET mine   == {v \in rows[t] : v.owner = owner[c]}
                  Vids(o) == {ops[c][i].vid : i \in {j \in 1..Len(ops[c]) :
                                ops[c][j].op = o /\ ops[c][j].tab = t}} IN
              /\ {v.vid : v \in {w \in mine : w.create = PENDING}} = Vids("insert")
              /\ {v.vid : v \in {w \in mine : w.del = PENDING}} = Vids("delete")
    /\ \A t \in Tables : \A v \in rows[t] :
          v.create = PENDING \/ v.del = PENDING =>
              \E c \in Conns : pc[c] # "idle" /\ owner[c] = v.owner

\* The primary key is unique at every snapshot, although keys are checked at
\* DML time and published later (pk_index, pk_keys).
PrimaryKeyUnique ==
    \A t \in Tables : \A s \in 0..committed : \A v, w \in rows[t] :
        visible_to_reader(v, s) /\ visible_to_reader(w, s) /\ v.key = w.key => v = w

\* First committer wins: no version is superseded by two transactions of the
\* log, so no committed update is lost (check_no_conflict).
NoLostUpdate ==
    \A t \in Tables : \A v \in Replay(wal, t) :
        \A i, j \in LsnsOf(wal, "delete", t, v.vid) : i = j

\* A snapshot never changes once it can be taken, through publishes, rollbacks
\* and a crash with replay (visible_to_reader, committed_lsn).
SnapshotRepeatable ==
    [][\A t \in Tables : \A s \in 0..committed : Seen(rows'[t], s) = Seen(rows[t], s)]_vars

\* A UNIQUE column has no duplicates at any snapshot (check_secondary_uniques).
ValueUnique ==
    \A t \in Unique : \A s \in 0..committed : \A v, w \in rows[t] :
        visible_to_reader(v, s) /\ visible_to_reader(w, s) /\ v.val = w.val => v = w
=============================================================================
