---------------------------- MODULE GroupCommit ----------------------------
(***************************************************************************)
(* The commit pipeline of one open Database: the single write lane         *)
(* (engine/src/db.rs), the leader/follower group-commit coordinator        *)
(* (engine/src/group_commit.rs), and the DDL path that quiesces it         *)
(* (engine/src/conn.rs).  Connections are threads; every step below is one *)
(* critical section or one durable append of the code, so all              *)
(* interleavings of the code's lock regions are explored (only a ROLLBACK  *)
(* joins two: it discards the pending versions and releases the lane).     *)
(*                                                                         *)
(* The log is that of the file backend: an append that failed may have     *)
(* left a whole frame behind, which the next append overwrites and which a *)
(* crash before that recovers.  CREATE INDEX also writes the index graph   *)
(* to the log, as page images that take an LSN each and commit nothing.    *)
(*                                                                         *)
(* A connection has at most one member in the coordinator (commit blocks   *)
(* until it is resolved), so a member is named by its connection.  Record  *)
(* contents are abstracted to record counts: what matters to the           *)
(* coordinator is which LSN range each transaction's records get.          *)
(***************************************************************************)
EXTENDS Naturals, Sequences, FiniteSets

CONSTANTS
    Conns,              \* connections (threads) sharing the Database
    MAX_BATCH_RECORDS,  \* cap on the records of one durable append
    MaxOwners,          \* bound: transactions in a behaviour
    MaxOps,             \* bound: WAL ops of one transaction
    MaxLsn,             \* bound: DDL runs only while the log is this short
    MaxPages,           \* bound: page images in the log
    MaxCrashes          \* bound: process crashes

ASSUME BoundsAssumption ==
    /\ MAX_BATCH_RECORDS \in Nat
    /\ MaxOwners \in Nat
    /\ MaxOps \in Nat
    /\ MaxLsn \in Nat
    /\ MaxPages \in Nat
    /\ MaxCrashes \in Nat

Owners == 1..MaxOwners

\* The owner recorded for a DDL append, which belongs to no transaction.
DDL == 0

VARIABLES
    pc,            \* what each connection is about to do
    txn,           \* owner id of each connection's write transaction (0: none)
    nextOwner,     \* next_owner(): the next in-flight writer id
    ops,           \* Txn.wal_ops.len() of each connection
    lane,          \* WriteLane.locked
    laneWait,      \* connections parked on WriteLane.cv
    queue,         \* Inner.queue, each id with its Member's fixed fields
    submitted,     \* history: records submitted in all
    done,          \* Member.done
    result,        \* Member.result: the commit LSN, 0 for Err
    leaderActive,  \* Inner.leader_active
    cvWait,        \* connections parked on GroupCommit.cv
    batch,         \* the batch a leader has drained
    last,          \* the LSN a durable append returned
    wal,           \* durable transactions: [owner, sub, first, last]
    pages,         \* the LSNs taken by page images
    durableLsn,    \* the last LSN of the log
    tail,          \* a failed append's transactions, written but unconfirmed
    tailLsn,       \* the last LSN recovery would find: the tail's, if any
    pending,       \* owners with pending versions in the store
    published,     \* transactions stamped in the store
    committed,     \* Store.committed_lsn
    acked,         \* history: commits the client was told are durable
    crashes        \* crashes so far

txnVars    == <<txn, nextOwner, ops>>
laneVars   == <<lane, laneWait>>
memberVars == <<done, result>>
coordVars  == <<queue, submitted, leaderActive, memberVars, cvWait>>
leadVars   == <<batch, last>>
logVars    == <<wal, pages, durableLsn, tail, tailLsn>>
storeVars  == <<pending, published, committed>>
histVars   == <<acked, crashes>>
vars == <<pc, txnVars, laneVars, coordVars, leadVars, logVars, storeVars, histVars>>

-----------------------------------------------------------------------------
(* A queue entry: the member's connection, owner and record count, and a    *)
(* prefix sum of the record counts in submission order, so that the records  *)
(* of a run of the queue are a difference of two sums.                       *)

Member == [conn : Conns, owner : Nat, recs : Nat, upto : Nat]

\* Records in the prefix of the batch that ends with its k-th member.
Acc(b, k) == b[k].upto - (b[1].upto - b[1].recs)

Total(b) == Acc(b, Len(b))

\* The log entries of a batch whose records take the LSNs first..first+Total-1:
\* a transaction's commit LSN is that of its Commit marker, its last record.
Slice(b, first, k) ==
    [owner |-> b[k].owner,
     sub   |-> b[k].upto,
     first |-> first + Acc(b, k) - b[k].recs,
     last  |-> first + Acc(b, k) - 1]

Slices(b, first) == {Slice(b, first, k) : k \in 1..Len(b)}

\* drain_batch takes the longest prefix of the queue within the record cap,
\* and always at least one member.
Fits(q, k) == k = 1 \/ Acc(q, k) <= MAX_BATCH_RECORDS

Drained(q, n) == /\ \A k \in 1..n : Fits(q, k)
                 /\ n < Len(q) => ~Fits(q, n + 1)

-----------------------------------------------------------------------------

Init ==
    /\ pc = [c \in Conns |-> "idle"]
    /\ txn = [c \in Conns |-> 0]
    /\ nextOwner = 1
    /\ ops = [c \in Conns |-> 0]
    /\ lane = FALSE
    /\ laneWait = {}
    /\ queue = <<>>
    /\ submitted = 0
    /\ done = [c \in Conns |-> FALSE]
    /\ result = [c \in Conns |-> 0]
    /\ leaderActive = FALSE
    /\ cvWait = {}
    /\ batch = [c \in Conns |-> <<>>]
    /\ last = [c \in Conns |-> 0]
    /\ wal = {}
    /\ pages = {}
    /\ durableLsn = 0
    /\ tail = {}
    /\ tailLsn = 0
    /\ pending = {}
    /\ published = {}
    /\ committed = 0
    /\ acked = {}
    /\ crashes = 0

Goto(c, l) == pc' = [pc EXCEPT ![c] = l]

(* ------------------------- the write lane ------------------------------ *)

\* WriteLane::acquire: take the free lane, or park until a release.
AcquireLane(c, from, to) ==
    /\ pc[c] = from
    /\ c \notin laneWait
    /\ \/ /\ lane
          /\ laneWait' = laneWait \cup {c}
          /\ UNCHANGED <<pc, lane>>
       \/ /\ ~lane
          /\ lane' = TRUE
          /\ Goto(c, to)
          /\ UNCHANGED laneWait

\* WriteLane::release: clear the flag and notify_one.
ReleaseLane ==
    /\ lane' = FALSE
    /\ \/ laneWait = {} /\ UNCHANGED laneWait
       \/ \E w \in laneWait : laneWait' = laneWait \ {w}

(* ---------------------- write transactions ----------------------------- *)

\* The transaction's first DML statement: ensure_writer asks for the lane.
BeginWrite(c) ==
    /\ pc[c] = "idle"
    /\ nextOwner <= MaxOwners
    /\ txn' = [txn EXCEPT ![c] = nextOwner]
    /\ nextOwner' = nextOwner + 1
    /\ Goto(c, "laneDml")
    /\ UNCHANGED <<ops, laneVars, coordVars, leadVars, logVars, storeVars,
                   histVars>>

AcquireDml(c) ==
    /\ AcquireLane(c, "laneDml", "writing")
    /\ UNCHANGED <<txnVars, coordVars, leadVars, logVars, storeVars, histVars>>

\* A DML statement leaves pending versions and one more WAL op.
Dml(c) ==
    /\ pc[c] = "writing"
    /\ ops[c] < MaxOps
    /\ ops' = [ops EXCEPT ![c] = @ + 1]
    /\ pending' = pending \cup {txn[c]}
    /\ UNCHANGED <<pc, txn, nextOwner, laneVars, coordVars, leadVars,
                   logVars, published, committed, histVars>>

\* ROLLBACK, which discards the pending versions; and finish_commit of a
\* transaction with no WAL ops, which has no pending version to discard.
EndWithoutCommit(c) ==
    /\ pc[c] = "writing"
    /\ pending' = pending \ {txn[c]}
    /\ ReleaseLane
    /\ txn' = [txn EXCEPT ![c] = 0]
    /\ ops' = [ops EXCEPT ![c] = 0]
    /\ Goto(c, "idle")
    /\ UNCHANGED <<nextOwner, coordVars, leadVars, logVars, published,
                   committed, histVars>>

\* GroupCommit::commit, first critical section: enqueue the ops and their
\* Commit marker, and elect ourselves leader if nobody is.
Enqueue(c) ==
    /\ pc[c] = "writing"
    /\ ops[c] > 0
    /\ submitted' = submitted + ops[c] + 1
    /\ queue' = Append(queue, [conn |-> c, owner |-> txn[c],
                               recs |-> ops[c] + 1, upto |-> submitted'])
    /\ done' = [done EXCEPT ![c] = FALSE]
    /\ leaderActive' = TRUE
    /\ Goto(c, IF leaderActive THEN "releaseFollow" ELSE "releaseLead")
    /\ UNCHANGED <<txnVars, laneVars, result, cvWait, leadVars, logVars,
                   storeVars, histVars>>

\* The records are queued: hand the lane on, then lead or follow.
HandOffLane(c) ==
    /\ \/ pc[c] = "releaseLead" /\ Goto(c, "drain")
       \/ pc[c] = "releaseFollow" /\ Goto(c, "reclaim")
    /\ ReleaseLane
    /\ UNCHANGED <<txnVars, coordVars, leadVars, logVars, storeVars, histVars>>

(* --------------------------- the leader -------------------------------- *)

\* drain_batch.  The queue cannot be empty here: the leader drains its own
\* member first, and loops only when more has arrived (see Relinquish).
Drain(c) ==
    /\ pc[c] = "drain"
    /\ \E n \in 1..Len(queue) :
          /\ Drained(queue, n)
          /\ batch' = [batch EXCEPT ![c] = SubSeq(queue, 1, n)]
          /\ queue' = SubSeq(queue, n + 1, Len(queue))
    /\ Goto(c, "append")
    /\ UNCHANGED <<txnVars, laneVars, submitted, leaderActive, memberVars,
                   cvWait, last, logVars, storeVars, histVars>>

\* Mutant: the next append is written after a failed one, not over it.
AppendPastTail(E, n) ==
    /\ wal' = wal \cup E
    /\ durableLsn' = durableLsn + n
    /\ tailLsn' = durableLsn'
    /\ UNCHANGED <<pages, tail>>

\* A durable append of n records as the entries E: one frame, written over
\* whatever a failed append left at the end of the log (local.rs append_frame).
AppendWal(E, n) ==
    /\ wal' = wal \cup E
    /\ durableLsn' = durableLsn + n
    /\ tail' = {}
    /\ tailLsn' = durableLsn'
    /\ UNCHANGED pages

\* Mutant: a failed append uses its LSNs up.
FailureBurnsLsns(E, n) ==
    /\ durableLsn' = durableLsn + n
    /\ tailLsn' = durableLsn'
    /\ tail' = {}
    /\ UNCHANGED <<wal, pages>>

\* An append that fails: the frame was not written whole, or it was written and
\* its sync failed, and a crash may find it.
AppendWalFails(E, n) ==
    /\ \/ tail' = {} /\ tailLsn' = durableLsn
       \/ tail' = E /\ tailLsn' = durableLsn + n
    /\ UNCHANGED <<wal, pages, durableLsn>>

\* flush_batch: one durable append of the whole batch, outside every lock.
AppendOk(c) ==
    /\ pc[c] = "append"
    /\ AppendWal(Slices(batch[c], durableLsn + 1), Total(batch[c]))
    /\ last' = [last EXCEPT ![c] = durableLsn']
    /\ Goto(c, "publish")
    /\ UNCHANGED <<txnVars, laneVars, coordVars, batch, storeVars, histVars>>

\* Mutant: the leader goes on as if the failed append were durable.
AckBeforeDurable(c) ==
    /\ pc[c] = "append"
    /\ last' = [last EXCEPT ![c] = durableLsn + Total(batch[c])]
    /\ Goto(c, "publish")
    /\ UNCHANGED <<txnVars, laneVars, coordVars, batch, logVars, storeVars, histVars>>

\* The append failed; durability is unconfirmed for the whole batch.
AppendErr(c) ==
    /\ pc[c] = "append"
    /\ AppendWalFails(Slices(batch[c], durableLsn + 1), Total(batch[c]))
    /\ last' = [last EXCEPT ![c] = 0]
    /\ Goto(c, "discard")
    /\ UNCHANGED <<txnVars, laneVars, coordVars, batch, storeVars, histVars>>

\* Under the store write lock: stamp every member's versions with its own
\* commit LSN and advance the reader high-water mark once for the batch.
Publish(c) ==
    /\ pc[c] = "publish"
    /\ LET b     == batch[c]
           first == last[c] - Total(b) + 1 IN
          /\ published' = published \cup Slices(b, first)
          /\ pending' = pending \ {b[k].owner : k \in 1..Len(b)}
          /\ committed' = IF last[c] > committed THEN last[c] ELSE committed
    /\ Goto(c, "resolve")
    /\ UNCHANGED <<txnVars, laneVars, coordVars, leadVars, logVars, histVars>>

\* Under the store write lock: rollback_owner for every member.
Discard(c) ==
    /\ pc[c] = "discard"
    /\ pending' = pending \ {batch[c][k].owner : k \in 1..Len(batch[c])}
    /\ Goto(c, "resolve")
    /\ UNCHANGED <<txnVars, laneVars, coordVars, leadVars, logVars,
                   published, committed, histVars>>

\* resolve: fill in every member's result and notify_all.
Resolve(c) ==
    /\ pc[c] = "resolve"
    /\ LET b     == batch[c]
           first == last[c] - Total(b) + 1
           In(m) == \E k \in 1..Len(b) : b[k].conn = m
           k(m)  == CHOOSE i \in 1..Len(b) : b[i].conn = m IN
          /\ done' = [m \in Conns |-> In(m) \/ done[m]]
          /\ result' = [m \in Conns |->
                IF ~In(m) THEN result[m]
                ELSE IF last[c] = 0 THEN 0 ELSE Slice(b, first, k(m)).last]
    /\ batch' = [batch EXCEPT ![c] = <<>>]
    /\ last' = [last EXCEPT ![c] = 0]
    /\ cvWait' = {}
    /\ Goto(c, "relinquish")
    /\ UNCHANGED <<txnVars, laneVars, queue, submitted, leaderActive, logVars, storeVars, histVars>>

\* Mutant: the leader retires without waking those who wait for it to.
RetireSilently(c) ==
    /\ pc[c] = "relinquish"
    /\ leaderActive' = (queue # <<>>)
    /\ Goto(c, IF queue = <<>> THEN "reclaim" ELSE "drain")
    /\ UNCHANGED <<txnVars, laneVars, queue, submitted, memberVars, cvWait,
                   leadVars, logVars, storeVars, histVars>>

\* lead, end of the loop body: stop leading only if the queue is empty.
Relinquish(c) ==
    /\ pc[c] = "relinquish"
    /\ \/ /\ queue = <<>>
          /\ leaderActive' = FALSE
          /\ cvWait' = {}
          /\ Goto(c, "reclaim")
       \/ /\ queue # <<>>
          /\ Goto(c, "drain")
          /\ UNCHANGED <<leaderActive, cvWait>>
    /\ UNCHANGED <<txnVars, laneVars, queue, submitted, memberVars, leadVars,
                   logVars, storeVars, histVars>>

RemoveMember(c) ==
    /\ done' = [done EXCEPT ![c] = FALSE]
    /\ result' = [result EXCEPT ![c] = 0]

\* The reclaim loop of commit: return the result, or park on the condvar.
Reclaim(c) ==
    /\ pc[c] = "reclaim"
    /\ c \notin cvWait
    /\ \/ /\ done[c]
          /\ acked' = IF result[c] > 0
                      THEN acked \cup {[owner |-> txn[c], last |-> result[c]]}
                      ELSE acked
          /\ RemoveMember(c)
          /\ txn' = [txn EXCEPT ![c] = 0]
          /\ ops' = [ops EXCEPT ![c] = 0]
          /\ Goto(c, "idle")
          /\ UNCHANGED cvWait
       \/ /\ ~done[c]
          /\ cvWait' = cvWait \cup {c}
          /\ UNCHANGED <<pc, txn, ops, memberVars, acked>>
    /\ UNCHANGED <<nextOwner, laneVars, queue, submitted, leaderActive,
                   leadVars, logVars, storeVars, crashes>>

(* ------------------------------- DDL ----------------------------------- *)

\* exec_ddl: an autocommit statement, so only outside a transaction.
BeginDdl(c) ==
    /\ pc[c] = "idle"
    /\ durableLsn < MaxLsn
    /\ Goto(c, "laneDdl")
    /\ UNCHANGED <<txnVars, laneVars, coordVars, leadVars, logVars,
                   storeVars, histVars>>

AcquireDdl(c) ==
    /\ AcquireLane(c, "laneDdl", "quiesce")
    /\ UNCHANGED <<txnVars, coordVars, leadVars, logVars, storeVars, histVars>>

\* Mutant: DDL relies on the lane alone, not on a quiesced coordinator.
QuiesceSkipped(c) ==
    /\ pc[c] = "quiesce"
    /\ Goto(c, "ddl")
    /\ UNCHANGED <<txnVars, laneVars, coordVars, leadVars, logVars, storeVars,
                   histVars>>

\* quiesce: wait, holding the lane, until no commit is in flight.
Quiesce(c) ==
    /\ pc[c] = "quiesce"
    /\ c \notin cvWait
    /\ \/ /\ leaderActive \/ queue # <<>>
          /\ cvWait' = cvWait \cup {c}
          /\ UNCHANGED pc
       \/ /\ ~leaderActive /\ queue = <<>>
          /\ Goto(c, "ddl")
          /\ UNCHANGED cvWait
    /\ UNCHANGED <<txnVars, laneVars, queue, submitted, leaderActive,
                   memberVars, leadVars, logVars, storeVars, histVars>>

\* do_ddl returning before its append (IF EXISTS, an error).
DdlNothing(c) ==
    /\ pc[c] = "ddl"
    /\ Goto(c, "ddlRelease")
    /\ UNCHANGED <<txnVars, laneVars, coordVars, leadVars, logVars,
                   storeVars, histVars>>

\* do_ddl's direct append: the catalog op and its Commit marker.
DdlRecords(f) == [owner |-> DDL, sub |-> submitted, first |-> f, last |-> f + 1]

DdlAppend(c) ==
    /\ pc[c] = "ddl"
    /\ AppendWal({DdlRecords(durableLsn + 1)}, 2)
    /\ last' = [last EXCEPT ![c] = durableLsn']
    /\ Goto(c, "ddlPublish")
    /\ UNCHANGED <<txnVars, laneVars, coordVars, batch, storeVars, histVars>>

DdlAppendErr(c) ==
    /\ pc[c] = "ddl"
    /\ AppendWalFails({DdlRecords(durableLsn + 1)}, 2)
    /\ Goto(c, "ddlRelease")
    /\ UNCHANGED <<txnVars, laneVars, coordVars, leadVars, storeVars, histVars>>

\* CREATE INDEX goes on to write the graph as pages, still under the lane; of
\* any other statement this is the last step before the release.
DdlPublish(c) ==
    /\ pc[c] = "ddlPublish"
    /\ published' = published \cup {DdlRecords(last[c] - 1)}
    /\ committed' = IF last[c] > committed THEN last[c] ELSE committed
    /\ \E l \in {"ddlPages", "ddlRelease"} : Goto(c, l)
    /\ UNCHANGED <<txnVars, laneVars, coordVars, leadVars, logVars, pending,
                   histVars>>

\* One put_page of checkpoint_vector_index: a frame of its own, which takes one
\* LSN and leaves commit_lsn and the reader mark where they are.
CheckpointPage(c) ==
    /\ pc[c] = "ddlPages"
    /\ Cardinality(pages) < MaxPages
    /\ pages' = pages \cup {durableLsn + 1}
    /\ durableLsn' = durableLsn + 1
    /\ tail' = {}
    /\ tailLsn' = durableLsn'
    /\ UNCHANGED <<pc, wal, txnVars, laneVars, coordVars, leadVars, storeVars,
                   histVars>>

\* The checkpoint is over: every page is written, the graph cannot be paged, or
\* a put_page failed, which may leave its frame past the end of the log.
CheckpointEnds(c) ==
    /\ pc[c] = "ddlPages"
    /\ \/ UNCHANGED <<tail, tailLsn>>
       \/ tail' = {} /\ tailLsn' \in {durableLsn, durableLsn + 1}
    /\ Goto(c, "ddlRelease")
    /\ UNCHANGED <<wal, pages, durableLsn, txnVars, laneVars, coordVars,
                   leadVars, storeVars, histVars>>

DdlRelease(c) ==
    /\ pc[c] = "ddlRelease"
    /\ ReleaseLane
    /\ last' = [last EXCEPT ![c] = 0]
    /\ Goto(c, "idle")
    /\ UNCHANGED <<txnVars, coordVars, batch, logVars, storeVars, histVars>>

(* --------------------------- environment ------------------------------- *)

\* A condition variable may wake a waiter for no reason.
SpuriousWakeup(c) ==
    /\ c \in laneWait \cup cvWait
    /\ laneWait' = laneWait \ {c}
    /\ cvWait' = cvWait \ {c}
    /\ UNCHANGED <<pc, txnVars, lane, queue, submitted, leaderActive,
                   memberVars, leadVars, logVars, storeVars, histVars>>

\* An unconfirmed frame without transactions is a page image.
TailPages == IF tail = {} THEN (durableLsn + 1)..tailLsn ELSE {}

\* get_commit_lsn: the LSN of the last transaction, whatever pages follow it.
LastCommit(W, m) == /\ m = 0 \/ \E e \in W : e.last = m
                    /\ \A e \in W : e.last <= m

\* The process dies and the Database is opened again: everything in memory is
\* lost and the store is rebuilt by replaying the log, with the unconfirmed tail
\* if there is one (Database::open, replay).
CrashAndReopen ==
    /\ crashes < MaxCrashes
    /\ crashes' = crashes + 1
    /\ pc' = [c \in Conns |-> "idle"]
    /\ txn' = [c \in Conns |-> 0]
    /\ ops' = [c \in Conns |-> 0]
    /\ lane' = FALSE
    /\ laneWait' = {}
    /\ queue' = <<>>
    /\ done' = [c \in Conns |-> FALSE]
    /\ result' = [c \in Conns |-> 0]
    /\ leaderActive' = FALSE
    /\ cvWait' = {}
    /\ batch' = [c \in Conns |-> <<>>]
    /\ last' = [c \in Conns |-> 0]
    /\ wal' = wal \cup tail
    /\ pages' = pages \cup TailPages
    /\ durableLsn' = tailLsn
    /\ tail' = {}
    /\ pending' = {}
    /\ published' = wal'
    /\ \E m \in {0} \cup {e.last : e \in wal'} :
          LastCommit(wal', m) /\ committed' = m
    /\ UNCHANGED <<nextOwner, submitted, tailLsn, acked>>

\* Nothing left to do within the bounds: every connection is idle.
Rest ==
    /\ \A c \in Conns : pc[c] = "idle"
    /\ UNCHANGED vars

\* What the code does by itself once a connection is inside it.
Step(c) ==
    \/ HandOffLane(c) \/ Drain(c) \/ AppendOk(c) \/ AppendErr(c)
    \/ Publish(c) \/ Discard(c) \/ Resolve(c) \/ Relinquish(c) \/ Reclaim(c)
    \/ Quiesce(c) \/ DdlNothing(c) \/ DdlAppend(c) \/ DdlAppendErr(c)
    \/ DdlPublish(c) \/ CheckpointPage(c) \/ CheckpointEnds(c) \/ DdlRelease(c)

\* What happens only if the client, or another thread's release, lets it.
Client(c) ==
    \/ BeginWrite(c) \/ AcquireDml(c) \/ Dml(c) \/ EndWithoutCommit(c)
    \/ Enqueue(c) \/ BeginDdl(c) \/ AcquireDdl(c) \/ SpuriousWakeup(c)

Next ==
    \/ \E c \in Conns : Step(c) \/ Client(c)
    \/ CrashAndReopen
    \/ Rest

Spec == Init /\ [][Next]_vars

\* The scheduler runs every thread that is inside the pipeline.
FairSpec == Spec /\ \A c \in Conns : WF_vars(Step(c))

-----------------------------------------------------------------------------
(* Properties.                                                              *)

LanePcs   == {"writing", "releaseLead", "releaseFollow", "quiesce", "ddl",
              "ddlPublish", "ddlPages", "ddlRelease"}
LeaderPcs == {"releaseLead", "drain", "append", "publish", "discard",
              "resolve", "relinquish"}
\* The leader holds a drained, unresolved batch.
BatchPcs  == {"append", "publish", "discard", "resolve"}
\* Inside GroupCommit::commit.
CommitPcs == {"releaseFollow", "reclaim"} \cup LeaderPcs
Labels    == {"idle", "laneDml", "laneDdl", "reclaim"} \cup LanePcs \cup LeaderPcs

Entry == [owner : Nat, sub : Nat, first : Nat, last : Nat]

TypeOK ==
    /\ pc \in [Conns -> Labels]
    /\ txn \in [Conns -> Nat]
    /\ nextOwner \in Nat
    /\ ops \in [Conns -> Nat]
    /\ lane \in BOOLEAN
    /\ laneWait \subseteq Conns
    /\ queue \in Seq(Member)
    /\ submitted \in Nat
    /\ done \in [Conns -> BOOLEAN]
    /\ result \in [Conns -> Nat]
    /\ leaderActive \in BOOLEAN
    /\ cvWait \subseteq Conns
    /\ batch \in [Conns -> Seq(Member)]
    /\ last \in [Conns -> Nat]
    /\ wal \subseteq Entry
    /\ pages \subseteq Nat
    /\ durableLsn \in Nat
    /\ tail \subseteq Entry
    /\ tailLsn \in Nat
    /\ pending \subseteq Nat
    /\ published \subseteq Entry
    /\ committed \in Nat
    /\ acked \subseteq [owner : Nat, last : Nat]
    /\ crashes \in Nat

\* The write lane serialises writers: the flag is set exactly while one
\* connection is between acquire and release (db.rs WriteLane).  Enqueuing,
\* not durability, is what ends a writer's turn.
LaneExclusive ==
    /\ \A c, d \in Conns : pc[c] \in LanePcs /\ pc[d] \in LanePcs => c = d
    /\ lane <=> \E c \in Conns : pc[c] \in LanePcs

\* One leader at a time, leader_active says whether there is one, and a queued
\* commit always has a leader to flush it (group_commit.rs lead/commit): no
\* member is left in the queue by a leader that has already decided to stop.
OneLeader ==
    /\ \A c, d \in Conns : pc[c] \in LeaderPcs /\ pc[d] \in LeaderPcs => c = d
    /\ leaderActive <=> \E c \in Conns : pc[c] \in LeaderPcs
    /\ queue # <<>> => leaderActive

\* The reader high-water mark covers only published transactions, and they are
\* stamped with the LSNs the log gave them: a snapshot taken at committed_lsn
\* sees exactly the durable transactions up to it, although a leader appends,
\* publishes and resolves in three separate critical sections.
ReadersSeeLog ==
    /\ published \subseteq wal
    /\ \A e \in wal : e.last <= committed <=> e \in published

\* A snapshot once taken never changes: whatever is published is stamped above
\* the mark readers have already been given (flush_batch, do_ddl after quiesce).
SnapshotStable ==
    [][\A e \in published' \ published : e.last > committed]_vars

\* Never acknowledge a commit before its record is durable (and visible): every
\* acknowledged commit is in the log, at the LSN the client was told, and in
\* the store, also after a crash and replay.
AckedDurable ==
    \A a \in acked : \E e \in published :
        e.owner = a.owner /\ e.last = a.last /\ e \in wal

\* Commit LSNs follow submission order, and every LSN of the log belongs to one
\* transaction or to one page image of a CREATE INDEX, never to both or to
\* nothing (Inner.queue: "in submission (and therefore LSN) order").
LsnsTileLog ==
    /\ \A e, f \in wal : e # f => e.last < f.first \/ f.last < e.first
    /\ \A e, f \in wal : e.owner # DDL /\ f.owner # DDL /\ e.sub < f.sub
                            => e.last < f.first
    /\ \A n \in 1..durableLsn :
          n \in pages <=> ~\E e \in wal : n \in e.first..e.last

\* Nobody waits for ever: every enqueued commit returns to its client (no
\* follower sleeps through its result, no leader retires with work queued), and
\* a DDL statement that holds the lane gets its quiescent point, since queued
\* commits drain and the lane keeps new ones out (condvar protocol of commit,
\* lead, resolve and quiesce).
PipelineProgress ==
    \A c \in Conns :
        pc[c] \in {"releaseLead", "releaseFollow", "quiesce"} ~> pc[c] = "idle"

-----------------------------------------------------------------------------
(* The inductive invariant behind the safety properties.                    *)

\* A run of distinct members in submission order, whose prefix sums leave room
\* for each one's own records.
WellOrdered(q) ==
    /\ \A i \in 1..Len(q) : 0 < q[i].recs /\ q[i].recs <= q[i].upto
    /\ \A i, j \in 1..Len(q) :
          i < j => q[i].conn # q[j].conn /\ q[i].upto + q[j].recs <= q[j].upto

\* The member's connection is inside GroupCommit::commit and not yet resolved.
InFlight(m) ==
    /\ pc[m.conn] \in CommitPcs
    /\ ~done[m.conn]
    /\ txn[m.conn] = m.owner

QueueInv ==
    /\ WellOrdered(queue)
    /\ \A i \in 1..Len(queue) :
          InFlight(queue[i]) /\ queue[i].upto <= submitted
    /\ \A c \in Conns : pc[c] \in {"releaseLead", "drain"} => queue # <<>>

BatchInv ==
    \A c \in Conns :
        /\ batch[c] # <<>> <=> pc[c] \in BatchPcs
        /\ WellOrdered(batch[c])
        /\ \A i \in 1..Len(batch[c]) :
              /\ InFlight(batch[c][i])
              /\ \A j \in 1..Len(queue) : batch[c][i].conn # queue[j].conn

\* DDL runs against a quiesced pipeline.
DdlInv ==
    \A c \in Conns :
        pc[c] \in {"ddl", "ddlPublish", "ddlPages"} => ~leaderActive /\ queue = <<>>

\* The entries a batch was given, as its leader reconstructs them from `last`.
BatchEntries(c) == Slices(batch[c], last[c] - Total(batch[c]) + 1)

DdlEntry(c) == DdlRecords(last[c] - 1)

\* committed_lsn trails the log by at least the append being published, and
\* by the pages written since the last one.
MarkInv ==
    /\ committed <= durableLsn
    /\ \A c \in Conns :
          /\ pc[c] = "publish" =>
                /\ last[c] = durableLsn /\ committed + Total(batch[c]) <= durableLsn
                /\ BatchEntries(c) \subseteq wal
          /\ pc[c] = "ddlPublish" =>
                /\ last[c] = durableLsn /\ committed + 2 <= durableLsn
                /\ DdlEntry(c) \in wal
          /\ pc[c] = "resolve" /\ last[c] # 0 =>
                Total(batch[c]) <= last[c] /\ BatchEntries(c) \subseteq published
          /\ pc[c] = "discard" => last[c] = 0

LogInv ==
    /\ published \subseteq wal
    /\ \A e \in wal : e.last <= durableLsn
    /\ \A e \in published : e.last <= committed
    /\ \A e \in wal \ published :
          /\ committed < e.last
          /\ \E c \in Conns :
                \/ pc[c] = "publish" /\ e \in BatchEntries(c)
                \/ pc[c] = "ddlPublish" /\ e = DdlEntry(c)

\* What recovery may find past the end of the log is past every snapshot too.
TailInv ==
    /\ durableLsn <= tailLsn
    /\ \A e \in tail : durableLsn < e.last /\ e.last <= tailLsn

ResultInv ==
    \A c \in Conns :
        done[c] =>
          /\ pc[c] \in CommitPcs
          /\ result[c] # 0 =>
                \E e \in published : e.owner = txn[c] /\ e.last = result[c]

IInv ==
    /\ TypeOK
    /\ LaneExclusive
    /\ OneLeader
    /\ QueueInv
    /\ BatchInv
    /\ DdlInv
    /\ MarkInv
    /\ LogInv
    /\ TailInv
    /\ ResultInv
    /\ AckedDurable
=============================================================================
