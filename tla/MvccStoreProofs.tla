-------------------------- MODULE MvccStoreProofs --------------------------
(***************************************************************************)
(* Proofs about the versioned row store, for any connections, tables, keys *)
(* and bounds: no update is lost, the pending versions are the writers'    *)
(* WAL ops, memory is what recovery would rebuild, and the primary key is  *)
(* unique.  The first three are about statements that are atomic and check *)
(* for conflicts (no REPLACE or DO UPDATE, none that raises after it has   *)
(* changed rows), as in the run mvcc_store; the last about all but a DO    *)
(* UPDATE that assigns the primary key, and about statements that raise    *)
(* after they have superseded rows only until the first crash, as in       *)
(* mvcc_upserts.  Savepoints are over one table.                           *)
(***************************************************************************)
EXTENDS MvccStore, InductionLemmas, FiniteSetTheorems, TLAPS

Kinds == {"insert", "delete"}

\* The stamp that an op of kind k sets, and that op o is such an op of version v.
Stamp(v, k) == IF k = "insert" THEN v.create ELSE v.del
Logs(o, k, t, v) == o.op = k /\ o.tab = t /\ o.vid = v.vid /\ o.key = v.key /\ o.val = v.val

\* Two ops stamp the same version in the same way.
Same(o, p) == o.op = p.op /\ o.tab = p.tab /\ o.vid = p.vid

Writing(c) == pc[c] \in {"writing", "queued"}

Save == [ins : SUBSET Nat, del : SUBSET Nat, len : Nat]

\* Transactions: an owner belongs to one of them, and only writers have ops.
TxnInv ==
    /\ pc \in [Conns -> {"idle", "open", "writing", "queued"}]
    /\ snap \in [Conns -> Nat] /\ owner \in [Conns -> Nat] /\ nextOwner \in Nat
    /\ \A c \in Conns :
          /\ owner[c] < nextOwner /\ (pc[c] = "idle" <=> owner[c] = 0)
          /\ pc[c] \in {"idle", "open"} => ops[c] = <<>>
          /\ pc[c] = "idle" => saves[c] = <<>>
          /\ \A d \in Conns : owner[c] = owner[d] /\ owner[c] # 0 => c = d

\* A queued commit is in the queue or the batch, once.
QueueInv ==
    /\ queue \in Seq(Conns) /\ flush \in [ok : BOOLEAN, batch : Seq(Conns)]
    /\ \A i \in 1..Len(queue) : pc[queue[i]] = "queued"
    /\ \A i \in 1..Len(flush.batch) : pc[flush.batch[i]] = "queued"
    /\ \A i, j \in 1..Len(queue) : queue[i] = queue[j] => i = j
    /\ \A i, j \in 1..Len(flush.batch) : flush.batch[i] = flush.batch[j] => i = j
    /\ \A i \in 1..Len(queue), j \in 1..Len(flush.batch) : queue[i] # flush.batch[j]

\* LSNs stay below PENDING: there is a transaction for each.
Unqueued == {c \in Conns : pc[c] \in {"open", "writing"}}
LsnInv ==
    /\ Len(wal) + Len(queue) + Cardinality(Unqueued) < nextOwner
    /\ nextOwner <= PENDING

\* The versions of the tables rw when the next ids are nv and the mark is cm.
RowsOk(rw, nv, cm) ==
    /\ rw \in [Tables -> SUBSET Version] /\ nv \in [Tables -> Nat \ {0}]
    /\ \A t \in Tables : \A v \in rw[t] :
          /\ v.vid < nv[t]
          /\ v.create \in (1..cm) \cup {PENDING} /\ v.del \in (0..cm) \cup {PENDING}
          /\ v.create # PENDING /\ v.del # PENDING => v.owner = 0
          /\ v.create = PENDING => v.del \in {0, PENDING}
          /\ \A w \in rw[t] : v.vid = w.vid => v = w

\* The ops op of the writers are their pending stamps, each once; a version is
\* inserted before it is deleted.
OpPending(rw, o, me) ==
    \E v \in rw[o.tab] : Logs(o, o.op, o.tab, v) /\ Stamp(v, o.op) = PENDING /\ v.owner = me
HasOp(s, k, t, v) == \E i \in 1..Len(s) : Logs(s[i], k, t, v)
InOrder(s) ==
    \A i, j \in 1..Len(s) :
        /\ Same(s[i], s[j]) => i = j
        /\ s[i].op = "delete" /\ s[j].op = "insert" /\ s[i].tab = s[j].tab
              /\ s[i].vid = s[j].vid => j < i

PendOk(rw, op) ==
    /\ op \in [Conns -> Seq(Op)]
    /\ \A c \in Conns : Writing(c) =>
          \A i \in 1..Len(op[c]) : OpPending(rw, op[c][i], owner[c])
    /\ \A t \in Tables : \A v \in rw[t], k \in Kinds :
          Stamp(v, k) = PENDING =>
              \E c \in Conns : Writing(c) /\ owner[c] = v.owner /\ HasOp(op[c], k, t, v)
    /\ \A c \in Conns : InOrder(op[c])

\* A savepoint knows the versions of the ops before it.
VidsIn(s, n, k) == {s[i].vid : i \in {j \in 1..n : s[j].op = k}}

SaveOk(op, sv) ==
    /\ sv \in [Conns -> Seq(Save)]
    /\ \A c \in Conns : Len(sv[c]) <= MaxSaves /\ \A a \in 1..Len(sv[c]) :
          /\ sv[c][a].len <= Len(op[c])
          /\ sv[c][a].ins = VidsIn(op[c], sv[c][a].len, "insert")
          /\ sv[c][a].del = VidsIn(op[c], sv[c][a].len, "delete")
          /\ \A b \in 1..Len(sv[c]) : a <= b => sv[c][a].len <= sv[c][b].len

\* The committed stamps are the log up to the mark.
LogOk(rw, w, cm) ==
    /\ w \in Seq(Seq(Op)) /\ cm \in 0..Len(w)
    /\ \A t \in Tables : \A v \in rw[t], k \in Kinds :
          Stamp(v, k) \in 1..cm => HasOp(w[Stamp(v, k)], k, t, v)
    /\ \A i \in 1..cm : \A m \in 1..Len(w[i]) :
          \E v \in rw[w[i][m].tab] :
              Logs(w[i][m], w[i][m].op, w[i][m].tab, v) /\ Stamp(v, w[i][m].op) = i

\* Above the mark the log is the batch that is not published yet.
TailInv ==
    /\ Len(wal) = committed + (IF flush.ok THEN Len(flush.batch) ELSE 0)
    /\ flush.ok => \A i \in 1..Len(flush.batch) : wal[committed + i] = ops[flush.batch[i]]

\* The log inserts and deletes a version at most once, and deletes what it inserted
\* before.
WalOk(w) ==
    /\ \A i, j \in 1..Len(w) : \A m \in 1..Len(w[i]), n \in 1..Len(w[j]) :
          Same(w[i][m], w[j][n]) => i = j /\ m = n
    /\ \A i \in 1..Len(w) : \A m \in 1..Len(w[i]) : w[i][m].op = "delete" =>
          \E j \in 1..i : HasOp(w[j], "insert", w[i][m].tab, w[i][m])

RowsInv == RowsOk(rows, nextVid, committed)
PendInv == PendOk(rows, ops)
SaveInv == SaveOk(ops, saves)
LogInv  == LogOk(rows, wal, committed)
WalInv  == WalOk(wal)

StoreInv ==
    /\ TxnInv
    /\ QueueInv
    /\ LsnInv
    /\ RowsInv
    /\ PendInv
    /\ SaveInv
    /\ LogInv
    /\ TailInv
    /\ WalInv

\* The statements the proofs are about.
Checked == OnConflicts \subseteq {"error", "nothing"} /\ Midway = {}
OneTable == MaxSaves = 0 \/ \A t, u \in Tables : t = u

-----------------------------------------------------------------------------
(* What the invariant says of the properties.                               *)

\* A record of the store has its fields.
LEMMA VersionFields ==
    ASSUME NEW v \in Version
    PROVE  /\ v.vid \in Nat /\ v.key \in Keys /\ v.val \in Vals /\ v.owner \in Nat
           /\ v.create \in 0..PENDING /\ v.del \in 0..PENDING
BY DEF Version

\* And so has an op.
LEMMA OpFields ==
    ASSUME NEW o \in Op
    PROVE  o.op \in Kinds /\ o.tab \in Tables /\ o.vid \in Nat /\ o.key \in Keys /\ o.val \in Vals
BY DEF Op, Kinds

\* PENDING is above every LSN the store has published.
LEMMA PendingIsAbove ==
    ASSUME StoreInv
    PROVE  /\ PENDING \in Nat /\ committed \in Nat /\ Len(wal) \in Nat
           /\ committed <= Len(wal) /\ Len(wal) < PENDING /\ PENDING # 0
           /\ Len(wal) + Len(queue) < nextOwner
<1>1. PENDING \in Nat /\ nextOwner \in Nat /\ Len(wal) \in Nat /\ Len(queue) \in Nat
      /\ committed \in 0..Len(wal)
  BY StoreAssumption DEF StoreInv, PENDING, TxnInv, LogInv, LogOk, QueueInv
<1>2. Cardinality(Unqueued) \in Nat
  <2>1. IsFiniteSet(Unqueued)
    BY StoreAssumption, FS_Subset DEF Unqueued
  <2> QED BY <2>1, FS_CardinalityType
<1>3. Len(wal) + Len(queue) + Cardinality(Unqueued) < nextOwner /\ nextOwner <= PENDING
  BY DEF StoreInv, LsnInv
<1> HIDE DEF PENDING
<1> QED BY <1>1, <1>2, <1>3

\* The log deletes a version at most once.
LEMMA InvNoLostUpdate == ASSUME WalInv PROVE NoLostUpdate
<1> SUFFICES ASSUME NEW t \in Tables, NEW d, NEW i \in LsnsOf(wal, "delete", t, d),
                    NEW j \in LsnsOf(wal, "delete", t, d)
             PROVE  i = j
  BY DEF NoLostUpdate
<1>1. PICK m \in 1..Len(wal[i]) : wal[i][m].op = "delete" /\ wal[i][m].tab = t /\ wal[i][m].vid = d
  BY DEF LsnsOf
<1>2. PICK n \in 1..Len(wal[j]) : wal[j][n].op = "delete" /\ wal[j][n].tab = t /\ wal[j][n].vid = d
  BY DEF LsnsOf
<1>3. Same(wal[i][m], wal[j][n]) /\ i \in 1..Len(wal) /\ j \in 1..Len(wal)
  BY <1>1, <1>2 DEF Same, LsnsOf
<1> QED BY <1>3 DEF WalInv, WalOk

\* Ops and pending stamps are the same thing.
LEMMA InvPending == ASSUME StoreInv PROVE PendingMatchesOps
<1>0. PENDING # 0
  BY PendingIsAbove
<1>1. ASSUME NEW c \in Conns, pc[c] \in {"writing", "queued"}, NEW t \in Tables,
             NEW k \in Kinds
      PROVE  {v.vid : v \in {w \in {u \in rows[t] : u.owner = owner[c]} : Stamp(w, k) = PENDING}}
               = {ops[c][i].vid : i \in {j \in 1..Len(ops[c]) :
                     ops[c][j].op = k /\ ops[c][j].tab = t}}
  <2> DEFINE A == {v.vid : v \in {w \in {u \in rows[t] : u.owner = owner[c]} : Stamp(w, k) = PENDING}}
             B == {ops[c][i].vid : i \in {j \in 1..Len(ops[c]) :
                     ops[c][j].op = k /\ ops[c][j].tab = t}}
  <2>1. ASSUME NEW x \in A PROVE x \in B
    <3>1. PICK v \in rows[t] : v.owner = owner[c] /\ Stamp(v, k) = PENDING /\ x = v.vid
      OBVIOUS
    <3>2. PICK d \in Conns : Writing(d) /\ owner[d] = v.owner /\ HasOp(ops[d], k, t, v)
      BY <3>1 DEF StoreInv, PendInv, PendOk
    <3>3. d = c
      BY <1>1, <3>1, <3>2 DEF StoreInv, TxnInv
    <3> QED BY <3>1, <3>2, <3>3 DEF HasOp, Logs
  <2>2. ASSUME NEW x \in B PROVE x \in A
    <3>1. PICK i \in 1..Len(ops[c]) : ops[c][i].op = k /\ ops[c][i].tab = t /\ x = ops[c][i].vid
      OBVIOUS
    <3>2. OpPending(rows, ops[c][i], owner[c])
      BY <1>1 DEF StoreInv, PendInv, PendOk, Writing
    <3> QED BY <3>1, <3>2 DEF OpPending, Logs
  <2> QED BY <2>1, <2>2
<1>2. ASSUME NEW t \in Tables, NEW v \in rows[t], v.create = PENDING \/ v.del = PENDING
      PROVE  \E c \in Conns : pc[c] # "idle" /\ owner[c] = v.owner
  <2>1. PICK k \in Kinds : Stamp(v, k) = PENDING
    BY <1>2 DEF Kinds, Stamp
  <2>2. PICK c \in Conns : Writing(c) /\ owner[c] = v.owner
    BY <2>1 DEF StoreInv, PendInv, PendOk
  <2> QED BY <2>2 DEF Writing
<1>3. ASSUME NEW c \in Conns, pc[c] \in {"writing", "queued"}, NEW t \in Tables
      PROVE  LET mine    == {v \in rows[t] : v.owner = owner[c]}
                 Vids(o) == {ops[c][i].vid : i \in {j \in 1..Len(ops[c]) :
                                ops[c][j].op = o /\ ops[c][j].tab = t}} IN
             /\ {v.vid : v \in {w \in mine : w.create = PENDING}} = Vids("insert")
             /\ {v.vid : v \in {w \in mine : w.del = PENDING}} = Vids("delete")
  <2>1. "insert" \in Kinds /\ "delete" \in Kinds
    BY DEF Kinds
  <2> DEFINE mine    == {v \in rows[t] : v.owner = owner[c]}
             Vids(o) == {ops[c][i].vid : i \in {j \in 1..Len(ops[c]) :
                            ops[c][j].op = o /\ ops[c][j].tab = t}}
  <2>2. /\ {v.vid : v \in {w \in mine : Stamp(w, "insert") = PENDING}} = Vids("insert")
        /\ {v.vid : v \in {w \in mine : Stamp(w, "delete") = PENDING}} = Vids("delete")
    BY <1>1, <1>3, <2>1
  <2> HIDE DEF mine, Vids
  <2>3. /\ {w \in mine : Stamp(w, "insert") = PENDING} = {w \in mine : w.create = PENDING}
        /\ {w \in mine : Stamp(w, "delete") = PENDING} = {w \in mine : w.del = PENDING}
    BY DEF Stamp
  <2>4. /\ {v.vid : v \in {w \in mine : w.create = PENDING}} = Vids("insert")
        /\ {v.vid : v \in {w \in mine : w.del = PENDING}} = Vids("delete")
    BY <2>2, <2>3
  <2> QED BY <2>4 DEF mine, Vids
<1> QED BY <1>2, <1>3 DEF PendingMatchesOps

-----------------------------------------------------------------------------
(* Recovery.                                                                *)

\* What replay makes of the j-th op of the i-th transaction, an insert: its deletion
\* is the last one that the log has from there on.
Deletes(w, t, d, i) == {l \in LsnsOf(w, "delete", t, d) : l >= i}
Restored(w, t, i, j) ==
    [vid |-> w[i][j].vid, key |-> w[i][j].key, val |-> w[i][j].val, create |-> i,
     del |-> Max({0} \cup Deletes(w, t, w[i][j].vid, i)), owner |-> 0]

Inserts(w, t, i, j) ==
    i \in 1..Len(w) /\ j \in 1..Len(w[i]) /\ w[i][j].op = "insert" /\ w[i][j].tab = t

\* Replay restores a version per insert of the log.
LEMMA ReplayRestores ==
    ASSUME NEW w, NEW t
    PROVE  /\ \A r \in Replay(w, t) : \E i, j : Inserts(w, t, i, j) /\ r = Restored(w, t, i, j)
           /\ \A i, j : Inserts(w, t, i, j) => Restored(w, t, i, j) \in Replay(w, t)
<1> DEFINE J(i) == {n \in 1..Len(w[i]) : w[i][n].op = "insert" /\ w[i][n].tab = t}
           F(i) == {Restored(w, t, i, j) : j \in J(i)}
<1>1. Replay(w, t) = UNION {F(i) : i \in 1..Len(w)}
  BY DEF Replay, Restored, Deletes
<1>2. ASSUME NEW r \in Replay(w, t)
      PROVE  \E i, j : Inserts(w, t, i, j) /\ r = Restored(w, t, i, j)
  <2>1. PICK i \in 1..Len(w) : r \in F(i)
    BY <1>1
  <2>2. PICK j \in J(i) : r = Restored(w, t, i, j)
    BY <2>1
  <2> QED BY <2>1, <2>2 DEF Inserts
<1>3. ASSUME NEW i, NEW j, Inserts(w, t, i, j)
      PROVE  Restored(w, t, i, j) \in Replay(w, t)
  <2>1. i \in 1..Len(w) /\ j \in J(i)
    BY <1>3 DEF Inserts
  <2>2. Restored(w, t, i, j) \in F(i)
    BY <2>1
  <2> QED BY <1>1, <2>1, <2>2
<1> QED BY <1>2, <1>3

\* In a log that deletes what it inserted before, that is its only deletion.
Rebuilt(w, t, i, j) ==
    [vid |-> w[i][j].vid, key |-> w[i][j].key, val |-> w[i][j].val, create |-> i,
     del |-> Max({0} \cup LsnsOf(w, "delete", t, w[i][j].vid)), owner |-> 0]

\* Replay rebuilds a version per insert of such a log.
LEMMA ReplayIs ==
    ASSUME NEW w, Len(w) \in Nat, WalOk(w), NEW t
    PROVE  /\ \A r \in Replay(w, t) : \E i, j : Inserts(w, t, i, j) /\ r = Rebuilt(w, t, i, j)
           /\ \A i, j : Inserts(w, t, i, j) => Rebuilt(w, t, i, j) \in Replay(w, t)
<1>1. ASSUME NEW i, NEW j, Inserts(w, t, i, j) PROVE Restored(w, t, i, j) = Rebuilt(w, t, i, j)
  <2> DEFINE d == w[i][j].vid
  <2>1. i \in 1..Len(w) /\ j \in 1..Len(w[i]) /\ w[i][j].op = "insert" /\ w[i][j].tab = t
    BY <1>1 DEF Inserts
  <2>2. ASSUME NEW l \in LsnsOf(w, "delete", t, d) PROVE l >= i
    <3>1. l \in 1..Len(w)
      BY DEF LsnsOf
    <3>2. PICK m \in 1..Len(w[l]) : w[l][m].op = "delete" /\ w[l][m].tab = t /\ w[l][m].vid = d
      BY DEF LsnsOf
    <3>3. PICK q \in 1..l : HasOp(w[q], "insert", t, w[l][m])
      BY <3>1, <3>2 DEF WalOk
    <3>4. PICK p \in 1..Len(w[q]) : Logs(w[q][p], "insert", t, w[l][m])
      BY <3>3 DEF HasOp
    <3>5. Same(w[q][p], w[i][j])
      BY <2>1, <3>2, <3>4 DEF Same, Logs
    <3>6. q \in 1..Len(w)
      BY <3>1, <3>3
    <3>7. q = i
      BY <2>1, <3>4, <3>5, <3>6 DEF WalOk
    <3> QED BY <3>1, <3>3, <3>7
  <2>3. Deletes(w, t, d, i) = LsnsOf(w, "delete", t, d)
    BY <2>2 DEF Deletes
  <2> QED BY <2>3 DEF Restored, Rebuilt
<1> QED BY <1>1, ReplayRestores

\* Its deletion is the one the log has, if it has one.
LEMMA LastDelete ==
    ASSUME NEW w, Len(w) \in Nat, WalOk(w), NEW t, NEW d
    PROVE  LET D == LsnsOf(w, "delete", t, d)
               m == Max({0} \cup D)
           IN  /\ m \in 0..Len(w) /\ D \subseteq 1..Len(w)
               /\ m = 0 => D = {}
               /\ m # 0 => D = {m}
<1> DEFINE D == LsnsOf(w, "delete", t, d)
           T == {0} \cup D
<1>1. D \subseteq 1..Len(w)
  BY DEF LsnsOf
<1>2. \A i, j \in D : i = j
  <2> SUFFICES ASSUME NEW i \in D, NEW j \in D PROVE i = j
    OBVIOUS
  <2>1. PICK m \in 1..Len(w[i]) : w[i][m].op = "delete" /\ w[i][m].tab = t /\ w[i][m].vid = d
    BY DEF LsnsOf
  <2>2. PICK n \in 1..Len(w[j]) : w[j][n].op = "delete" /\ w[j][n].tab = t /\ w[j][n].vid = d
    BY DEF LsnsOf
  <2>3. Same(w[i][m], w[j][n]) /\ i \in 1..Len(w) /\ j \in 1..Len(w)
    BY <2>1, <2>2 DEF Same, LsnsOf
  <2> QED BY <2>3 DEF WalOk
<1> HIDE DEF D
<1>3. T \subseteq Nat /\ T # {} /\ \A x \in T : x <= Len(w)
  BY <1>1
<1>4. Max(T) \in T /\ \A y \in T : y <= Max(T)
  BY <1>3, MaxOfBounded
<1>5. Max(T) \in 0..Len(w)
  BY <1>3, <1>4
<1>6. Max(T) = 0 => D = {}
  <2> SUFFICES ASSUME Max(T) = 0, NEW x \in D PROVE FALSE
    OBVIOUS
  <2>1. x \in T /\ x \in 1..Len(w)
    BY <1>1
  <2>2. x <= Max(T)
    BY <1>4, <2>1
  <2>3. x <= 0
    BY <2>2
  <2> QED BY <2>1, <2>3
<1>7. Max(T) # 0 => D = {Max(T)}
  BY <1>2, <1>4
<1> QED BY <1>1, <1>5, <1>6, <1>7 DEF D

\* The delete LSN of a version in memory and in the log.
LEMMA DeleteLsns ==
    ASSUME StoreInv, NEW t \in Tables, NEW v \in rows[t]
    PROVE  LET D == LsnsOf(wal, "delete", t, v.vid)
           IN  /\ v.del \in 1..committed => v.del \in D
               /\ \A i \in D : i \in 1..committed => v.del = i
<1>1. "delete" \in Kinds /\ Stamp(v, "delete") = v.del /\ committed \in 0..Len(wal)
      /\ Len(wal) \in Nat
  BY DEF Kinds, Stamp, StoreInv, LogInv, LogOk
<1>2. ASSUME v.del \in 1..committed PROVE v.del \in LsnsOf(wal, "delete", t, v.vid)
  <2>1. HasOp(wal[v.del], "delete", t, v)
    BY <1>1, <1>2 DEF StoreInv, LogInv, LogOk
  <2>2. v.del \in 1..Len(wal)
    BY <1>1, <1>2
  <2> QED BY <2>1, <2>2 DEF HasOp, Logs, LsnsOf
<1>3. ASSUME NEW i \in LsnsOf(wal, "delete", t, v.vid), i \in 1..committed PROVE v.del = i
  <2>1. PICK m \in 1..Len(wal[i]) :
           wal[i][m].op = "delete" /\ wal[i][m].tab = t /\ wal[i][m].vid = v.vid
    BY DEF LsnsOf
  <2>2. PICK u \in rows[t] : Logs(wal[i][m], "delete", t, u) /\ Stamp(u, "delete") = i
    BY <1>3, <2>1 DEF StoreInv, LogInv, LogOk
  <2>3. u = v
    BY <2>1, <2>2 DEF Logs, StoreInv, RowsInv, RowsOk
  <2> QED BY <2>2, <2>3, <1>1
<1> QED BY <1>2, <1>3

\* Memory and log agree at every snapshot.
LEMMA InvMatches == ASSUME StoreInv PROVE StoreMatchesLog
<1> SUFFICES ASSUME NEW t \in Tables, NEW s \in 0..committed
             PROVE  Seen(rows[t], s) = Seen(Replay(wal, t), s)
  BY DEF StoreMatchesLog
<1>0. /\ PENDING \in Nat /\ committed \in Nat /\ Len(wal) \in Nat
      /\ committed <= Len(wal) /\ Len(wal) < PENDING
  BY PendingIsAbove
<1>1. WalOk(wal) /\ "insert" \in Kinds
  BY DEF StoreInv, WalInv, Kinds
<1> HIDE DEF PENDING
<1>2. ASSUME NEW v \in rows[t]
      PROVE  /\ v.create \in (1..committed) \cup {PENDING} /\ v.del \in (0..committed) \cup {PENDING}
             /\ LET m == Max({0} \cup LsnsOf(wal, "delete", t, v.vid))
                IN  (v.del = 0 \/ v.del > s) <=> (m = 0 \/ m > s)
  <2> DEFINE D == LsnsOf(wal, "delete", t, v.vid)
             m == Max({0} \cup D)
  <2>1. v.create \in (1..committed) \cup {PENDING} /\ v.del \in (0..committed) \cup {PENDING}
    BY DEF StoreInv, RowsInv, RowsOk
  <2>2. m \in 0..Len(wal) /\ D \subseteq 1..Len(wal) /\ (m = 0 => D = {}) /\ (m # 0 => D = {m})
    BY <1>0, <1>1, LastDelete
  <2>3. /\ v.del \in 1..committed => v.del \in D
        /\ \A i \in D : i \in 1..committed => v.del = i
    BY DeleteLsns
  <2> HIDE DEF D, m
  <2>4. ASSUME v.del \in 1..committed PROVE (v.del = 0 \/ v.del > s) <=> (m = 0 \/ m > s)
    <3>1. v.del \in D /\ m = v.del
      BY <2>2, <2>3, <2>4
    <3> QED BY <3>1
  <2>5. ASSUME v.del \in {0, PENDING} PROVE (v.del = 0 \/ v.del > s) <=> (m = 0 \/ m > s)
    <3>1. ASSUME m # 0 PROVE m > committed
      <4>1. m \in D /\ m \in 1..Len(wal)
        BY <2>2, <3>1
      <4>2. ASSUME m \in 1..committed PROVE FALSE
        <5>1. v.del = m
          BY <2>3, <4>1, <4>2
        <5> QED BY <5>1, <4>2, <2>5, <1>0
      <4> QED BY <4>1, <4>2, <1>0
    <3>2. m = 0 \/ m > s
      BY <3>1, <2>2, <1>0
    <3>3. v.del = 0 \/ v.del > s
      BY <2>5, <1>0
    <3> QED BY <3>2, <3>3
  <2>6. v.del \in 1..committed \/ v.del \in {0, PENDING}
    BY <2>1, <1>0
  <2>7. (v.del = 0 \/ v.del > s) <=> (m = 0 \/ m > s)
    BY <2>4, <2>5, <2>6
  <2> QED BY <2>1, <2>7 DEF D, m
<1>3. ASSUME NEW x \in Seen(rows[t], s) PROVE x \in Seen(Replay(wal, t), s)
  <2>1. PICK v \in rows[t] :
           visible_to_reader(v, s) /\ x = [vid |-> v.vid, key |-> v.key, val |-> v.val]
    BY DEF Seen
  <2>2. v.create <= s /\ (v.del = 0 \/ v.del > s)
    BY <2>1 DEF visible_to_reader
  <2>3. v.create \in 1..committed
    <3>1. v.create \in (1..committed) \cup {PENDING}
      BY <1>2
    <3> QED BY <2>2, <1>0, <3>1
  <2>4. HasOp(wal[v.create], "insert", t, v)
    BY <2>3, <1>1 DEF Stamp, StoreInv, LogInv, LogOk
  <2>5. PICK j \in 1..Len(wal[v.create]) : Logs(wal[v.create][j], "insert", t, v)
    BY <2>4 DEF HasOp
  <2> DEFINE r == Rebuilt(wal, t, v.create, j)
  <2>6. r \in Replay(wal, t)
    BY <2>3, <2>5, <1>0, <1>1, ReplayIs DEF Inserts, Logs
  <2>7. /\ r.create = v.create /\ r.vid = v.vid /\ r.key = v.key /\ r.val = v.val
        /\ r.del = Max({0} \cup LsnsOf(wal, "delete", t, v.vid))
    BY <2>5 DEF Rebuilt, Logs
  <2> HIDE DEF r
  <2>8. visible_to_reader(r, s)
    BY <2>2, <2>7, <1>2 DEF visible_to_reader
  <2> QED BY <2>1, <2>6, <2>7, <2>8 DEF Seen
<1>4. ASSUME NEW x \in Seen(Replay(wal, t), s) PROVE x \in Seen(rows[t], s)
  <2>1. PICK r \in Replay(wal, t) :
           visible_to_reader(r, s) /\ x = [vid |-> r.vid, key |-> r.key, val |-> r.val]
    BY DEF Seen
  <2>2. PICK i, j : Inserts(wal, t, i, j) /\ r = Rebuilt(wal, t, i, j)
    BY <1>0, <1>1, ReplayIs
  <2>3. /\ r.create = i /\ r.vid = wal[i][j].vid /\ r.key = wal[i][j].key /\ r.val = wal[i][j].val
        /\ r.del = Max({0} \cup LsnsOf(wal, "delete", t, wal[i][j].vid))
    BY <2>2 DEF Rebuilt
  <2>4. i <= s /\ (r.del = 0 \/ r.del > s)
    BY <2>1, <2>3 DEF visible_to_reader
  <2>5. i \in 1..committed /\ j \in 1..Len(wal[i]) /\ wal[i][j].op = "insert" /\ wal[i][j].tab = t
    BY <2>2, <2>4, <1>0 DEF Inserts
  <2>6. PICK v \in rows[t] : Logs(wal[i][j], "insert", t, v) /\ Stamp(v, "insert") = i
    BY <2>5 DEF StoreInv, LogInv, LogOk
  <2>7. v.create = i /\ v.vid = r.vid /\ v.key = r.key /\ v.val = r.val /\ wal[i][j].vid = v.vid
    BY <2>3, <2>6 DEF Logs, Stamp
  <2>8. visible_to_reader(v, s)
    BY <2>3, <2>4, <2>7, <1>2 DEF visible_to_reader
  <2> QED BY <2>1, <2>7, <2>8 DEF Seen
<1> QED BY <1>3, <1>4

\* The log names only versions the tables have had.
LEMMA WalVids ==
    ASSUME StoreInv, NEW t \in Tables, NEW i, NEW j, Inserts(wal, t, i, j)
    PROVE  wal[i][j].vid < nextVid[t]
<1>1. /\ i \in 1..Len(wal) /\ j \in 1..Len(wal[i]) /\ wal[i][j].op = "insert"
      /\ wal[i][j].tab = t
  BY DEF Inserts
<1>2. /\ committed \in Nat /\ Len(wal) \in Nat /\ committed <= Len(wal)
  BY PendingIsAbove
<1>3. \E v \in rows[t] : v.vid = wal[i][j].vid
  <2>1. CASE i <= committed
    <3>1. i \in 1..committed
      BY <1>1, <1>2, <2>1
    <3> QED BY <1>1, <3>1 DEF StoreInv, LogInv, LogOk, Logs
  <2>2. CASE ~(i <= committed)
    <3> DEFINE k == i - committed
               c == flush.batch[k]
    <3>0. flush.batch \in Seq(Conns) /\ flush.ok \in BOOLEAN
      BY DEF StoreInv, QueueInv
    <3>1. flush.ok /\ k \in 1..Len(flush.batch) /\ committed + k = i
      BY <1>1, <1>2, <2>2, <3>0 DEF StoreInv, TailInv
    <3>2. wal[i] = ops[c]
      BY <3>1 DEF StoreInv, TailInv
    <3>3. c \in Conns /\ Writing(c)
      BY <3>0, <3>1 DEF StoreInv, QueueInv, Writing
    <3> HIDE DEF k, c
    <3>4. OpPending(rows, wal[i][j], owner[c])
      BY <3>2, <3>3, <1>1 DEF StoreInv, PendInv, PendOk
    <3> QED BY <1>1, <3>4 DEF OpPending, Logs
  <2> QED BY <2>1, <2>2
<1> QED BY <1>3 DEF StoreInv, RowsInv, RowsOk

\* Version v is the one that replay rebuilds from that op.
RebuiltAs(w, t, i, j, v) ==
    /\ Inserts(w, t, i, j) /\ v = Rebuilt(w, t, i, j)
    /\ i \in 1..Len(w) /\ j \in 1..Len(w[i])
    /\ v \in Version /\ v.vid = w[i][j].vid /\ v.create = i /\ v.owner = 0
    /\ v.del \in 0..Len(w) /\ Logs(w[i][j], "insert", t, v)
    /\ v.del = Max({0} \cup LsnsOf(w, "delete", t, v.vid))

\* The fields of a version that replay rebuilds.
LEMMA RebuiltFields ==
    ASSUME NEW w \in Seq(Seq(Op)), WalOk(w), Len(w) < PENDING, NEW t \in Tables,
           NEW i, NEW j, Inserts(w, t, i, j)
    PROVE  RebuiltAs(w, t, i, j, Rebuilt(w, t, i, j))
<1>1. i \in 1..Len(w) /\ j \in 1..Len(w[i]) /\ w[i][j].op = "insert" /\ w[i][j].tab = t
  BY DEF Inserts
<1>2. w[i][j] \in Op /\ Len(w) \in Nat /\ PENDING \in Nat
  BY <1>1, StoreAssumption DEF PENDING
<1> DEFINE m == Max({0} \cup LsnsOf(w, "delete", t, w[i][j].vid))
<1>3. m \in 0..Len(w)
  BY <1>2, LastDelete
<1> HIDE DEF m, PENDING
<1>4. i \in 0..PENDING /\ m \in 0..PENDING
  BY <1>1, <1>2, <1>3
<1>5. w[i][j].vid \in Nat /\ w[i][j].key \in Keys /\ w[i][j].val \in Vals
  BY <1>2 DEF Op
<1>6. Rebuilt(w, t, i, j) = [vid |-> w[i][j].vid, key |-> w[i][j].key, val |-> w[i][j].val,
                             create |-> i, del |-> m, owner |-> 0]
  BY DEF Rebuilt, m
<1> DEFINE r == Rebuilt(w, t, i, j)
<1>7. /\ r \in Version /\ r.vid = w[i][j].vid /\ r.create = i /\ r.owner = 0
      /\ r.del = m /\ r.key = w[i][j].key /\ r.val = w[i][j].val
  BY <1>4, <1>5, <1>6 DEF Version
<1> HIDE DEF r
<1>8. r.del = Max({0} \cup LsnsOf(w, "delete", t, r.vid))
  BY <1>7 DEF m
<1>9. RebuiltAs(w, t, i, j, r)
  BY <1>1, <1>3, <1>7, <1>8 DEF RebuiltAs, Logs, r
<1> QED BY <1>9 DEF r

\* The tables that recovery rebuilds.
LEMMA ReplayRows ==
    ASSUME NEW w \in Seq(Seq(Op)), WalOk(w), Len(w) < PENDING, NEW nv \in [Tables -> Nat],
           \A t \in Tables : \A i, j : Inserts(w, t, i, j) => w[i][j].vid < nv[t]
    PROVE  LET rw == [t \in Tables |-> Replay(w, t)]
               fresh == [t \in Tables |-> 1 + Max({0} \cup {v.vid : v \in Replay(w, t)})]
           IN  /\ RowsOk(rw, fresh, Len(w))
               /\ LogOk(rw, w, Len(w))
               /\ \A t \in Tables : \A v \in rw[t] : v.create # PENDING /\ v.del # PENDING
<1> DEFINE rw == [t \in Tables |-> Replay(w, t)]
           fresh == [t \in Tables |-> 1 + Max({0} \cup {v.vid : v \in Replay(w, t)})]
<1>1. Len(w) \in Nat /\ PENDING \in Nat
  BY StoreAssumption DEF PENDING
<1> HIDE DEF PENDING
<1>2. ASSUME NEW t \in Tables, NEW v \in Replay(w, t)
      PROVE  \E i, j : RebuiltAs(w, t, i, j, v)
  <2>1. PICK i, j : Inserts(w, t, i, j) /\ v = Rebuilt(w, t, i, j)
    BY <1>1, ReplayIs
  <2> QED BY <2>1, RebuiltFields
<1>3. ASSUME NEW t \in Tables
      PROVE  fresh[t] \in Nat \ {0} /\ \A v \in Replay(w, t) : v.vid < fresh[t]
  <2> DEFINE T == {0} \cup {v.vid : v \in Replay(w, t)}
  <2>1. T \subseteq Nat /\ T # {} /\ \A x \in T : x <= nv[t]
    <3>1. ASSUME NEW v \in Replay(w, t) PROVE v.vid \in Nat /\ v.vid < nv[t]
      <4>1. PICK i, j : RebuiltAs(w, t, i, j, v)
        BY <1>2
      <4> QED BY <4>1, VersionFields DEF RebuiltAs
    <3> QED BY <3>1
  <2>2. Max(T) \in T /\ \A y \in T : y <= Max(T)
    BY <2>1, MaxOfBounded
  <2>3. fresh[t] = 1 + Max(T)
    OBVIOUS
  <2>4. \A v \in Replay(w, t) : v.vid \in T
    OBVIOUS
  <2> HIDE DEF T, fresh
  <2>5. Max(T) \in Nat
    BY <2>1, <2>2
  <2>6. ASSUME NEW v \in Replay(w, t) PROVE v.vid < fresh[t]
    <3>1. v.vid \in Nat /\ v.vid <= Max(T)
      BY <2>1, <2>2, <2>4
    <3> QED BY <2>3, <2>5, <3>1
  <2> QED BY <2>3, <2>5, <2>6
<1>4. ASSUME NEW t \in Tables, NEW v \in Replay(w, t), NEW u \in Replay(w, t), v.vid = u.vid
      PROVE  v = u
  <2>1. PICK i, j : RebuiltAs(w, t, i, j, v)
    BY <1>2
  <2>2. PICK m, n : RebuiltAs(w, t, m, n, u)
    BY <1>2
  <2>3. Same(w[i][j], w[m][n])
    BY <1>4, <2>1, <2>2 DEF Same, Inserts, RebuiltAs
  <2>4. i = m /\ j = n
    BY SMTT(30), <2>1, <2>2, <2>3 DEF WalOk, RebuiltAs
  <2> QED BY <2>1, <2>2, <2>4 DEF RebuiltAs
<1>5. ASSUME NEW t \in Tables, NEW v \in Replay(w, t)
      PROVE  v.create \in 1..Len(w) /\ v.del \in 0..Len(w) /\ v.owner = 0 /\ v \in Version
  BY <1>2 DEF RebuiltAs
<1>6. RowsOk(rw, fresh, Len(w))
  <2>1. rw \in [Tables -> SUBSET Version] /\ fresh \in [Tables -> Nat \ {0}]
    BY <1>3, <1>5
  <2>2. \A t \in Tables : rw[t] = Replay(w, t)
    OBVIOUS
  <2> HIDE DEF rw, fresh
  <2>3. \A t \in Tables : \A v \in rw[t] : v.create # PENDING
    BY <1>1, <1>5, <2>2
  <2> QED BY <1>3, <1>4, <1>5, <2>1, <2>2, <2>3 DEF RowsOk
<1>7. ASSUME NEW t \in Tables, NEW v \in Replay(w, t)
      PROVE  v.create # PENDING /\ v.del # PENDING
  BY <1>1, <1>5
<1>8. ASSUME NEW t \in Tables, NEW v \in Replay(w, t), NEW k \in Kinds, Stamp(v, k) \in 1..Len(w)
      PROVE  HasOp(w[Stamp(v, k)], k, t, v)
  <2>0. PICK i, j : RebuiltAs(w, t, i, j, v)
    BY <1>2
  <2>1. /\ i \in 1..Len(w) /\ j \in 1..Len(w[i]) /\ Logs(w[i][j], "insert", t, v)
        /\ v.create = i /\ v.del = Max({0} \cup LsnsOf(w, "delete", t, v.vid))
    BY <2>0 DEF RebuiltAs
  <2>2. CASE k = "insert"
    BY <2>1, <2>2 DEF Stamp, HasOp
  <2>3. CASE k = "delete"
    <3>1. v.del \in LsnsOf(w, "delete", t, v.vid)
      <4>1. v.del # 0
        BY <1>1, <1>8, <2>3 DEF Stamp
      <4> QED BY <1>1, <2>1, <4>1, LastDelete
    <3>2. PICK n \in 1..Len(w[v.del]) :
             w[v.del][n].op = "delete" /\ w[v.del][n].tab = t /\ w[v.del][n].vid = v.vid
      BY <3>1 DEF LsnsOf
    <3>3. PICK q \in 1..Len(w) : HasOp(w[q], "insert", t, w[v.del][n])
      <4>1. v.del \in 1..Len(w)
        BY <1>8, <2>3 DEF Stamp
      <4>2. PICK q \in 1..v.del : HasOp(w[q], "insert", t, w[v.del][n])
        BY <3>2, <4>1 DEF WalOk
      <4> QED BY <1>1, <4>1, <4>2
    <3>4. PICK p \in 1..Len(w[q]) : Logs(w[q][p], "insert", t, w[v.del][n])
      BY <3>3 DEF HasOp
    <3>5. Same(w[q][p], w[i][j])
      BY <2>1, <3>2, <3>4 DEF Same, Logs
    <3>6. q = i /\ p = j
      BY <2>1, <3>5 DEF WalOk
    <3>7. Logs(w[v.del][n], "delete", t, v)
      BY <2>1, <3>2, <3>4, <3>6 DEF Logs
    <3> QED BY <2>3, <3>7 DEF Stamp, HasOp
  <2> QED BY <2>2, <2>3 DEF Kinds
<1>9. ASSUME NEW i \in 1..Len(w), NEW m \in 1..Len(w[i])
      PROVE  /\ w[i][m].tab \in Tables
             /\ \E v \in Replay(w, w[i][m].tab) :
                  Logs(w[i][m], w[i][m].op, w[i][m].tab, v) /\ Stamp(v, w[i][m].op) = i
  <2> DEFINE t == w[i][m].tab
  <2>1. w[i][m] \in Op
    OBVIOUS
  <2>2. t \in Tables /\ w[i][m].op \in Kinds
    BY <2>1 DEF Op, Kinds
  <2>3. CASE w[i][m].op = "insert"
    <3>1. Inserts(w, t, i, m)
      BY <2>3 DEF Inserts
    <3>2. Rebuilt(w, t, i, m) \in Replay(w, t)
      BY <1>1, <3>1, ReplayIs
    <3>3. Logs(w[i][m], "insert", t, Rebuilt(w, t, i, m)) /\ Rebuilt(w, t, i, m).create = i
      <4> HIDE DEF t
      <4>1. RebuiltAs(w, t, i, m, Rebuilt(w, t, i, m))
        BY <2>2, <3>1, RebuiltFields
      <4> QED BY <4>1 DEF RebuiltAs
    <3> QED BY <2>2, <2>3, <3>2, <3>3 DEF Stamp
  <2>4. CASE w[i][m].op = "delete"
    <3>1. PICK j \in 1..Len(w) : HasOp(w[j], "insert", t, w[i][m])
      <4>1. PICK j \in 1..i : HasOp(w[j], "insert", t, w[i][m])
        BY <2>4 DEF WalOk
      <4>2. j \in 1..Len(w)
        <5>1. i \in 1..Len(w) /\ j \in 1..i /\ Len(w) \in Nat
          BY <1>1
        <5> QED BY <5>1
      <4> QED BY <4>1, <4>2
    <3>2. PICK n \in 1..Len(w[j]) : Logs(w[j][n], "insert", t, w[i][m])
      BY <3>1 DEF HasOp
    <3>3. Inserts(w, t, j, n)
      BY <3>2 DEF Inserts, Logs
    <3> DEFINE v == Rebuilt(w, t, j, n)
    <3>4. v \in Replay(w, t)
      BY <1>1, <3>3, ReplayIs
    <3>5. /\ Logs(w[j][n], "insert", t, v) /\ v.vid = w[j][n].vid
          /\ v.del = Max({0} \cup LsnsOf(w, "delete", t, v.vid))
      <4> HIDE DEF t, v
      <4>1. RebuiltAs(w, t, j, n, v)
        BY <2>2, <3>3, RebuiltFields DEF v
      <4> QED BY <4>1 DEF RebuiltAs
    <3> HIDE DEF v
    <3>6. Logs(w[i][m], "delete", t, v)
      BY <2>4, <3>2, <3>5 DEF Logs
    <3>7. i \in LsnsOf(w, "delete", t, v.vid)
      BY <2>4, <3>6 DEF LsnsOf, Logs
    <3> HIDE DEF t
    <3>8. v.del = i
      <4> DEFINE D == LsnsOf(w, "delete", t, v.vid)
                 x == Max({0} \cup D)
      <4>1. (x = 0 => D = {}) /\ (x # 0 => D = {x})
        BY <1>1, LastDelete
      <4> QED BY <3>5, <3>7, <4>1
    <3> USE DEF t
    <3> QED BY <2>2, <2>4, <3>4, <3>6, <3>8 DEF Stamp
  <2> QED BY <2>2, <2>3, <2>4 DEF Kinds
<1>10. LogOk(rw, w, Len(w))
  <2>1. \A t \in Tables : rw[t] = Replay(w, t)
    OBVIOUS
  <2> HIDE DEF rw
  <2>2. Len(w) \in 0..Len(w)
    BY <1>1
  <2>3. \A t \in Tables : \A v \in rw[t], k \in Kinds :
           Stamp(v, k) \in 1..Len(w) => HasOp(w[Stamp(v, k)], k, t, v)
    BY <1>8, <2>1
  <2>4. \A i \in 1..Len(w) : \A m \in 1..Len(w[i]) :
           \E v \in rw[w[i][m].tab] :
              Logs(w[i][m], w[i][m].op, w[i][m].tab, v) /\ Stamp(v, w[i][m].op) = i
    BY <1>9, <2>1
  <2> QED BY <2>2, <2>3, <2>4 DEF LogOk
<1> QED BY <1>6, <1>7, <1>10

\* Nobody counts for nothing.
LEMMA NobodyUnqueued ==
    ASSUME NEW S, S = {}
    PROVE  Cardinality(S) = 0
  BY FS_EmptySet

\* One connection more is one more.
LEMMA OneMoreConn ==
    ASSUME NEW S \in SUBSET Conns, NEW T \in SUBSET Conns, NEW c \in Conns,
           c \notin S, T = S \cup {c}
    PROVE  /\ Cardinality(S) \in Nat /\ Cardinality(T) \in Nat
           /\ Cardinality(T) = Cardinality(S) + 1
<1>1. IsFiniteSet(Conns)
  BY StoreAssumption
<1>2. IsFiniteSet(S) /\ IsFiniteSet(T)
  BY <1>1, FS_Subset
<1>3. Cardinality(S) \in Nat /\ Cardinality(T) \in Nat
  BY <1>2, FS_CardinalityType
<1>4. Cardinality(S \cup {c}) = Cardinality(S) + 1
  BY <1>2, FS_AddElement
<1> QED
  BY <1>3, <1>4

\* Fewer connections are no more.
LEMMA FewerConns ==
    ASSUME NEW S \in SUBSET Conns, NEW T \in SUBSET S
    PROVE  /\ Cardinality(S) \in Nat /\ Cardinality(T) \in Nat
           /\ Cardinality(T) <= Cardinality(S)
<1>1. IsFiniteSet(Conns)
  BY StoreAssumption
<1>2. IsFiniteSet(S) /\ IsFiniteSet(T)
  BY <1>1, FS_Subset
<1> QED
  BY <1>2, FS_CardinalityType, FS_Subset

-----------------------------------------------------------------------------
(* The queue and the LSNs, whatever the rows are.                           *)

\* The queue and the batch stay queued.
LEMMA QueueSame ==
    ASSUME QueueInv, UNCHANGED <<queue, flush>>,
           \A c \in Conns : pc[c] = "queued" => pc'[c] = "queued"
    PROVE  QueueInv'
<1>1. ASSUME NEW i \in 1..Len(queue) PROVE pc'[queue[i]] = "queued"
  BY DEF QueueInv
<1>2. ASSUME NEW i \in 1..Len(flush.batch) PROVE pc'[flush.batch[i]] = "queued"
  BY DEF QueueInv
<1> QED BY <1>1, <1>2 DEF QueueInv

\* A commit joins the queue.
LEMMA QueuePush ==
    ASSUME QueueInv, pc \in [Conns -> {"idle", "open", "writing", "queued"}],
           NEW c \in Conns, pc[c] = "writing",
           pc' = [pc EXCEPT ![c] = "queued"], queue' = Append(queue, c), flush' = flush
    PROVE  QueueInv'
<1>1. queue \in Seq(Conns) /\ Len(queue) \in Nat
  BY DEF QueueInv
<1>2. queue' \in Seq(Conns) /\ Len(queue') = Len(queue) + 1 /\ queue'[Len(queue) + 1] = c
      /\ \A i \in 1..Len(queue) : queue'[i] = queue[i]
  BY <1>1
<1>3. /\ \A d \in Conns : pc[d] = "queued" => pc'[d] = "queued" /\ d # c
      /\ pc'[c] = "queued"
  OBVIOUS
<1>4. ASSUME NEW i \in 1..Len(queue')
      PROVE  (i \in 1..Len(queue) /\ queue'[i] = queue[i] /\ queue'[i] # c)
             \/ (i = Len(queue) + 1 /\ queue'[i] = c)
  <2>1. i \in 1..Len(queue) \/ i = Len(queue) + 1
    BY <1>1, <1>2
  <2>2. CASE i \in 1..Len(queue)
    <3>1. queue[i] \in Conns /\ pc[queue[i]] = "queued"
      BY <1>1, <2>2 DEF QueueInv
    <3> QED BY <1>2, <1>3, <2>2, <3>1
  <2> QED BY <1>2, <2>1, <2>2
<1>5. \A i \in 1..Len(queue') : pc'[queue'[i]] = "queued"
  <2> TAKE i \in 1..Len(queue')
  <2>1. CASE i \in 1..Len(queue) /\ queue'[i] = queue[i]
    <3>1. queue[i] \in Conns /\ pc[queue[i]] = "queued"
      BY <1>1, <2>1 DEF QueueInv
    <3> QED BY <1>3, <2>1, <3>1
  <2> QED BY <1>3, <1>4, <2>1
<1>6. \A i, j \in 1..Len(queue') : queue'[i] = queue'[j] => i = j
  BY <1>4 DEF QueueInv
<1>7. \A i \in 1..Len(flush.batch) : flush.batch[i] \in Conns /\ pc[flush.batch[i]] = "queued"
  BY DEF QueueInv
<1>8. \A i \in 1..Len(queue'), j \in 1..Len(flush.batch) : queue'[i] # flush.batch[j]
  BY <1>3, <1>4, <1>7 DEF QueueInv
<1>9. \A i \in 1..Len(flush.batch) : pc'[flush.batch[i]] = "queued"
  BY <1>3, <1>7
<1> QED BY <1>2, <1>5, <1>6, <1>8, <1>9 DEF QueueInv

\* A leader drains the first n commits.
LEMMA QueueDrain ==
    ASSUME QueueInv, NEW n \in 1..Len(queue), NEW b, b = SubSeq(queue, 1, n), pc' = pc,
           queue' = SubSeq(queue, n + 1, Len(queue)),
           flush' \in {[ok |-> TRUE, batch |-> b], [ok |-> FALSE, batch |-> b]}
    PROVE  /\ QueueInv' /\ b \in Seq(Conns) /\ Len(b) = n /\ flush'.batch = b
           /\ \A i \in 1..n : b[i] = queue[i] /\ i \in 1..Len(queue)
           /\ queue' \in Seq(Conns) /\ Len(queue') = Len(queue) - n
<1>1. queue \in Seq(Conns) /\ Len(queue) \in Nat /\ n \in Nat /\ n <= Len(queue)
  BY DEF QueueInv
<1>2. b \in Seq(Conns) /\ Len(b) = n /\ \A i \in 1..n : b[i] = queue[i] /\ i \in 1..Len(queue)
  BY <1>1
<1>3. /\ queue' \in Seq(Conns) /\ Len(queue') = Len(queue) - n
      /\ \A i \in 1..Len(queue') : queue'[i] = queue[n + i] /\ n + i \in 1..Len(queue) /\ n + i > n
  BY <1>1
<1>4. flush'.batch = b /\ flush' \in [ok : BOOLEAN, batch : Seq(Conns)]
  <2>1. ASSUME NEW s \in Seq(Conns), NEW o \in BOOLEAN, flush' = [ok |-> o, batch |-> s]
        PROVE  flush'.batch = s /\ flush' \in [ok : BOOLEAN, batch : Seq(Conns)]
    BY <2>1
  <2>2. flush' = [ok |-> TRUE, batch |-> b] \/ flush' = [ok |-> FALSE, batch |-> b]
    OBVIOUS
  <2> QED BY <1>2, <2>1, <2>2
<1>5. /\ \A i \in 1..Len(queue) : pc[queue[i]] = "queued"
      /\ \A i, j \in 1..Len(queue) : queue[i] = queue[j] => i = j
  BY DEF QueueInv
<1>6. \A i \in 1..Len(queue') : pc[queue'[i]] = "queued"
  BY <1>3, <1>5
<1>7. \A i \in 1..n : pc[b[i]] = "queued"
  BY <1>2, <1>5
<1>8. ASSUME NEW i \in 1..Len(queue'), NEW j \in 1..Len(queue'), queue'[i] = queue'[j]
      PROVE  i = j
  <2>1. n + i = n + j
    BY <1>3, <1>5, <1>8
  <2> QED BY <1>1, <2>1
<1>9. \A i, j \in 1..n : b[i] = b[j] => i = j
  BY <1>2, <1>5
<1>10. ASSUME NEW i \in 1..Len(queue'), NEW j \in 1..n PROVE queue'[i] # b[j]
  <2>1. queue'[i] = queue[n + i] /\ n + i \in 1..Len(queue) /\ b[j] = queue[j] /\ j \in 1..Len(queue)
    BY <1>2, <1>3
  <2>2. n + i # j
    BY <1>1
  <2> QED BY <1>5, <2>1, <2>2
<1>11. QueueInv'
  BY <1>2, <1>3, <1>4, <1>6, <1>7, <1>8, <1>9, <1>10 DEF QueueInv
<1> QED BY <1>2, <1>3, <1>4, <1>11

\* The members of the batch, none of which is in the queue.
LEMMA QueueApart ==
    ASSUME QueueInv
    PROVE  /\ Range(flush.batch) \in SUBSET Conns
           /\ \A d : d \in Range(flush.batch) <=> \E i \in 1..Len(flush.batch) : flush.batch[i] = d
           /\ \A d \in Range(flush.batch) : pc[d] = "queued"
           /\ \A i \in 1..Len(queue) : queue[i] \in Conns /\ queue[i] \notin Range(flush.batch)
<1>1. flush.batch \in Seq(Conns) /\ queue \in Seq(Conns)
  BY DEF QueueInv
<1>2. \A d : d \in Range(flush.batch) <=> \E i \in 1..Len(flush.batch) : flush.batch[i] = d
  BY <1>1 DEF Range
<1>3. \A i \in 1..Len(flush.batch) : flush.batch[i] \in Conns /\ pc[flush.batch[i]] = "queued"
  BY <1>1 DEF QueueInv
<1>4. \A i \in 1..Len(queue) : queue[i] \in Conns
  BY <1>1
<1>5. \A i \in 1..Len(queue), j \in 1..Len(flush.batch) : queue[i] # flush.batch[j]
  BY DEF QueueInv
<1> QED BY <1>2, <1>3, <1>4, <1>5

\* The queue when the batch is over.
LEMMA QueueOver ==
    ASSUME QueueInv, flush' = NoFlush, queue' = queue,
           \A d \in Conns : d \notin Range(flush.batch) => pc'[d] = pc[d]
    PROVE  QueueInv'
<1>1. \A i \in 1..Len(queue) : queue[i] \in Conns /\ queue[i] \notin Range(flush.batch)
  BY QueueApart
<1>2. \A i \in 1..Len(queue) : pc'[queue[i]] = "queued"
  BY <1>1 DEF QueueInv
<1>3. flush'.batch = <<>> /\ flush' \in [ok : BOOLEAN, batch : Seq(Conns)]
  BY DEF NoFlush
<1>4. Len(flush'.batch) = 0
  BY <1>3
<1> QED BY <1>2, <1>3, <1>4 DEF QueueInv

\* What the counts of a state are.
LEMMA LsnCounts ==
    ASSUME LsnInv, QueueInv, nextOwner \in Nat, Len(wal) \in Nat
    PROVE  /\ Cardinality(Unqueued) \in Nat /\ Len(queue) \in Nat /\ PENDING \in Nat
           /\ Len(wal) + Len(queue) + Cardinality(Unqueued) < nextOwner
           /\ nextOwner <= PENDING
<1>1. Unqueued \in SUBSET Conns
  BY DEF Unqueued
<1>2. Cardinality(Unqueued) \in Nat
  BY <1>1, FewerConns
<1>3. PENDING \in Nat
  BY StoreAssumption DEF PENDING
<1> QED BY <1>2, <1>3 DEF LsnInv, QueueInv

\* A transaction begins.
LEMMA LsnBegin ==
    ASSUME LsnInv, QueueInv, nextOwner \in Nat, Len(wal) \in Nat,
           pc \in [Conns -> {"idle", "open", "writing", "queued"}],
           NEW c \in Conns, pc[c] = "idle", pc' = [pc EXCEPT ![c] = "open"],
           nextOwner <= MaxOwners, nextOwner' = nextOwner + 1, UNCHANGED <<queue, wal>>
    PROVE  LsnInv'
<1> DEFINE n == Cardinality(Unqueued)
           m == Cardinality(Unqueued')
<1>1. n \in Nat /\ m = n + 1
  <2>1. Unqueued' = Unqueued \cup {c} /\ c \notin Unqueued
    BY DEF Unqueued
  <2>2. Unqueued \in SUBSET Conns /\ Unqueued' \in SUBSET Conns
    BY DEF Unqueued
  <2> QED BY <2>1, <2>2, OneMoreConn
<1>2. Len(wal) + Len(queue) + n < nextOwner /\ Len(queue) \in Nat
  BY LsnCounts
<1>3. nextOwner + 1 <= PENDING
  BY StoreAssumption DEF PENDING
<1> HIDE DEF n, m
<1>4. Len(wal) + Len(queue) + m < nextOwner + 1
  BY <1>1, <1>2
<1> QED BY <1>3, <1>4 DEF LsnInv, m, PENDING

\* A commit joins the queue.
LEMMA LsnPush ==
    ASSUME LsnInv, QueueInv, nextOwner \in Nat, Len(wal) \in Nat,
           pc \in [Conns -> {"idle", "open", "writing", "queued"}],
           NEW c \in Conns, pc[c] = "writing", pc' = [pc EXCEPT ![c] = "queued"],
           queue' = Append(queue, c), UNCHANGED <<nextOwner, wal>>
    PROVE  LsnInv'
<1> DEFINE n == Cardinality(Unqueued)
           m == Cardinality(Unqueued')
<1>1. m \in Nat /\ n = m + 1
  <2>1. Unqueued = Unqueued' \cup {c} /\ c \notin Unqueued'
    BY DEF Unqueued
  <2>2. Unqueued \in SUBSET Conns /\ Unqueued' \in SUBSET Conns
    BY DEF Unqueued
  <2> QED BY <2>1, <2>2, OneMoreConn
<1>2. Len(wal) + Len(queue) + n < nextOwner /\ nextOwner <= PENDING /\ Len(queue) \in Nat
  BY LsnCounts
<1>3. Len(queue') = Len(queue) + 1
  BY DEF QueueInv
<1> HIDE DEF n, m
<1>4. Len(wal) + Len(queue') + m < nextOwner
  BY <1>1, <1>2, <1>3
<1> QED BY <1>2, <1>4 DEF LsnInv, m, PENDING

\* Transactions end, or commits move from the queue to the log.
LEMMA LsnFewer ==
    ASSUME LsnInv, QueueInv, nextOwner \in Nat, Len(wal) \in Nat,
           Len(wal') \in Nat, Len(queue') \in Nat,
           Unqueued' \subseteq Unqueued, nextOwner' = nextOwner,
           Len(wal') + Len(queue') <= Len(wal) + Len(queue)
    PROVE  LsnInv'
<1> DEFINE n == Cardinality(Unqueued)
           m == Cardinality(Unqueued')
<1>1. n \in Nat /\ m \in Nat /\ m <= n
  <2>1. Unqueued \in SUBSET Conns /\ Unqueued' \in SUBSET Unqueued
    BY DEF Unqueued
  <2> QED BY <2>1, FewerConns
<1>2. Len(wal) + Len(queue) + n < nextOwner /\ nextOwner <= PENDING /\ Len(queue) \in Nat
  BY LsnCounts
<1> HIDE DEF n, m
<1>3. Len(wal') + Len(queue') + m < nextOwner
  BY <1>1, <1>2
<1> QED BY <1>2, <1>3 DEF LsnInv, m, PENDING

-----------------------------------------------------------------------------
(* Steps that leave the rows alone.                                         *)

\* Initially there is nothing.
LEMMA InitInv == Init => StoreInv
<1> SUFFICES ASSUME Init PROVE StoreInv
  OBVIOUS
<1> USE DEF Init
<1>0. PENDING \in Nat /\ 1 <= PENDING
  BY StoreAssumption DEF PENDING
<1> HIDE DEF PENDING
<1>1. TxnInv
  BY DEF TxnInv
<1>2. QueueInv
  BY DEF QueueInv, NoFlush
<1>3. LsnInv
  <2>1. Unqueued = {}
    BY DEF Unqueued
  <2>2. Cardinality(Unqueued) = 0
    BY <2>1, NobodyUnqueued
  <2> QED BY <1>0, <2>2 DEF LsnInv
<1>4. RowsInv
  BY DEF RowsInv, RowsOk
<1>5. PendInv
  BY DEF PendInv, PendOk, InOrder, Writing
<1>6. SaveInv
  BY StoreAssumption DEF SaveInv, SaveOk
<1>7. LogInv
  BY DEF LogInv, LogOk
<1>8. TailInv
  BY DEF TailInv, NoFlush
<1>9. WalInv
  BY DEF WalInv, WalOk
<1> QED BY <1>1, <1>2, <1>3, <1>4, <1>5, <1>6, <1>7, <1>8, <1>9 DEF StoreInv

\* Recovery restores the invariant.
LEMMA CrashInv == ASSUME StoreInv, CrashAndReopen PROVE StoreInv'
<1> DEFINE rw == [t \in Tables |-> Replay(wal, t)]
           fresh == [t \in Tables |-> 1 + Max({0} \cup {v.vid : v \in Replay(wal, t)})]
<1>0. /\ rows' = rw /\ nextVid' = fresh /\ committed' = Len(wal) /\ wal' = wal
      /\ queue' = <<>> /\ flush' = NoFlush /\ nextOwner' = nextOwner
      /\ pc' = [c \in Conns |-> "idle"] /\ snap' = [c \in Conns |-> 0]
      /\ owner' = [c \in Conns |-> 0] /\ ops' = [c \in Conns |-> <<>>]
      /\ saves' = [c \in Conns |-> <<>>]
  BY DEF CrashAndReopen, EndTxns
<1>1. /\ PENDING \in Nat /\ Len(wal) \in Nat /\ Len(wal) < PENDING
      /\ Len(wal) + Len(queue) < nextOwner
      /\ nextOwner \in Nat /\ Len(queue) \in Nat /\ nextOwner <= PENDING
  BY PendingIsAbove DEF StoreInv, TxnInv, QueueInv, LsnInv
<1> HIDE DEF PENDING
<1>2. /\ RowsOk(rw, fresh, Len(wal))
      /\ LogOk(rw, wal, Len(wal))
      /\ \A t \in Tables : \A v \in rw[t] : v.create # PENDING /\ v.del # PENDING
  <2>1. wal \in Seq(Seq(Op)) /\ WalOk(wal) /\ nextVid \in [Tables -> Nat]
    BY DEF StoreInv, LogInv, LogOk, WalInv, RowsInv, RowsOk
  <2>2. \A t \in Tables : \A i, j : Inserts(wal, t, i, j) => wal[i][j].vid < nextVid[t]
    BY WalVids
  <2> QED BY <1>1, <2>1, <2>2, ReplayRows
<1> HIDE DEF rw, fresh
<1>3. TxnInv'
  BY <1>0, <1>1 DEF TxnInv
<1>4. QueueInv'
  BY <1>0 DEF QueueInv, NoFlush
<1>5. LsnInv'
  <2>1. Unqueued' = {}
    BY <1>0 DEF Unqueued
  <2>2. Cardinality(Unqueued') = 0
    BY <2>1, NobodyUnqueued
  <2>3. Len(queue') = 0
    BY <1>0
  <2> QED BY <1>0, <1>1, <2>2, <2>3 DEF LsnInv, PENDING
<1>6. RowsInv'
  BY <1>0, <1>2 DEF RowsInv
<1>7. PendInv'
  <2>1. \A t \in Tables : \A v \in rw[t], k \in Kinds : Stamp(v, k) # PENDING
    BY <1>2 DEF Stamp
  <2>2. ops' \in [Conns -> Seq(Op)] /\ \A c \in Conns : ops'[c] = <<>> /\ ~Writing(c)'
    BY <1>0 DEF Writing
  <2> QED BY <1>0, <2>1, <2>2 DEF PendInv, PendOk, InOrder
<1>8. SaveInv'
  BY <1>0, StoreAssumption DEF SaveInv, SaveOk
<1>9. LogInv'
  BY <1>0, <1>2 DEF LogInv
<1>10. TailInv'
  BY <1>0, <1>1 DEF TailInv, NoFlush
<1>11. WalInv'
  BY <1>0 DEF StoreInv, WalInv
<1> QED BY <1>3, <1>4, <1>5, <1>6, <1>7, <1>8, <1>9, <1>10, <1>11 DEF StoreInv

-----------------------------------------------------------------------------
(* Steps that leave the rows alone.                                         *)

\* What rests on the store and the log alone.
LEMMA SameStore ==
    ASSUME StoreInv, UNCHANGED <<rows, nextVid, committed, wal>>
    PROVE  RowsInv' /\ LogInv' /\ WalInv'
BY DEF StoreInv, RowsInv, LogInv, WalInv

\* The tail is of the batch alone.
LEMMA SameTail ==
    ASSUME StoreInv, UNCHANGED <<committed, flush, wal>>,
           \A c \in Conns : pc[c] = "queued" => ops'[c] = ops[c]
    PROVE  TailInv'
<1>1. ASSUME NEW i \in 1..Len(flush.batch) PROVE ops'[flush.batch[i]] = ops[flush.batch[i]]
  BY DEF StoreInv, QueueInv
<1> QED BY <1>1 DEF StoreInv, TailInv

\* The pending stamps when no writer is new or loses an op.
LEMMA SamePending ==
    ASSUME StoreInv, UNCHANGED <<rows, ops>>,
           \A c \in Conns : Writing(c) => Writing(c)' /\ owner'[c] = owner[c],
           \A c \in Conns : Writing(c)' => Writing(c) \/ ops[c] = <<>>
    PROVE  PendInv'
<1>1. PendOk(rows, ops)
  BY DEF StoreInv, PendInv
<1>2. ASSUME NEW c \in Conns, Writing(c)', NEW i \in 1..Len(ops[c])
      PROVE  OpPending(rows, ops[c][i], owner'[c])
  <2>1. Writing(c)
    BY <1>2
  <2> QED BY <1>1, <2>1 DEF PendOk
<1>3. ASSUME NEW t \in Tables, NEW v \in rows[t], NEW k \in Kinds, Stamp(v, k) = PENDING
      PROVE  \E c \in Conns : Writing(c)' /\ owner'[c] = v.owner /\ HasOp(ops[c], k, t, v)
  BY <1>1, <1>3 DEF PendOk
<1> QED BY <1>1, <1>2, <1>3 DEF PendInv, PendOk

\* BEGIN takes a fresh owner and writes nothing.
LEMMA BeginInv == ASSUME StoreInv, NEW c \in Conns, Begin(c) PROVE StoreInv'
<1>0. /\ pc[c] = "idle" /\ nextOwner <= MaxOwners /\ nextOwner' = nextOwner + 1
      /\ pc' = [pc EXCEPT ![c] = "open"] /\ owner' = [owner EXCEPT ![c] = nextOwner]
      /\ snap' = [snap EXCEPT ![c] = committed]
      /\ UNCHANGED <<rows, nextVid, committed, ops, saves, queue, flush, wal>>
  BY DEF Begin, Goto, storeVars, pipeVars
<1>1. /\ PENDING = MaxOwners + 1 /\ MaxOwners \in Nat /\ committed \in Nat /\ Len(wal) \in Nat
      /\ Len(queue) \in Nat /\ nextOwner \in Nat /\ Len(wal) + Len(queue) < nextOwner
  <2>1. PENDING = MaxOwners + 1 /\ MaxOwners \in Nat
    BY StoreAssumption DEF PENDING
  <2>2. Len(queue) \in Nat /\ nextOwner \in Nat
    BY DEF StoreInv, TxnInv, QueueInv
  <2> QED BY <2>1, <2>2, PendingIsAbove
<1> HIDE DEF PENDING
<1>2. TxnInv'
  <2>1. \A d \in Conns : owner'[d] = IF d = c THEN nextOwner ELSE owner[d]
    BY <1>0 DEF StoreInv, TxnInv
  <2>2. \A d \in Conns : pc'[d] = IF d = c THEN "open" ELSE pc[d]
    BY <1>0 DEF StoreInv, TxnInv
  <2>3. /\ pc' \in [Conns -> {"idle", "open", "writing", "queued"}]
        /\ snap' \in [Conns -> Nat] /\ owner' \in [Conns -> Nat] /\ nextOwner' \in Nat
    BY <1>0, <1>1 DEF StoreInv, TxnInv
  <2>4. ASSUME NEW d \in Conns
        PROVE  /\ owner'[d] < nextOwner' /\ (pc'[d] = "idle" <=> owner'[d] = 0)
               /\ pc'[d] \in {"idle", "open"} => ops'[d] = <<>>
               /\ pc'[d] = "idle" => saves'[d] = <<>>
    <3>1. owner[d] \in Nat /\ owner[d] < nextOwner /\ nextOwner # 0
      BY <1>1 DEF StoreInv, TxnInv
    <3>2. owner'[d] < nextOwner'
      BY <1>0, <1>1, <2>1, <3>1
    <3> QED BY <1>0, <2>1, <2>2, <3>1, <3>2 DEF StoreInv, TxnInv
  <2>5. ASSUME NEW d \in Conns, NEW e \in Conns, owner'[d] = owner'[e], owner'[d] # 0
        PROVE  d = e
    <3>1. owner[d] \in Nat /\ owner[d] < nextOwner /\ owner[e] \in Nat /\ owner[e] < nextOwner
      BY DEF StoreInv, TxnInv
    <3>2. owner[d] # nextOwner /\ owner[e] # nextOwner
      BY <1>1, <3>1
    <3> QED BY <2>1, <2>5, <3>2 DEF StoreInv, TxnInv
  <2> QED BY <2>3, <2>4, <2>5 DEF TxnInv
<1>3. QueueInv'
  <2>1. \A d \in Conns : pc[d] = "queued" => pc'[d] = "queued"
    BY <1>0 DEF StoreInv, TxnInv
  <2> QED BY <1>0, <2>1, QueueSame DEF StoreInv
<1>4. LsnInv'
  BY <1>0, <1>1, LsnBegin DEF StoreInv, TxnInv
<1>5. PendInv'
  <2>1. \A d \in Conns : Writing(d)' <=> Writing(d)
    BY <1>0 DEF Writing, StoreInv, TxnInv
  <2>2. \A d \in Conns : Writing(d) => owner'[d] = owner[d]
    BY <1>0 DEF Writing, StoreInv, TxnInv
  <2> QED BY <1>0, <2>1, <2>2, SamePending
<1>6. SaveInv'
  BY <1>0 DEF StoreInv, SaveInv
<1>7. RowsInv' /\ LogInv' /\ WalInv' /\ TailInv'
  BY <1>0, SameStore, SameTail
<1> QED BY <1>2, <1>3, <1>4, <1>5, <1>6, <1>7 DEF StoreInv

\* Taking the write lane changes nothing the store or the ops say.
LEMMA EnsureWriterInv == ASSUME StoreInv, NEW c \in Conns, EnsureWriter(c) PROVE StoreInv'
<1>0. /\ pc[c] = "open" /\ pc' = [pc EXCEPT ![c] = "writing"]
      /\ UNCHANGED <<rows, nextVid, committed, snap, owner, ops, saves, nextOwner, queue, flush, wal>>
  BY DEF EnsureWriter, Goto, storeVars, pipeVars
<1>2. TxnInv'
  BY <1>0 DEF StoreInv, TxnInv
<1>3. QueueInv'
  <2>1. \A d \in Conns : pc[d] = "queued" => pc'[d] = "queued"
    BY <1>0 DEF StoreInv, TxnInv
  <2> QED BY <1>0, <2>1, QueueSame DEF StoreInv
<1>4. LsnInv'
  <2>1. Unqueued' = Unqueued
    BY <1>0 DEF Unqueued, StoreInv, TxnInv
  <2> QED BY <1>0, <2>1 DEF StoreInv, LsnInv
<1>5. PendInv'
  <2>1. ops[c] = <<>>
    BY <1>0 DEF StoreInv, TxnInv
  <2>2. \A d \in Conns : Writing(d)' <=> (Writing(d) \/ d = c)
    BY <1>0 DEF Writing, StoreInv, TxnInv
  <2> QED BY <1>0, <2>1, <2>2, SamePending
<1>6. SaveInv'
  BY <1>0 DEF StoreInv, SaveInv
<1>7. RowsInv' /\ LogInv' /\ WalInv' /\ TailInv'
  BY <1>0, SameStore, SameTail
<1> QED BY <1>2, <1>3, <1>4, <1>5, <1>6, <1>7 DEF StoreInv

\* COMMIT moves the writer to the queue with its ops.
LEMMA CommitInv == ASSUME StoreInv, NEW c \in Conns, Commit(c) PROVE StoreInv'
<1>0. /\ pc[c] = "writing" /\ pc' = [pc EXCEPT ![c] = "queued"] /\ queue' = Append(queue, c)
      /\ UNCHANGED <<rows, nextVid, committed, snap, owner, ops, saves, nextOwner, flush, wal>>
  BY DEF Commit, Goto, storeVars
<1>1. /\ Len(wal) \in Nat /\ nextOwner \in Nat
      /\ queue \in Seq(Conns) /\ Len(queue) \in Nat /\ pc \in [Conns -> {"idle", "open", "writing", "queued"}]
  BY PendingIsAbove DEF StoreInv, TxnInv, QueueInv
<1>2. TxnInv'
  BY <1>0 DEF StoreInv, TxnInv
<1>3. QueueInv'
  BY <1>0, <1>1, QueuePush DEF StoreInv
<1>4. LsnInv'
  BY <1>0, <1>1, LsnPush DEF StoreInv
<1>5. PendInv'
  <2>2. \A d \in Conns : Writing(d)' <=> Writing(d)
    BY <1>0, <1>1 DEF Writing
  <2> QED BY <1>0, <2>2, SamePending
<1>6. SaveInv'
  BY <1>0 DEF StoreInv, SaveInv
<1>7. RowsInv' /\ LogInv' /\ WalInv' /\ TailInv'
  BY <1>0, SameStore, SameTail
<1> QED BY <1>2, <1>3, <1>4, <1>5, <1>6, <1>7 DEF StoreInv

\* SAVEPOINT notes the versions of the ops so far.
LEMMA SavepointInv == ASSUME StoreInv, NEW c \in Conns, Savepoint(c) PROVE StoreInv'
<1> DEFINE all == UNION {rows[t] : t \in Tables}
           me  == owner[c]
           sp  == [ins |-> {v.vid : v \in {w \in all : Mine(w, me) /\ w.create = PENDING}},
                   del |-> {v.vid : v \in {w \in all : Mine(w, me) /\ w.del = PENDING}},
                   len |-> Len(ops[c])]
<1>0. /\ pc[c] \in {"open", "writing"} /\ Len(saves[c]) < MaxSaves
      /\ saves' = [saves EXCEPT ![c] = Append(@, sp)]
      /\ UNCHANGED <<rows, nextVid, committed, pc, snap, owner, ops, nextOwner, queue, flush, wal>>
  BY DEF Savepoint, storeVars, pipeVars
<1>1. ASSUME NEW k \in Kinds
      PROVE  {v.vid : v \in {w \in all : Mine(w, me) /\ Stamp(w, k) = PENDING}}
               = VidsIn(ops[c], Len(ops[c]), k)
  <2> DEFINE A == {v.vid : v \in {w \in all : Mine(w, me) /\ Stamp(w, k) = PENDING}}
             B == VidsIn(ops[c], Len(ops[c]), k)
  <2>1. ASSUME NEW x \in A PROVE x \in B
    <3>0. PICK t \in Tables : \E v \in rows[t] : v.owner = me /\ Stamp(v, k) = PENDING /\ x = v.vid
      BY DEF Mine
    <3>1. PICK v \in rows[t] : v.owner = me /\ Stamp(v, k) = PENDING /\ x = v.vid
      BY <3>0
    <3>2. PICK d \in Conns : Writing(d) /\ owner[d] = v.owner /\ HasOp(ops[d], k, t, v)
      BY <3>1 DEF StoreInv, PendInv, PendOk
    <3>3. d = c
      BY <1>0, <3>1, <3>2 DEF StoreInv, TxnInv
    <3>4. PICK i \in 1..Len(ops[c]) : Logs(ops[c][i], k, t, v)
      BY <3>2, <3>3 DEF HasOp
    <3> QED BY <3>1, <3>4 DEF Logs, VidsIn
  <2>2. ASSUME NEW x \in B PROVE x \in A
    <3>1. PICK i \in 1..Len(ops[c]) : ops[c][i].op = k /\ x = ops[c][i].vid
      BY DEF VidsIn
    <3>2. Writing(c)
      BY <1>0, <3>1 DEF StoreInv, TxnInv, Writing
    <3>3. OpPending(rows, ops[c][i], me)
      BY <3>2 DEF StoreInv, PendInv, PendOk
    <3>4. ops[c][i].tab \in Tables
      <4>1. ops[c] \in Seq(Op)
        BY DEF StoreInv, PendInv, PendOk
      <4>2. ops[c][i] \in Op
        BY <4>1
      <4> QED BY <4>2, OpFields
    <3>5. PICK v \in rows[ops[c][i].tab] : v.vid = x /\ Stamp(v, k) = PENDING /\ v.owner = me
      BY <3>1, <3>3 DEF OpPending, Logs
    <3>6. v \in all
      BY <3>4
    <3> QED BY <3>5, <3>6 DEF Mine
  <2> QED BY <2>1, <2>2
<1>2. /\ sp.ins = VidsIn(ops[c], Len(ops[c]), "insert")
      /\ sp.del = VidsIn(ops[c], Len(ops[c]), "delete") /\ sp.len = Len(ops[c])
  <2>1. "insert" \in Kinds /\ "delete" \in Kinds
    BY DEF Kinds
  <2>2. /\ {v.vid : v \in {w \in all : Mine(w, me) /\ Stamp(w, "insert") = PENDING}}
             = VidsIn(ops[c], Len(ops[c]), "insert")
        /\ {v.vid : v \in {w \in all : Mine(w, me) /\ Stamp(w, "delete") = PENDING}}
             = VidsIn(ops[c], Len(ops[c]), "delete")
    BY <1>1, <2>1
  <2> HIDE DEF all, me
  <2>3. \A w : Stamp(w, "insert") = w.create /\ Stamp(w, "delete") = w.del
    BY DEF Stamp
  <2> QED BY <2>2, <2>3
<1>3. ops[c] \in Seq(Op) /\ Len(ops[c]) \in Nat
  BY DEF StoreInv, PendInv, PendOk
<1>4. sp \in Save
  <2>1. ASSUME NEW k \in Kinds PROVE VidsIn(ops[c], Len(ops[c]), k) \subseteq Nat
    <3>1. ASSUME NEW i \in 1..Len(ops[c]) PROVE ops[c][i].vid \in Nat
      <4>1. ops[c][i] \in Op
        BY <1>3
      <4> QED BY <4>1, OpFields
    <3> QED BY <3>1 DEF VidsIn
  <2> QED BY <1>2, <1>3, <2>1 DEF Save, Kinds
<1> HIDE DEF sp
<1>5. SaveInv'
  <2>0. saves \in [Conns -> Seq(Save)] /\ MaxSaves \in Nat /\ saves[c] \in Seq(Save)
    BY StoreAssumption DEF StoreInv, SaveInv, SaveOk
  <2>1. /\ saves'[c] = Append(saves[c], sp) /\ Len(saves'[c]) = Len(saves[c]) + 1
        /\ saves'[c][Len(saves[c]) + 1] = sp
        /\ \A a \in 1..Len(saves[c]) : saves'[c][a] = saves[c][a]
        /\ Len(saves[c]) \in Nat
    BY <1>0, <1>4, <2>0
  <2>2. saves' \in [Conns -> Seq(Save)] /\ \A d \in Conns : d # c => saves'[d] = saves[d]
    BY <1>0, <1>4, <2>0
  <2>3. ASSUME NEW a \in 1..Len(saves'[c])
        PROVE  (a \in 1..Len(saves[c]) /\ saves'[c][a] = saves[c][a])
               \/ (a = Len(saves[c]) + 1 /\ saves'[c][a] = sp)
    BY <2>1
  <2>4. ASSUME NEW a \in 1..Len(saves'[c])
        PROVE  /\ saves'[c][a].len <= Len(ops[c])
               /\ saves'[c][a].ins = VidsIn(ops[c], saves'[c][a].len, "insert")
               /\ saves'[c][a].del = VidsIn(ops[c], saves'[c][a].len, "delete")
    <3>1. CASE a \in 1..Len(saves[c]) /\ saves'[c][a] = saves[c][a]
      BY <3>1 DEF StoreInv, SaveInv, SaveOk
    <3>2. CASE saves'[c][a] = sp
      BY <3>2, <1>2, <1>3
    <3> QED BY <2>3, <3>1, <3>2
  <2>5. ASSUME NEW a \in 1..Len(saves'[c]), NEW b \in 1..Len(saves'[c]), a <= b
        PROVE  saves'[c][a].len <= saves'[c][b].len
    <3>1. CASE b \in 1..Len(saves[c]) /\ saves'[c][b] = saves[c][b]
      <4>1. a \in 1..Len(saves[c]) /\ saves'[c][a] = saves[c][a]
        BY <2>1, <2>5, <3>1
      <4> QED BY <2>5, <3>1, <4>1 DEF StoreInv, SaveInv, SaveOk
    <3>2. CASE saves'[c][b] = sp
      BY <2>4, <3>2, <1>2
    <3> QED BY <2>3, <3>1, <3>2
  <2>6. Len(saves'[c]) <= MaxSaves
    BY <1>0, <2>0, <2>1
  <2>7. ASSUME NEW d \in Conns
        PROVE  Len(saves'[d]) <= MaxSaves /\ \A a \in 1..Len(saves'[d]) :
                 /\ saves'[d][a].len <= Len(ops[d])
                 /\ saves'[d][a].ins = VidsIn(ops[d], saves'[d][a].len, "insert")
                 /\ saves'[d][a].del = VidsIn(ops[d], saves'[d][a].len, "delete")
                 /\ \A b \in 1..Len(saves'[d]) : a <= b => saves'[d][a].len <= saves'[d][b].len
    <3>1. CASE d = c
      BY <2>4, <2>5, <2>6, <3>1
    <3>2. CASE d # c
      BY <2>2, <3>2 DEF StoreInv, SaveInv, SaveOk
    <3> QED BY <3>1, <3>2
  <2> QED BY <1>0, <2>2, <2>7 DEF SaveInv, SaveOk
<1>6. TxnInv'
  BY <1>0 DEF StoreInv, TxnInv, SaveInv, SaveOk
<1>7. LsnInv'
  BY <1>0 DEF StoreInv, LsnInv, Unqueued
<1>8. PendInv' /\ QueueInv' /\ RowsInv' /\ LogInv' /\ WalInv' /\ TailInv'
  BY <1>0, SamePending, QueueSame, SameStore, SameTail DEF StoreInv, Writing
<1> QED BY <1>5, <1>6, <1>7, <1>8 DEF StoreInv

\* RELEASE forgets savepoints.
LEMMA ReleaseInv == ASSUME StoreInv, NEW c \in Conns, ReleaseSavepoint(c) PROVE StoreInv'
<1>0. /\ pc[c] \in {"open", "writing"}
      /\ UNCHANGED <<rows, nextVid, committed, pc, snap, owner, ops, nextOwner, queue, flush, wal>>
  BY DEF ReleaseSavepoint, storeVars, pipeVars
<1>1. PICK at \in 1..Len(saves[c]) : saves' = [saves EXCEPT ![c] = SubSeq(@, 1, at - 1)]
  BY DEF ReleaseSavepoint
<1>2. saves \in [Conns -> Seq(Save)] /\ MaxSaves \in Nat /\ saves[c] \in Seq(Save)
  BY StoreAssumption DEF StoreInv, SaveInv, SaveOk
<1>3. /\ saves'[c] = SubSeq(saves[c], 1, at - 1) /\ saves' \in [Conns -> Seq(Save)]
      /\ \A d \in Conns : d # c => saves'[d] = saves[d]
  BY <1>1, <1>2
<1>4. /\ Len(saves[c]) \in Nat /\ Len(saves'[c]) = at - 1 /\ Len(saves'[c]) <= Len(saves[c])
      /\ \A a \in 1..Len(saves'[c]) : a \in 1..Len(saves[c]) /\ saves'[c][a] = saves[c][a]
  BY <1>2, <1>3
<1>5. SaveInv'
  <2>1. Len(saves[c]) <= MaxSaves
    BY DEF StoreInv, SaveInv, SaveOk
  <2>2. Len(saves'[c]) <= MaxSaves
    BY <1>2, <1>4, <2>1
  <2>3. ASSUME NEW d \in Conns
        PROVE  Len(saves'[d]) <= MaxSaves /\ \A a \in 1..Len(saves'[d]) :
                 /\ saves'[d][a].len <= Len(ops[d])
                 /\ saves'[d][a].ins = VidsIn(ops[d], saves'[d][a].len, "insert")
                 /\ saves'[d][a].del = VidsIn(ops[d], saves'[d][a].len, "delete")
                 /\ \A b \in 1..Len(saves'[d]) : a <= b => saves'[d][a].len <= saves'[d][b].len
    <3>1. ASSUME NEW a \in 1..Len(saves[d])
          PROVE  /\ saves[d][a].len <= Len(ops[d])
                 /\ saves[d][a].ins = VidsIn(ops[d], saves[d][a].len, "insert")
                 /\ saves[d][a].del = VidsIn(ops[d], saves[d][a].len, "delete")
                 /\ \A b \in 1..Len(saves[d]) : a <= b => saves[d][a].len <= saves[d][b].len
      BY DEF StoreInv, SaveInv, SaveOk
    <3>2. CASE d = c
      BY ZenonT(30), <1>4, <2>2, <3>1, <3>2
    <3>3. CASE d # c
      <4>1. saves'[d] = saves[d] /\ Len(saves[d]) <= MaxSaves
        BY <1>3, <3>3 DEF StoreInv, SaveInv, SaveOk
      <4> QED BY <3>1, <4>1
    <3> QED BY <3>2, <3>3
  <2> QED BY <1>0, <1>3, <2>3 DEF SaveInv, SaveOk
<1>6. TxnInv'
  BY <1>0, <1>3 DEF StoreInv, TxnInv
<1>7. LsnInv'
  BY <1>0 DEF StoreInv, LsnInv, Unqueued
<1>8. PendInv' /\ QueueInv' /\ RowsInv' /\ LogInv' /\ WalInv' /\ TailInv'
  BY <1>0, SamePending, QueueSame, SameStore, SameTail DEF StoreInv, Writing
<1> QED BY <1>5, <1>6, <1>7, <1>8 DEF StoreInv

\* The transactions of C end.
LEMMA EndedTxns ==
    ASSUME StoreInv, NEW C \in SUBSET Conns, EndTxns(C), nextOwner' = nextOwner
    PROVE  /\ TxnInv' /\ SaveInv' /\ Unqueued' \subseteq Unqueued
           /\ ops' \in [Conns -> Seq(Op)]
           /\ \A c \in Conns : /\ c \in C => pc'[c] = "idle" /\ owner'[c] = 0 /\ ops'[c] = <<>>
                               /\ c \notin C => /\ pc'[c] = pc[c] /\ owner'[c] = owner[c]
                                                /\ ops'[c] = ops[c]
<1> USE DEF EndTxns
<1>1. \A c \in Conns :
        /\ c \in C => /\ pc'[c] = "idle" /\ owner'[c] = 0 /\ ops'[c] = <<>>
                      /\ saves'[c] = <<>> /\ snap'[c] = 0
        /\ c \notin C => /\ pc'[c] = pc[c] /\ owner'[c] = owner[c]
                         /\ ops'[c] = ops[c] /\ saves'[c] = saves[c] /\ snap'[c] = snap[c]
  OBVIOUS
<1>2. ops \in [Conns -> Seq(Op)] /\ saves \in [Conns -> Seq(Save)] /\ MaxSaves \in Nat
  BY StoreAssumption DEF StoreInv, PendInv, PendOk, SaveInv, SaveOk
<1>3. ops' \in [Conns -> Seq(Op)] /\ saves' \in [Conns -> Seq(Save)]
  BY <1>2
<1>4. TxnInv'
  <2>1. /\ pc' \in [Conns -> {"idle", "open", "writing", "queued"}]
        /\ snap' \in [Conns -> Nat] /\ owner' \in [Conns -> Nat] /\ nextOwner' \in Nat
    BY DEF StoreInv, TxnInv
  <2>2. ASSUME NEW c \in Conns
        PROVE  /\ owner'[c] < nextOwner' /\ (pc'[c] = "idle" <=> owner'[c] = 0)
               /\ pc'[c] \in {"idle", "open"} => ops'[c] = <<>>
               /\ pc'[c] = "idle" => saves'[c] = <<>>
    <3>1. owner[c] \in Nat /\ owner[c] < nextOwner /\ nextOwner \in Nat
      BY DEF StoreInv, TxnInv
    <3> QED BY <1>1, <3>1 DEF StoreInv, TxnInv
  <2>3. ASSUME NEW c \in Conns, NEW d \in Conns, owner'[c] = owner'[d], owner'[c] # 0
        PROVE  c = d
    <3>1. c \notin C /\ d \notin C
      BY <1>1, <2>3
    <3> QED BY <1>1, <2>3, <3>1 DEF StoreInv, TxnInv
  <2> QED BY <2>1, <2>2, <2>3 DEF TxnInv
<1>5. SaveInv'
  <2>1. ASSUME NEW d \in Conns
        PROVE  Len(saves'[d]) <= MaxSaves /\ \A a \in 1..Len(saves'[d]) :
                 /\ saves'[d][a].len <= Len(ops'[d])
                 /\ saves'[d][a].ins = VidsIn(ops'[d], saves'[d][a].len, "insert")
                 /\ saves'[d][a].del = VidsIn(ops'[d], saves'[d][a].len, "delete")
                 /\ \A b \in 1..Len(saves'[d]) : a <= b => saves'[d][a].len <= saves'[d][b].len
    <3>1. CASE d \in C
      <4>1. saves'[d] = <<>>
        BY <1>1, <3>1
      <4> QED BY <4>1, <1>2
    <3>2. CASE d \notin C
      <4>1. saves'[d] = saves[d] /\ ops'[d] = ops[d]
        BY <1>1, <3>2
      <4> QED BY <4>1 DEF StoreInv, SaveInv, SaveOk
    <3> QED BY <3>1, <3>2
  <2> QED BY <1>3, <2>1 DEF SaveInv, SaveOk
<1>6. Unqueued' \subseteq Unqueued
  BY <1>1 DEF Unqueued
<1> QED BY <1>1, <1>3, <1>4, <1>5, <1>6

\* LSNs when transactions end and no commit is new.
LEMMA EndedLsns ==
    ASSUME StoreInv, Unqueued' \subseteq Unqueued, nextOwner' = nextOwner,
           UNCHANGED <<queue, wal>>
    PROVE  LsnInv'
<1>1. /\ Len(wal) \in Nat /\ nextOwner \in Nat /\ Len(queue) \in Nat
  <2>1. nextOwner \in Nat /\ Len(queue) \in Nat
    BY DEF StoreInv, TxnInv, QueueInv
  <2> QED BY PendingIsAbove, <2>1
<1> QED BY <1>1, LsnFewer DEF StoreInv

\* A commit with nothing to log.
LEMMA CommitEmptyInv == ASSUME StoreInv, NEW c \in Conns, CommitEmpty(c) PROVE StoreInv'
<1>0. /\ pc[c] \in {"open", "writing"} /\ ops[c] = <<>> /\ EndTxns({c})
      /\ UNCHANGED <<rows, nextVid, committed, nextOwner, queue, flush, wal>>
  BY DEF CommitEmpty, storeVars, pipeVars
<1>1. /\ TxnInv' /\ SaveInv' /\ Unqueued' \subseteq Unqueued /\ ops' \in [Conns -> Seq(Op)]
      /\ pc'[c] = "idle" /\ owner'[c] = 0 /\ ops'[c] = <<>>
      /\ \A d \in Conns : d # c => pc'[d] = pc[d] /\ owner'[d] = owner[d] /\ ops'[d] = ops[d]
  <2>1. {c} \in SUBSET Conns
    OBVIOUS
  <2> QED BY <1>0, <2>1, EndedTxns
<1>2. QueueInv'
  BY <1>0, <1>1, QueueSame DEF StoreInv
<1>3. LsnInv'
  BY <1>0, <1>1, EndedLsns
<1>4. PendInv'
  <2>1. PendOk(rows, ops)
    BY DEF StoreInv, PendInv
  <2>2. ASSUME NEW d \in Conns, Writing(d)', NEW i \in 1..Len(ops'[d])
        PROVE  OpPending(rows, ops'[d][i], owner'[d])
    <3>1. d # c
      BY <1>1, <2>2 DEF Writing
    <3>2. Writing(d) /\ ops'[d] = ops[d] /\ owner'[d] = owner[d]
      BY <1>1, <2>2, <3>1 DEF Writing
    <3> QED BY <2>1, <3>2 DEF PendOk
  <2>3. ASSUME NEW t \in Tables, NEW v \in rows[t], NEW k \in Kinds, Stamp(v, k) = PENDING
        PROVE  \E d \in Conns : Writing(d)' /\ owner'[d] = v.owner /\ HasOp(ops'[d], k, t, v)
    <3>1. PICK d \in Conns : Writing(d) /\ owner[d] = v.owner /\ HasOp(ops[d], k, t, v)
      BY <2>1, <2>3 DEF PendOk
    <3>2. d # c
      BY <1>0, <3>1 DEF HasOp
    <3>3. Writing(d)' /\ owner'[d] = owner[d] /\ ops'[d] = ops[d]
      BY <1>1, <3>1, <3>2 DEF Writing
    <3> QED BY <3>1, <3>3
  <2>4. ASSUME NEW d \in Conns PROVE InOrder(ops'[d])
    <3>1. CASE d = c
      BY <1>1, <3>1 DEF InOrder
    <3>2. CASE d # c
      BY <1>1, <2>1, <3>2 DEF PendOk
    <3> QED BY <3>1, <3>2
  <2> QED BY <1>0, <1>1, <2>2, <2>3, <2>4 DEF PendInv, PendOk
<1>5. TailInv'
  BY <1>0, <1>1, SameTail
<1>6. RowsInv' /\ LogInv' /\ WalInv'
  BY <1>0, SameStore
<1> QED BY <1>1, <1>2, <1>3, <1>4, <1>5, <1>6 DEF StoreInv

-----------------------------------------------------------------------------
(* Statements: each adds deletes and inserts, one after the other.          *)

StoreOk(rw, nv, op) ==
    /\ RowsOk(rw, nv, committed)
    /\ PendOk(rw, op)
    /\ LogOk(rw, wal, committed)

\* One element more.
LEMMA AppendIsConcat ==
    ASSUME NEW S, NEW s \in Seq(S), NEW o \in S
    PROVE  s \o <<o>> = Append(s, o) /\ <<o>> \in Seq(S)
<1>1. /\ Len(s \o <<o>>) = Len(s) + 1 /\ Len(Append(s, o)) = Len(s) + 1 /\ Len(s) \in Nat
      /\ s \o <<o>> \in Seq(S) /\ Append(s, o) \in Seq(S) /\ <<o>> \in Seq(S)
  OBVIOUS
<1>2. \A i \in 1..Len(s) + 1 : (s \o <<o>>)[i] = Append(s, o)[i]
  OBVIOUS
<1> QED BY <1>1, <1>2

\* An appended op.
LEMMA AppendedOp ==
    ASSUME NEW s \in Seq(Op), NEW o \in Op, NEW k, NEW t, NEW v
    PROVE  /\ HasOp(s, k, t, v) => HasOp(Append(s, o), k, t, v)
           /\ Logs(o, k, t, v) => HasOp(Append(s, o), k, t, v)
<1>1. /\ Len(s) \in Nat /\ Len(Append(s, o)) = Len(s) + 1 /\ Append(s, o)[Len(s) + 1] = o
      /\ \A i \in 1..Len(s) : i \in 1..Len(s) + 1 /\ Append(s, o)[i] = s[i]
      /\ Len(s) + 1 \in 1..Len(s) + 1
  OBVIOUS
<1> QED BY <1>1 DEF HasOp

\* Ops stay in order when the one appended is new.
LEMMA AppendedInOrder ==
    ASSUME NEW s \in Seq(Op), NEW o \in Op, InOrder(s),
           \A i \in 1..Len(s) : ~(/\ s[i].tab = o.tab /\ s[i].vid = o.vid
                                  /\ s[i].op = o.op \/ o.op = "insert")
    PROVE  InOrder(Append(s, o))
<1> DEFINE r == Append(s, o)
<1>1. /\ Len(s) \in Nat /\ Len(r) = Len(s) + 1 /\ r[Len(s) + 1] = o
      /\ \A i \in 1..Len(s) : r[i] = s[i]
  OBVIOUS
<1>2. \A i \in 1..Len(r) : (i \in 1..Len(s) /\ r[i] = s[i]) \/ (i = Len(s) + 1 /\ r[i] = o)
  BY <1>1
<1> HIDE DEF r
<1>3. ASSUME NEW i \in 1..Len(r), NEW j \in 1..Len(r), Same(r[i], r[j]) PROVE i = j
  <2>1. CASE i \in 1..Len(s) /\ r[i] = s[i] /\ j \in 1..Len(s) /\ r[j] = s[j]
    BY <1>3, <2>1 DEF InOrder
  <2>2. CASE i \in 1..Len(s) /\ r[i] = s[i] /\ j = Len(s) + 1 /\ r[j] = o
    BY <1>3, <2>2 DEF Same
  <2>3. CASE j \in 1..Len(s) /\ r[j] = s[j] /\ i = Len(s) + 1 /\ r[i] = o
    BY <1>3, <2>3 DEF Same
  <2>4. CASE i = Len(s) + 1 /\ j = Len(s) + 1
    BY <2>4
  <2> QED BY <1>2, <2>1, <2>2, <2>3, <2>4
<1>4. ASSUME NEW i \in 1..Len(r), NEW j \in 1..Len(r),
             r[i].op = "delete", r[j].op = "insert", r[i].tab = r[j].tab, r[i].vid = r[j].vid
      PROVE  j < i
  <2>1. CASE i \in 1..Len(s) /\ r[i] = s[i] /\ j \in 1..Len(s) /\ r[j] = s[j]
    BY <1>4, <2>1 DEF InOrder
  <2>2. CASE j = Len(s) + 1 /\ r[j] = o /\ i \in 1..Len(s) /\ r[i] = s[i]
    BY <1>4, <2>2
  <2>3. CASE i = Len(s) + 1 /\ j \in 1..Len(s)
    BY <1>1, <2>3
  <2>4. CASE i = Len(s) + 1 /\ j = Len(s) + 1
    BY <1>4, <2>4
  <2> QED BY <1>2, <2>1, <2>2, <2>3, <2>4
<1> QED BY <1>3, <1>4 DEF InOrder, r

\* The version that an op of a writer is about.
LEMMA OpVersion ==
    ASSUME NEW rw, NEW op, PendOk(rw, op), NEW c \in Conns, Writing(c), NEW i \in 1..Len(op[c])
    PROVE  /\ op[c][i] \in Op /\ op[c][i].tab \in Tables /\ op[c][i].op \in Kinds
           /\ \E v \in rw[op[c][i].tab] : /\ Logs(op[c][i], op[c][i].op, op[c][i].tab, v)
                                          /\ Stamp(v, op[c][i].op) = PENDING /\ v.owner = owner[c]
<1>1. op[c] \in Seq(Op)
  BY DEF PendOk
<1>2. op[c][i] \in Op
  BY <1>1
<1>3. OpPending(rw, op[c][i], owner[c])
  BY DEF PendOk
<1> QED BY <1>2, <1>3, OpFields DEF OpPending

\* A new version and the op that inserts it.
LEMMA AddInsert ==
    ASSUME TxnInv, PENDING \in Nat, committed \in Nat, committed < PENDING, PENDING # 0,
           NEW rw, NEW nv, NEW op, StoreOk(rw, nv, op),
           NEW c \in Conns, Writing(c), NEW t \in Tables, NEW k \in Keys, NEW x \in Vals,
           NEW rw2, NEW nv2, NEW op2,
           NEW v, v = [vid |-> nv[t], key |-> k, val |-> x, create |-> PENDING, del |-> 0,
                       owner |-> owner[c]],
           NEW o, o = [op |-> "insert", tab |-> t, vid |-> nv[t], key |-> k, val |-> x],
           rw2 = [rw EXCEPT ![t] = rw[t] \cup {v}], nv2 = [nv EXCEPT ![t] = @ + 1],
           op2 = [op EXCEPT ![c] = Append(op[c], o)]
    PROVE  StoreOk(rw2, nv2, op2)
<1> HIDE DEF PENDING
<1>0. /\ RowsOk(rw, nv, committed) /\ PendOk(rw, op) /\ LogOk(rw, wal, committed)
  BY DEF StoreOk
<1>1. /\ rw \in [Tables -> SUBSET Version] /\ nv \in [Tables -> Nat \ {0}]
      /\ op \in [Conns -> Seq(Op)] /\ owner \in [Conns -> Nat]
  BY <1>0 DEF RowsOk, PendOk, TxnInv
<1>2. /\ v.vid = nv[t] /\ v.key = k /\ v.val = x /\ v.create = PENDING /\ v.del = 0
      /\ v.owner = owner[c] /\ v \in Version
  <2>1. 0 \in 0..PENDING /\ PENDING \in 0..PENDING /\ nv[t] \in Nat /\ owner[c] \in Nat
    BY <1>1
  <2> QED BY <2>1 DEF Version
<1>3. o \in Op /\ Logs(o, "insert", t, v) /\ o.op = "insert" /\ o.tab = t /\ o.vid = nv[t]
  <2>1. nv[t] \in Nat
    BY <1>1
  <2> QED BY <1>2, <2>1 DEF Op, Logs
<1>4. /\ rw2 \in [Tables -> SUBSET Version] /\ rw2[t] = rw[t] \cup {v}
      /\ \A u \in Tables : u # t => rw2[u] = rw[u]
      /\ \A u \in Tables : rw[u] \subseteq rw2[u]
      /\ \A u \in Tables : \A w \in rw2[u] : w \in rw[u] \/ (u = t /\ w = v)
  BY <1>1, <1>2
<1>5. /\ nv2 \in [Tables -> Nat \ {0}] /\ nv2[t] = nv[t] + 1
      /\ \A u \in Tables : u # t => nv2[u] = nv[u]
  BY <1>1
<1>6. /\ op2 \in [Conns -> Seq(Op)] /\ op2[c] = Append(op[c], o)
      /\ \A d \in Conns : d # c => op2[d] = op[d]
  BY <1>1, <1>3
<1> HIDE DEF StoreOk
<1>7. RowsOk(rw2, nv2, committed)
  <2>1. ASSUME NEW u \in Tables, NEW w \in rw2[u]
        PROVE  /\ w.vid < nv2[u]
               /\ w.create \in (1..committed) \cup {PENDING} /\ w.del \in (0..committed) \cup {PENDING}
               /\ w.create # PENDING /\ w.del # PENDING => w.owner = 0
               /\ w.create = PENDING => w.del \in {0, PENDING}
    <3>1. nv[u] \in Nat /\ nv[t] \in Nat
      BY <1>1
    <3>2. CASE w \in rw[u]
      <4>1. w.vid < nv[u] /\ w.vid \in Nat
        <5>1. w \in Version
          BY <1>1, <3>2
        <5> QED BY <1>0, <3>2, <5>1, VersionFields DEF RowsOk
      <4>2. w.vid < nv2[u]
        BY <1>5, <3>1, <4>1
      <4> QED BY <1>0, <3>2, <4>2 DEF RowsOk
    <3>3. CASE u = t /\ w = v
      <4>1. v.vid < nv2[t]
        BY <1>2, <1>5, <3>1
      <4>2. v.del \in 0..committed
        BY <1>2
      <4> QED BY <1>2, <3>3, <4>1, <4>2
    <3> QED BY <1>4, <3>2, <3>3
  <2>2. ASSUME NEW u \in Tables, NEW w \in rw2[u], NEW z \in rw2[u], w.vid = z.vid
        PROVE  w = z
    <3>1. \A y \in rw[t] : y.vid # v.vid
      <4> TAKE y \in rw[t]
      <4>1. y.vid < nv[t] /\ y \in Version /\ nv[t] \in Nat
        BY <1>0, <1>1 DEF RowsOk
      <4>2. y.vid \in Nat
        BY <4>1, VersionFields
      <4> QED BY <1>2, <4>1, <4>2
    <3>2. CASE w \in rw[u] /\ z \in rw[u]
      BY <1>0, <2>2, <3>2 DEF RowsOk
    <3> QED BY <1>4, <2>2, <3>1, <3>2
  <2> QED BY <1>4, <1>5, <2>1, <2>2 DEF RowsOk
<1>8. \A d \in Conns, y \in Tables : \A z, q : HasOp(op[d], q, y, z) => HasOp(op2[d], q, y, z)
  BY <1>1, <1>3, <1>6, AppendedOp
<1>9. PendOk(rw2, op2)
  <2>1. ASSUME NEW d \in Conns, Writing(d), NEW i \in 1..Len(op2[d])
        PROVE  OpPending(rw2, op2[d][i], owner[d])
    <3>1. CASE i \in 1..Len(op[d]) /\ op2[d][i] = op[d][i]
      <4>1. /\ op[d][i].tab \in Tables
            /\ \E w \in rw[op[d][i].tab] : /\ Logs(op[d][i], op[d][i].op, op[d][i].tab, w)
                                           /\ Stamp(w, op[d][i].op) = PENDING /\ w.owner = owner[d]
        BY <1>0, <2>1, <3>1, OpVersion
      <4> QED BY <1>4, <3>1, <4>1 DEF OpPending
    <3>2. CASE d = c /\ op2[d][i] = o
      <4>1. v \in rw2[t] /\ Stamp(v, "insert") = PENDING
        BY <1>2, <1>4 DEF Stamp
      <4> QED BY <1>2, <1>3, <3>2, <4>1 DEF OpPending
    <3>3. op[d] \in Seq(Op)
      BY <1>1
    <3>4. CASE d = c
      BY <1>3, <1>6, <3>1, <3>2, <3>3, <3>4
    <3>5. CASE d # c
      BY <1>6, <3>1, <3>5
    <3> QED BY <3>4, <3>5
  <2>2. ASSUME NEW u \in Tables, NEW w \in rw2[u], NEW q \in Kinds, Stamp(w, q) = PENDING
        PROVE  \E d \in Conns : Writing(d) /\ owner[d] = w.owner /\ HasOp(op2[d], q, u, w)
    <3>1. CASE w \in rw[u]
      <4>1. PICK d \in Conns : Writing(d) /\ owner[d] = w.owner /\ HasOp(op[d], q, u, w)
        BY <1>0, <2>2, <3>1 DEF PendOk
      <4> QED BY <1>8, <4>1
    <3>2. CASE u = t /\ w = v
      <4>1. q = "insert"
        BY <1>2, <2>2, <3>2 DEF Kinds, Stamp
      <4>2. HasOp(op2[c], q, u, w)
        BY <1>1, <1>3, <1>6, <3>2, <4>1, AppendedOp
      <4> QED BY <1>2, <3>2, <4>2
    <3> QED BY <1>4, <3>1, <3>2
  <2>3. ASSUME NEW d \in Conns PROVE InOrder(op2[d])
    <3>1. CASE d # c
      BY <1>0, <1>6, <3>1 DEF PendOk
    <3>2. CASE d = c
      <4>1. ASSUME NEW i \in 1..Len(op[c]) PROVE ~(op[c][i].tab = o.tab /\ op[c][i].vid = o.vid)
        <5>1. \E w \in rw[op[c][i].tab] : Logs(op[c][i], op[c][i].op, op[c][i].tab, w)
          BY <1>0, OpVersion
        <5>2. \A y \in rw[t] : y.vid # nv[t]
          <6> TAKE y \in rw[t]
          <6>1. y.vid < nv[t] /\ y \in Version /\ nv[t] \in Nat
            BY <1>0, <1>1 DEF RowsOk
          <6>2. y.vid \in Nat
            BY <6>1, VersionFields
          <6> QED BY <6>1, <6>2
        <5> QED BY <1>3, <5>1, <5>2 DEF Logs
      <4>2. op[c] \in Seq(Op) /\ InOrder(op[c])
        BY <1>0, <1>1 DEF PendOk
      <4> QED BY <1>3, <1>6, <3>2, <4>1, <4>2, AppendedInOrder
    <3> QED BY <3>1, <3>2
  <2> QED BY <1>6, <2>1, <2>2, <2>3 DEF PendOk
<1>10. LogOk(rw2, wal, committed)
  <2>1. ASSUME NEW u \in Tables, NEW w \in rw2[u], NEW q \in Kinds, Stamp(w, q) \in 1..committed
        PROVE  HasOp(wal[Stamp(w, q)], q, u, w)
    <3>1. w # v
      BY <1>2, <2>1 DEF Stamp
    <3> QED BY <1>0, <1>4, <2>1, <3>1 DEF LogOk
  <2>2. ASSUME NEW i \in 1..committed, NEW m \in 1..Len(wal[i])
        PROVE  \E w \in rw2[wal[i][m].tab] :
                  Logs(wal[i][m], wal[i][m].op, wal[i][m].tab, w) /\ Stamp(w, wal[i][m].op) = i
    <3>1. wal \in Seq(Seq(Op)) /\ i \in 1..Len(wal)
      BY <1>0 DEF LogOk
    <3>2. wal[i][m].tab \in Tables
      <4>1. wal[i] \in Seq(Op)
        BY <3>1
      <4>2. wal[i][m] \in Op
        BY <4>1
      <4> QED BY <4>2, OpFields
    <3> QED BY <1>0, <1>4, <3>2 DEF LogOk
  <2> QED BY <1>0, <2>1, <2>2 DEF LogOk
<1> QED BY <1>7, <1>9, <1>10 DEF StoreOk

\* A live version superseded and the op that deletes it.
LEMMA AddDelete ==
    ASSUME TxnInv, PENDING \in Nat, committed \in Nat, committed < PENDING, PENDING # 0,
           NEW rw, NEW nv, NEW op, StoreOk(rw, nv, op),
           NEW c \in Conns, Writing(c), NEW t \in Tables,
           NEW old \in rw[t], old.del = 0, old.create = PENDING => old.owner = owner[c],
           NEW rw2, NEW op2,
           NEW v, v = [old EXCEPT !.del = PENDING, !.owner = owner[c]],
           NEW o, o = [op |-> "delete", tab |-> t, vid |-> old.vid, key |-> old.key, val |-> old.val],
           rw2 = [rw EXCEPT ![t] = (rw[t] \ {old}) \cup {v}],
           op2 = [op EXCEPT ![c] = Append(op[c], o)]
    PROVE  StoreOk(rw2, nv, op2)
<1> HIDE DEF PENDING
<1>0. /\ RowsOk(rw, nv, committed) /\ PendOk(rw, op) /\ LogOk(rw, wal, committed)
  BY DEF StoreOk
<1>1. /\ rw \in [Tables -> SUBSET Version] /\ nv \in [Tables -> Nat \ {0}]
      /\ op \in [Conns -> Seq(Op)] /\ owner \in [Conns -> Nat] /\ old \in Version
  <2>1. /\ rw \in [Tables -> SUBSET Version] /\ nv \in [Tables -> Nat \ {0}]
        /\ op \in [Conns -> Seq(Op)] /\ owner \in [Conns -> Nat]
    BY <1>0 DEF RowsOk, PendOk, TxnInv
  <2> QED BY <2>1
<1>2. /\ v.vid = old.vid /\ v.key = old.key /\ v.val = old.val /\ v.create = old.create
      /\ v.del = PENDING /\ v.owner = owner[c] /\ v \in Version
  <2>1. PENDING \in 0..PENDING /\ owner[c] \in Nat
    BY <1>1
  <2> QED BY <1>1, <2>1 DEF Version
<1>3. o \in Op /\ Logs(o, "delete", t, v) /\ o.op = "delete" /\ o.tab = t /\ o.vid = old.vid
  <2>1. old.vid \in Nat /\ old.key \in Keys /\ old.val \in Vals
    BY <1>1, VersionFields
  <2> QED BY <1>2, <2>1 DEF Op, Logs
<1>4. /\ rw2 \in [Tables -> SUBSET Version] /\ rw2[t] = (rw[t] \ {old}) \cup {v}
      /\ \A u \in Tables : u # t => rw2[u] = rw[u]
      /\ \A u \in Tables : \A w \in rw2[u] : (w \in rw[u] /\ (u = t => w # old)) \/ (u = t /\ w = v)
      /\ \A u \in Tables : \A w \in rw[u] : w \in rw2[u] \/ (u = t /\ w = old)
      /\ v \in rw2[t]
  BY <1>1, <1>2
<1>5. /\ op2 \in [Conns -> Seq(Op)] /\ op2[c] = Append(op[c], o)
      /\ \A d \in Conns : d # c => op2[d] = op[d]
  BY <1>1, <1>3
<1>6. \A q, u : (\A z : Logs(z, q, u, v) <=> Logs(z, q, u, old))
      /\ (\A s : HasOp(s, q, u, v) <=> HasOp(s, q, u, old))
  BY <1>2 DEF Logs, HasOp
<1> HIDE DEF StoreOk
<1>7. RowsOk(rw2, nv, committed)
  <2>1. ASSUME NEW u \in Tables, NEW w \in rw2[u]
        PROVE  /\ w.vid < nv[u]
               /\ w.create \in (1..committed) \cup {PENDING} /\ w.del \in (0..committed) \cup {PENDING}
               /\ w.create # PENDING /\ w.del # PENDING => w.owner = 0
               /\ w.create = PENDING => w.del \in {0, PENDING}
    <3>1. CASE w \in rw[u]
      BY <1>0, <3>1 DEF RowsOk
    <3>2. CASE u = t /\ w = v
      BY <1>0, <1>2, <3>2 DEF RowsOk
    <3> QED BY <1>4, <3>1, <3>2
  <2>2. ASSUME NEW u \in Tables, NEW w \in rw2[u], NEW z \in rw2[u], w.vid = z.vid
        PROVE  w = z
    <3>1. \A y \in rw[t] : y.vid = v.vid => y = old
      BY <1>0, <1>2 DEF RowsOk
    <3>2. CASE w \in rw[u] /\ z \in rw[u]
      BY <1>0, <2>2, <3>2 DEF RowsOk
    <3> QED BY <1>4, <2>2, <3>1, <3>2
  <2> QED BY <1>1, <1>4, <2>1, <2>2 DEF RowsOk
<1>8. \A d \in Conns, y \in Tables : \A z, q : HasOp(op[d], q, y, z) => HasOp(op2[d], q, y, z)
  BY <1>1, <1>3, <1>5, AppendedOp
<1>9. PendOk(rw2, op2)
  <2>1. ASSUME NEW d \in Conns, Writing(d), NEW i \in 1..Len(op2[d])
        PROVE  OpPending(rw2, op2[d][i], owner[d])
    <3>1. CASE i \in 1..Len(op[d]) /\ op2[d][i] = op[d][i]
      <4>0. op[d][i].tab \in Tables /\ op[d][i].op \in Kinds
        BY <1>0, <2>1, <3>1, OpVersion
      <4>1. PICK w \in rw[op[d][i].tab] : /\ Logs(op[d][i], op[d][i].op, op[d][i].tab, w)
                                          /\ Stamp(w, op[d][i].op) = PENDING /\ w.owner = owner[d]
        BY <1>0, <2>1, <3>1, OpVersion
      <4>2. CASE w \in rw2[op[d][i].tab]
        BY <3>1, <4>1, <4>2 DEF OpPending
      <4>3. CASE op[d][i].tab = t /\ w = old
        <5>1. op[d][i].op = "insert" /\ old.create = PENDING
          BY <4>0, <4>1, <4>3 DEF Kinds, Stamp
        <5>2. v.owner = owner[d] /\ Stamp(v, "insert") = PENDING
          BY <1>2, <4>1, <4>3, <5>1 DEF Stamp
        <5>3. Logs(op[d][i], op[d][i].op, op[d][i].tab, v)
          BY <1>6, <4>1, <4>3
        <5>4. v \in rw2[op[d][i].tab] /\ Stamp(v, op[d][i].op) = PENDING
          BY <1>4, <4>3, <5>1, <5>2
        <5>5. OpPending(rw2, op[d][i], owner[d])
          BY <5>2, <5>3, <5>4, Zenon DEF OpPending
        <5> QED BY <3>1, <5>5
      <4> QED BY <1>4, <4>0, <4>2, <4>3
    <3>2. CASE d = c /\ op2[d][i] = o
      <4>1. Stamp(v, "delete") = PENDING
        BY <1>2 DEF Stamp
      <4>2. v \in rw2[o.tab] /\ Logs(o, o.op, o.tab, v) /\ Stamp(v, o.op) = PENDING /\ v.owner = owner[c]
        BY <1>2, <1>3, <1>4, <4>1
      <4>3. OpPending(rw2, o, owner[c])
        BY <4>2, Zenon DEF OpPending
      <4> QED BY <3>2, <4>3
    <3>3. op[d] \in Seq(Op)
      BY <1>1
    <3>4. CASE d = c
      BY <1>3, <1>5, <3>1, <3>2, <3>3, <3>4
    <3>5. CASE d # c
      BY <1>5, <3>1, <3>5
    <3> QED BY <3>4, <3>5
  <2>2. ASSUME NEW u \in Tables, NEW w \in rw2[u], NEW q \in Kinds, Stamp(w, q) = PENDING
        PROVE  \E d \in Conns : Writing(d) /\ owner[d] = w.owner /\ HasOp(op2[d], q, u, w)
    <3>1. CASE w \in rw[u]
      <4>1. PICK d \in Conns : Writing(d) /\ owner[d] = w.owner /\ HasOp(op[d], q, u, w)
        BY <1>0, <2>2, <3>1 DEF PendOk
      <4> QED BY <1>8, <4>1
    <3>2. CASE u = t /\ w = v
      <4>1. CASE q = "insert"
        <5>1. Stamp(old, "insert") = PENDING /\ old.create = PENDING
          BY <1>2, <2>2, <3>2, <4>1 DEF Stamp
        <5>2. PICK d \in Conns : Writing(d) /\ owner[d] = old.owner /\ HasOp(op[d], q, u, old)
          BY <1>0, <3>2, <4>1, <5>1 DEF PendOk
        <5>3. HasOp(op2[d], q, u, old)
          BY <1>8, <5>2
        <5> QED BY <1>2, <1>6, <3>2, <5>1, <5>2, <5>3
      <4>2. CASE q = "delete"
        <5>1. HasOp(op2[c], q, u, w)
          BY <1>1, <1>3, <1>5, <3>2, <4>2, AppendedOp
        <5> QED BY <1>2, <3>2, <5>1
      <4> QED BY <4>1, <4>2 DEF Kinds
    <3> QED BY <1>4, <3>1, <3>2
  <2>3. ASSUME NEW d \in Conns PROVE InOrder(op2[d])
    <3>1. CASE d # c
      BY <1>0, <1>5, <3>1 DEF PendOk
    <3>2. CASE d = c
      <4>1. ASSUME NEW i \in 1..Len(op[c]), op[c][i].tab = o.tab, op[c][i].vid = o.vid,
                   op[c][i].op = "delete"
            PROVE  FALSE
        <5>1. PICK w \in rw[op[c][i].tab] : /\ Logs(op[c][i], op[c][i].op, op[c][i].tab, w)
                                            /\ Stamp(w, op[c][i].op) = PENDING
          BY <1>0, OpVersion
        <5>2. w \in rw[t] /\ w.vid = old.vid /\ w.del = PENDING
          BY <1>3, <4>1, <5>1 DEF Logs, Stamp
        <5>3. w = old
          BY <1>0, <5>2 DEF RowsOk
        <5> QED BY <5>2, <5>3
      <4>2. op[c] \in Seq(Op) /\ InOrder(op[c])
        BY <1>0, <1>1 DEF PendOk
      <4>3. InOrder(Append(op[c], o))
        BY <1>3, <4>1, <4>2, AppendedInOrder
      <4> QED BY <1>5, <3>2, <4>3
    <3> QED BY <3>1, <3>2
  <2> QED BY <1>5, <2>1, <2>2, <2>3 DEF PendOk
<1>10. LogOk(rw2, wal, committed)
  <2>1. ASSUME NEW u \in Tables, NEW w \in rw2[u], NEW q \in Kinds, Stamp(w, q) \in 1..committed
        PROVE  HasOp(wal[Stamp(w, q)], q, u, w)
    <3>1. CASE w \in rw[u]
      BY <1>0, <2>1, <3>1 DEF LogOk
    <3>2. CASE u = t /\ w = v
      <4>1. q = "insert" /\ Stamp(v, "insert") = Stamp(old, "insert")
        BY <1>2, <2>1, <3>2 DEF Kinds, Stamp
      <4>2. HasOp(wal[Stamp(old, q)], q, u, old)
        BY <1>0, <2>1, <3>2, <4>1 DEF LogOk
      <4> QED BY <1>6, <3>2, <4>1, <4>2
    <3> QED BY <1>4, <3>1, <3>2
  <2>2. ASSUME NEW i \in 1..committed, NEW m \in 1..Len(wal[i])
        PROVE  \E w \in rw2[wal[i][m].tab] :
                  Logs(wal[i][m], wal[i][m].op, wal[i][m].tab, w) /\ Stamp(w, wal[i][m].op) = i
    <3>1. wal \in Seq(Seq(Op)) /\ i \in 1..Len(wal)
      BY <1>0 DEF LogOk
    <3>2. wal[i][m].tab \in Tables /\ wal[i][m].op \in Kinds
      <4>1. wal[i] \in Seq(Op)
        BY <3>1
      <4>2. wal[i][m] \in Op
        BY <4>1
      <4> QED BY <4>2, OpFields
    <3>3. PICK w \in rw[wal[i][m].tab] :
             Logs(wal[i][m], wal[i][m].op, wal[i][m].tab, w) /\ Stamp(w, wal[i][m].op) = i
      BY <1>0 DEF LogOk
    <3>4. CASE w \in rw2[wal[i][m].tab]
      BY <3>3, <3>4
    <3>5. CASE wal[i][m].tab = t /\ w = old
      <4>1. wal[i][m].op = "insert"
        BY <3>2, <3>3, <3>5 DEF Kinds, Stamp
      <4>2. Stamp(v, "insert") = i
        BY <1>2, <3>3, <3>5, <4>1 DEF Stamp
      <4>3. Logs(wal[i][m], wal[i][m].op, wal[i][m].tab, v)
        BY <1>6, <3>3, <3>5
      <4> QED BY <1>4, <3>5, <4>1, <4>2, <4>3
    <3> QED BY <1>4, <3>2, <3>4, <3>5
  <2> QED BY <1>0, <2>1, <2>2 DEF LogOk
<1> QED BY <1>7, <1>9, <1>10 DEF StoreOk

\* The rest of the invariant after a statement.
LEMMA StatementKeeps ==
    ASSUME StoreInv, NEW c \in Conns, pc[c] = "writing", NEW more \in Seq(Op),
           ops' = [ops EXCEPT ![c] = ops[c] \o more], StoreOk(rows', nextVid', ops'),
           UNCHANGED <<committed, pc, snap, owner, saves, nextOwner, queue, flush, wal>>
    PROVE  StoreInv'
<1>0. ops \in [Conns -> Seq(Op)]
  BY DEF StoreInv, PendInv, PendOk
<1>1. /\ ops[c] \in Seq(Op) /\ ops'[c] = ops[c] \o more
      /\ \A d \in Conns : d # c => ops'[d] = ops[d]
  BY <1>0
<1>2. /\ Len(ops[c]) \in Nat /\ Len(ops'[c]) \in Nat /\ Len(ops[c]) <= Len(ops'[c])
      /\ \A i \in 1..Len(ops[c]) : ops'[c][i] = ops[c][i]
  BY <1>1
<1>3. RowsInv' /\ LogInv'
  BY DEF StoreOk, RowsInv, LogInv
<1>4. PendInv'
  <2>1. PendOk(rows', ops')
    BY DEF StoreOk
  <2> QED BY <2>1 DEF PendInv, PendOk, Writing
<1>5. TxnInv'
  BY <1>1 DEF StoreInv, TxnInv
<1>6. QueueInv' /\ WalInv'
  BY QueueSame DEF StoreInv, WalInv
<1>7. LsnInv'
  BY DEF StoreInv, LsnInv, Unqueued
<1>8. TailInv'
  <2>1. \A d \in Conns : pc[d] = "queued" => ops'[d] = ops[d]
    BY <1>1
  <2> QED BY <2>1, SameTail
<1>9. SaveInv'
  <2>1. ASSUME NEW n \in Nat, n <= Len(ops[c]), NEW k
        PROVE  VidsIn(ops'[c], n, k) = VidsIn(ops[c], n, k)
    <3>1. \A i \in 1..n : ops'[c][i] = ops[c][i]
      BY <1>2, <2>1
    <3> QED BY <3>1 DEF VidsIn
  <2>2. saves \in [Conns -> Seq(Save)]
    BY DEF StoreInv, SaveInv, SaveOk
  <2>3. ASSUME NEW d \in Conns
        PROVE  Len(saves[d]) <= MaxSaves /\ \A a \in 1..Len(saves[d]) :
                 /\ saves[d][a].len <= Len(ops'[d])
                 /\ saves[d][a].ins = VidsIn(ops'[d], saves[d][a].len, "insert")
                 /\ saves[d][a].del = VidsIn(ops'[d], saves[d][a].len, "delete")
                 /\ \A b \in 1..Len(saves[d]) : a <= b => saves[d][a].len <= saves[d][b].len
    <3>1. CASE d # c
      BY <1>1, <3>1 DEF StoreInv, SaveInv, SaveOk
    <3>2. CASE d = c
      <4>1. ASSUME NEW a \in 1..Len(saves[c])
            PROVE  /\ saves[c][a].len \in Nat /\ saves[c][a].len <= Len(ops[c])
                   /\ saves[c][a].ins = VidsIn(ops[c], saves[c][a].len, "insert")
                   /\ saves[c][a].del = VidsIn(ops[c], saves[c][a].len, "delete")
        <5>1. saves[c] \in Seq(Save)
          BY <2>2
        <5>2. saves[c][a] \in Save
          BY <5>1
        <5>3. saves[c][a].len \in Nat
          BY <5>2 DEF Save
        <5> QED BY <5>3 DEF StoreInv, SaveInv, SaveOk
      <4>2. ASSUME NEW a \in 1..Len(saves[c])
            PROVE  /\ saves[c][a].len <= Len(ops'[c])
                   /\ saves[c][a].ins = VidsIn(ops'[c], saves[c][a].len, "insert")
                   /\ saves[c][a].del = VidsIn(ops'[c], saves[c][a].len, "delete")
        <5>1. /\ saves[c][a].len \in Nat /\ saves[c][a].len <= Len(ops[c])
          BY <4>1
        <5>2. saves[c][a].len <= Len(ops'[c])
          BY <1>2, <5>1
        <5> QED BY <2>1, <4>1, <5>1, <5>2
      <4> QED BY <3>2, <4>2 DEF StoreInv, SaveInv, SaveOk
    <3> QED BY <3>1, <3>2
  <2> QED BY <2>2, <2>3 DEF SaveInv, SaveOk
<1> QED BY <1>3, <1>4, <1>5, <1>6, <1>7, <1>8, <1>9 DEF StoreInv

\* A row that a statement may supersede is live, and its own if it is new.
LEMMA MayBeSuperseded ==
    ASSUME StoreInv, NEW c \in Conns, NEW t \in Tables, NEW old \in rows[t],
           visible_to_writer(old, snap[c], owner[c]), NoConflict(old, snap[c], owner[c])
    PROVE  old.del = 0 /\ (old.create = PENDING => old.owner = owner[c])
<1>1. old.create = PENDING => old.owner = owner[c]
  BY DEF visible_to_writer
<1>2. old.del # PENDING
  BY DEF visible_to_writer, NoConflict
<1>3. snap[c] \in Nat /\ old.del \in Nat
  <2>1. old \in Version /\ snap[c] \in Nat
    BY DEF StoreInv, RowsInv, RowsOk, TxnInv
  <2>2. PENDING \in Nat
    BY PendingIsAbove
  <2>3. old.del \in 0..PENDING
    BY <2>1, VersionFields
  <2> HIDE DEF PENDING
  <2> QED BY <2>1, <2>2, <2>3
<1>4. ~(old.del # 0 /\ old.del <= snap[c]) /\ ~(old.del # 0 /\ old.del > snap[c])
  BY <1>2 DEF visible_to_writer, NoConflict
<1> QED BY <1>1, <1>3, <1>4

\* The invariant of the store, in terms of the parameterised parts.
LEMMA StoreInvOk ==
    ASSUME StoreInv
    PROVE  /\ StoreOk(rows, nextVid, ops) /\ TxnInv
           /\ PENDING \in Nat /\ committed \in Nat /\ committed < PENDING /\ PENDING # 0
           /\ rows \in [Tables -> SUBSET Version] /\ nextVid \in [Tables -> Nat \ {0}]
           /\ ops \in [Conns -> Seq(Op)]
<1>1. StoreOk(rows, nextVid, ops) /\ TxnInv
  BY DEF StoreOk, StoreInv, RowsInv, PendInv, LogInv
<1>2. /\ PENDING \in Nat /\ committed \in Nat /\ PENDING # 0 /\ Len(wal) \in Nat
      /\ committed <= Len(wal) /\ Len(wal) < PENDING
  BY PendingIsAbove
<1> HIDE DEF PENDING
<1>3. committed < PENDING
  BY <1>2
<1> QED BY <1>1, <1>2, <1>3 DEF StoreOk, RowsOk, PendOk

\* An INSERT that meets no conflict adds a pending version and its op.
LEMMA InsertNewInv ==
    ASSUME Checked, StoreInv, NEW c \in Conns, NEW t \in Tables, NEW k \in Keys, NEW x \in Vals,
           InsertNew(c, t, k, x)
    PROVE  StoreInv'
<1> DEFINE v == NewVersion(t, k, x, owner[c])
           o == InsertOp(t, k, x)
<1>0. /\ pc[c] = "writing" /\ rows' = [rows EXCEPT ![t] = rows[t] \cup {v}]
      /\ nextVid' = [nextVid EXCEPT ![t] = @ + 1] /\ ops' = [ops EXCEPT ![c] = ops[c] \o <<o>>]
      /\ UNCHANGED <<committed, pc, snap, owner, saves, nextOwner, queue, flush, wal>>
  BY DEF Checked, InsertNew, Statement, pipeVars
<1>1. /\ StoreOk(rows, nextVid, ops) /\ TxnInv
      /\ PENDING \in Nat /\ committed \in Nat /\ committed < PENDING /\ PENDING # 0
      /\ nextVid \in [Tables -> Nat \ {0}] /\ ops \in [Conns -> Seq(Op)]
  BY StoreInvOk
<1>2. o \in Op
  <2>1. nextVid[t] \in Nat
    BY <1>1
  <2> QED BY <2>1 DEF InsertOp, Op
<1>3. /\ v = [vid |-> nextVid[t], key |-> k, val |-> x, create |-> PENDING, del |-> 0,
              owner |-> owner[c]]
      /\ o = [op |-> "insert", tab |-> t, vid |-> nextVid[t], key |-> k, val |-> x]
  BY DEF NewVersion, InsertOp
<1> HIDE DEF v, o
<1>4. ops' = [ops EXCEPT ![c] = Append(ops[c], o)] /\ Writing(c) /\ <<o>> \in Seq(Op)
  <2>1. ops[c] \in Seq(Op)
    BY <1>1
  <2>2. ops[c] \o <<o>> = Append(ops[c], o) /\ <<o>> \in Seq(Op)
    BY <2>1, <1>2, AppendIsConcat
  <2> QED BY <1>0, <2>2 DEF Writing
<1>5. StoreOk(rows', nextVid', ops')
  <2>1. StoreOk([rows EXCEPT ![t] = rows[t] \cup {v}], [nextVid EXCEPT ![t] = @ + 1],
                [ops EXCEPT ![c] = Append(ops[c], o)])
    BY <1>1, <1>3, <1>4, AddInsert
  <2> QED BY <1>0, <1>4, <2>1
<1> QED BY <1>0, <1>4, <1>5, StatementKeeps

\* A DELETE stamps a version nobody else has stamped and adds its op.
LEMMA DeleteInv ==
    ASSUME Checked, StoreInv, NEW c \in Conns, NEW t \in Tables, NEW k \in Keys, Delete(c, t, k)
    PROVE  StoreInv'
<1>0. PICK old \in rows[t] :
        /\ visible_to_writer(old, snap[c], owner[c]) /\ NoConflict(old, snap[c], owner[c])
        /\ Statement(c, t, Supersede(rows[t], old, owner[c]), <<DeleteOp(t, old)>>, 0)
  BY DEF Delete
<1> DEFINE v == [old EXCEPT !.del = PENDING, !.owner = owner[c]]
           o == DeleteOp(t, old)
<1>1. /\ StoreOk(rows, nextVid, ops) /\ TxnInv
      /\ PENDING \in Nat /\ committed \in Nat /\ committed < PENDING /\ PENDING # 0
      /\ nextVid \in [Tables -> Nat \ {0}] /\ ops \in [Conns -> Seq(Op)]
      /\ rows \in [Tables -> SUBSET Version]
  BY StoreInvOk
<1>2. old.del = 0 /\ (old.create = PENDING => old.owner = owner[c])
  BY <1>0, MayBeSuperseded
<1>3. o \in Op /\ o = [op |-> "delete", tab |-> t, vid |-> old.vid, key |-> old.key, val |-> old.val]
  <2>1. old \in Version
    BY <1>1
  <2>2. old.vid \in Nat /\ old.key \in Keys /\ old.val \in Vals
    BY <2>1, VersionFields
  <2> QED BY <2>2 DEF DeleteOp, Op
<1>4. /\ pc[c] = "writing" /\ rows' = [rows EXCEPT ![t] = (rows[t] \ {old}) \cup {v}]
      /\ nextVid' = [nextVid EXCEPT ![t] = @ + 0] /\ ops' = [ops EXCEPT ![c] = ops[c] \o <<o>>]
      /\ UNCHANGED <<committed, pc, snap, owner, saves, nextOwner, queue, flush, wal>>
  BY <1>0 DEF Checked, Statement, Supersede, pipeVars
<1> HIDE DEF o
<1>5. ops' = [ops EXCEPT ![c] = Append(ops[c], o)] /\ Writing(c) /\ <<o>> \in Seq(Op)
  <2>1. ops[c] \in Seq(Op)
    BY <1>1
  <2>2. ops[c] \o <<o>> = Append(ops[c], o) /\ <<o>> \in Seq(Op)
    BY <2>1, <1>3, AppendIsConcat
  <2> QED BY <1>4, <2>2 DEF Writing
<1>6. nextVid' = nextVid
  BY <1>1, <1>4
<1>7. v = [old EXCEPT !.del = PENDING, !.owner = owner[c]]
  OBVIOUS
<1> HIDE DEF v
<1>8. StoreOk(rows', nextVid', ops')
  <2>1. StoreOk([rows EXCEPT ![t] = (rows[t] \ {old}) \cup {v}], nextVid,
                [ops EXCEPT ![c] = Append(ops[c], o)])
    BY <1>1, <1>2, <1>3, <1>5, <1>7, AddDelete
  <2> QED BY <1>4, <1>5, <1>6, <2>1
<1> QED BY <1>4, <1>5, <1>8, StatementKeeps

\* An UPDATE stamps the old version, adds the new one, and logs both.
LEMMA UpdateInv ==
    ASSUME Checked, StoreInv, NEW c \in Conns, NEW t \in Tables, NEW k \in Keys, NEW newKey \in Keys,
           NEW x \in Vals, Update(c, t, k, newKey, x)
    PROVE  StoreInv'
<1>0. PICK old \in rows[t] :
        /\ visible_to_writer(old, snap[c], owner[c]) /\ NoConflict(old, snap[c], owner[c])
        /\ Statement(c, t,
              Supersede(rows[t], old, owner[c]) \cup {NewVersion(t, newKey, x, owner[c])},
              <<DeleteOp(t, old), InsertOp(t, newKey, x)>>, 1)
  BY DEF Update
<1> DEFINE v == [old EXCEPT !.del = PENDING, !.owner = owner[c]]
           o == DeleteOp(t, old)
           w == NewVersion(t, newKey, x, owner[c])
           p == InsertOp(t, newKey, x)
           rw == [rows EXCEPT ![t] = (rows[t] \ {old}) \cup {v}]
           op == [ops EXCEPT ![c] = Append(ops[c], o)]
<1>1. /\ StoreOk(rows, nextVid, ops) /\ TxnInv
      /\ PENDING \in Nat /\ committed \in Nat /\ committed < PENDING /\ PENDING # 0
      /\ nextVid \in [Tables -> Nat \ {0}] /\ ops \in [Conns -> Seq(Op)]
      /\ rows \in [Tables -> SUBSET Version]
  BY StoreInvOk
<1>2. old.del = 0 /\ (old.create = PENDING => old.owner = owner[c])
  BY <1>0, MayBeSuperseded
<1>3. o \in Op /\ o = [op |-> "delete", tab |-> t, vid |-> old.vid, key |-> old.key, val |-> old.val]
  <2>1. old \in Version
    BY <1>1
  <2>2. old.vid \in Nat /\ old.key \in Keys /\ old.val \in Vals
    BY <2>1, VersionFields
  <2> QED BY <2>2 DEF DeleteOp, Op
<1>4. p \in Op
  <2>1. nextVid[t] \in Nat
    BY <1>1
  <2> QED BY <2>1 DEF InsertOp, Op
<1>5. /\ w = [vid |-> nextVid[t], key |-> newKey, val |-> x, create |-> PENDING, del |-> 0,
              owner |-> owner[c]]
      /\ p = [op |-> "insert", tab |-> t, vid |-> nextVid[t], key |-> newKey, val |-> x]
  BY DEF NewVersion, InsertOp
<1>6. /\ pc[c] = "writing" /\ rows' = [rows EXCEPT ![t] = ((rows[t] \ {old}) \cup {v}) \cup {w}]
      /\ nextVid' = [nextVid EXCEPT ![t] = @ + 1] /\ ops' = [ops EXCEPT ![c] = ops[c] \o <<o, p>>]
      /\ UNCHANGED <<committed, pc, snap, owner, saves, nextOwner, queue, flush, wal>>
  BY <1>0 DEF Checked, Statement, Supersede, pipeVars
<1> HIDE DEF o, w, p
<1>7. v = [old EXCEPT !.del = PENDING, !.owner = owner[c]]
  OBVIOUS
<1> HIDE DEF v
<1>8. Writing(c) /\ <<o, p>> \in Seq(Op)
  BY <1>3, <1>4, <1>6 DEF Writing
<1>9. rows' = [rw EXCEPT ![t] = rw[t] \cup {w}]
  <2>1. rw[t] = (rows[t] \ {old}) \cup {v}
    BY <1>1
  <2>2. [rw EXCEPT ![t] = rw[t] \cup {w}] = [rows EXCEPT ![t] = rw[t] \cup {w}]
    BY <1>1
  <2> QED BY <1>6, <2>1, <2>2
<1>10. ops' = [op EXCEPT ![c] = Append(op[c], p)]
  <2>1. op[c] = Append(ops[c], o) /\ ops[c] \in Seq(Op)
    BY <1>1
  <2>2. Append(op[c], p) = ops[c] \o <<o, p>>
    BY <1>3, <1>4, <2>1
  <2>3. [op EXCEPT ![c] = Append(op[c], p)] = [ops EXCEPT ![c] = Append(op[c], p)]
    BY <1>1
  <2> QED BY <1>6, <2>2, <2>3
<1> HIDE DEF rw, op
<1>11. StoreOk(rw, nextVid, op)
  BY <1>1, <1>2, <1>3, <1>7, <1>8, AddDelete DEF rw, op
<1>12. StoreOk(rows', nextVid', ops')
  <2>1. StoreOk([rw EXCEPT ![t] = rw[t] \cup {w}], [nextVid EXCEPT ![t] = @ + 1],
                [op EXCEPT ![c] = Append(op[c], p)])
    BY <1>1, <1>5, <1>8, <1>11, AddInsert
  <2> QED BY <1>6, <1>9, <1>10, <2>1
<1> QED BY <1>6, <1>8, <1>12, StatementKeeps

\* The statements that check for conflicts.
LEMMA DmlInv == ASSUME Checked, StoreInv, NEW c \in Conns, Dml(c) PROVE StoreInv'
<1>1. PICK t \in Tables, k \in Keys :
        \/ \E x \in Vals : \/ InsertNew(c, t, k, x)
                           \/ InsertReplace(c, t, k, x)
        \/ \E newKey \in Keys, x \in Vals : \/ InsertDoUpdate(c, t, k, newKey, x)
                                           \/ Update(c, t, k, newKey, x)
        \/ Delete(c, t, k)
  BY DEF Dml
<1>2. \A x \in Vals : ~InsertReplace(c, t, k, x)
  BY DEF Checked, InsertReplace
<1>3. \A newKey \in Keys, x \in Vals : ~InsertDoUpdate(c, t, k, newKey, x)
  BY DEF Checked, InsertDoUpdate
<1> QED BY <1>1, <1>2, <1>3, InsertNewInv, UpdateInv, DeleteInv

-----------------------------------------------------------------------------
(* Rollbacks: writers keep a prefix of their ops, and what the others       *)
(* stamped is undone.                                                       *)

\* The op of kind k that stamped v is not among those that C keeps.
Lost(C, op2, t, v, k) ==
    \E d \in C : owner[d] = v.owner /\ Stamp(v, k) = PENDING /\ ~HasOp(op2[d], k, t, v)

Undo(C, op2, t, v) ==
    IF Lost(C, op2, t, v, "delete")
    THEN [v EXCEPT !.del = 0, !.owner = IF v.create = PENDING THEN v.owner ELSE 0]
    ELSE v

Undone(C, op2, rw) ==
    [t \in Tables |-> {Undo(C, op2, t, v) : v \in {w \in rw[t] : ~Lost(C, op2, t, w, "insert")}}]

\* What undoing does to a version.
LEMMA UndoFields ==
    ASSUME NEW C, NEW op2, NEW t, NEW v \in Version, PENDING \in Nat
    PROVE  LET u == Undo(C, op2, t, v)
           IN  /\ u \in Version /\ u.vid = v.vid /\ u.key = v.key /\ u.val = v.val
               /\ u.create = v.create
               /\ v.create = PENDING => u.owner = v.owner
               /\ Lost(C, op2, t, v, "delete") => u.del = 0 /\ (v.create # PENDING => u.owner = 0)
               /\ ~Lost(C, op2, t, v, "delete") => u = v
<1> HIDE DEF PENDING
<1>1. CASE Lost(C, op2, t, v, "delete")
  <2> DEFINE x == IF v.create = PENDING THEN v.owner ELSE 0
             u == [v EXCEPT !.del = 0, !.owner = x]
  <2>1. x \in Nat /\ 0 \in 0..PENDING
    BY VersionFields
  <2>2. (v.create = PENDING => x = v.owner) /\ (v.create # PENDING => x = 0)
    OBVIOUS
  <2> HIDE DEF x
  <2>3. /\ u \in Version /\ u.vid = v.vid /\ u.key = v.key /\ u.val = v.val
        /\ u.create = v.create /\ u.del = 0 /\ u.owner = x
    BY <2>1 DEF Version
  <2>4. Undo(C, op2, t, v) = u
    BY <1>1 DEF Undo, x
  <2> HIDE DEF u
  <2> QED BY <1>1, <2>2, <2>3, <2>4
<1>2. CASE ~Lost(C, op2, t, v, "delete")
  BY <1>2 DEF Undo
<1> QED BY <1>1, <1>2

\* Undoing the ops after a prefix leaves the pending stamps of that prefix.
LEMMA UndoOk ==
    ASSUME TxnInv, PENDING \in Nat, committed \in Nat, committed < PENDING, PENDING # 0,
           NEW rw, NEW nv, NEW op, StoreOk(rw, nv, op),
           NEW C \in SUBSET Conns, NEW op2 \in [Conns -> Seq(Op)],
           \A d \in Conns : /\ Len(op2[d]) <= Len(op[d])
                            /\ \A i \in 1..Len(op2[d]) : op2[d][i] = op[d][i],
           \A d \in Conns : d \notin C => op2[d] = op[d]
    PROVE  StoreOk(Undone(C, op2, rw), nv, op2)
<1> HIDE DEF PENDING
<1> DEFINE rw2 == Undone(C, op2, rw)
<1>0. /\ RowsOk(rw, nv, committed) /\ PendOk(rw, op) /\ LogOk(rw, wal, committed)
  BY DEF StoreOk
<1>1. /\ rw \in [Tables -> SUBSET Version] /\ nv \in [Tables -> Nat \ {0}]
      /\ op \in [Conns -> Seq(Op)] /\ owner \in [Conns -> Nat]
  BY <1>0 DEF RowsOk, PendOk, TxnInv
<1>2. ASSUME NEW d \in Conns, NEW e \in Conns, Writing(d), owner[e] = owner[d] PROVE d = e
  <2>1. owner[d] # 0
    BY <1>2 DEF TxnInv, Writing
  <2> QED BY <1>2, <2>1 DEF TxnInv
<1>3. ASSUME NEW d \in Conns
      PROVE  /\ Len(op2[d]) \in Nat /\ Len(op[d]) \in Nat /\ Len(op2[d]) <= Len(op[d])
             /\ \A i \in 1..Len(op2[d]) : i \in 1..Len(op[d]) /\ op2[d][i] = op[d][i]
  <2>1. op2[d] \in Seq(Op) /\ op[d] \in Seq(Op)
    BY <1>1
  <2>2. Len(op2[d]) \in Nat /\ Len(op[d]) \in Nat /\ Len(op2[d]) <= Len(op[d])
    BY <2>1
  <2> QED BY <2>2
<1>4. ASSUME NEW t \in Tables, NEW v \in rw[t]
      PROVE  v \in Version
  BY <1>1
<1>5. ASSUME NEW t \in Tables, NEW v \in rw[t], NEW k \in Kinds, Stamp(v, k) = PENDING
      PROVE  \E e \in Conns : /\ Writing(e) /\ owner[e] = v.owner /\ HasOp(op[e], k, t, v)
                              /\ Lost(C, op2, t, v, k) <=> ~HasOp(op2[e], k, t, v)
  <2>1. PICK e \in Conns : Writing(e) /\ owner[e] = v.owner /\ HasOp(op[e], k, t, v)
    BY <1>0, <1>5 DEF PendOk
  <2>2. ASSUME Lost(C, op2, t, v, k) PROVE ~HasOp(op2[e], k, t, v)
    <3>1. PICK d \in C : owner[d] = v.owner /\ ~HasOp(op2[d], k, t, v)
      BY <2>2 DEF Lost
    <3>2. d = e
      BY <1>2, <2>1, <3>1
    <3> QED BY <3>1, <3>2
  <2>3. ASSUME ~HasOp(op2[e], k, t, v) PROVE Lost(C, op2, t, v, k)
    <3>1. e \in C
      BY <2>1, <2>3
    <3> QED BY <1>5, <2>1, <2>3, <3>1 DEF Lost
  <2> QED BY <2>1, <2>2, <2>3
<1>6. ASSUME NEW t \in Tables, NEW u \in rw2[t]
      PROVE  \E v \in rw[t] : ~Lost(C, op2, t, v, "insert") /\ u = Undo(C, op2, t, v)
  BY DEF Undone
<1>7. ASSUME NEW t \in Tables, NEW v \in rw[t], ~Lost(C, op2, t, v, "insert")
      PROVE  Undo(C, op2, t, v) \in rw2[t]
  BY <1>7 DEF Undone
<1>8. ASSUME NEW t \in Tables, NEW v \in rw[t]
      PROVE  LET u == Undo(C, op2, t, v)
             IN  /\ u \in Version /\ u.vid = v.vid /\ u.key = v.key /\ u.val = v.val
                 /\ u.create = v.create
                 /\ v.create = PENDING => u.owner = v.owner
                 /\ Lost(C, op2, t, v, "delete") => u.del = 0 /\ (v.create # PENDING => u.owner = 0)
                 /\ ~Lost(C, op2, t, v, "delete") => u = v
  BY <1>4, UndoFields
<1>9. rw2 \in [Tables -> SUBSET Version]
  BY <1>8 DEF Undone
<1> HIDE DEF rw2
<1>10. RowsOk(rw2, nv, committed)
  <2>1. ASSUME NEW t \in Tables, NEW u \in rw2[t]
        PROVE  /\ u.vid < nv[t]
               /\ u.create \in (1..committed) \cup {PENDING} /\ u.del \in (0..committed) \cup {PENDING}
               /\ u.create # PENDING /\ u.del # PENDING => u.owner = 0
               /\ u.create = PENDING => u.del \in {0, PENDING}
    <3>1. PICK v \in rw[t] : ~Lost(C, op2, t, v, "insert") /\ u = Undo(C, op2, t, v)
      BY <1>6
    <3>2. /\ v.vid < nv[t]
          /\ v.create \in (1..committed) \cup {PENDING} /\ v.del \in (0..committed) \cup {PENDING}
          /\ v.create # PENDING /\ v.del # PENDING => v.owner = 0
          /\ v.create = PENDING => v.del \in {0, PENDING}
      BY <1>0 DEF RowsOk
    <3>3. /\ u.vid = v.vid /\ u.create = v.create
          /\ Lost(C, op2, t, v, "delete") => u.del = 0 /\ (v.create # PENDING => u.owner = 0)
          /\ ~Lost(C, op2, t, v, "delete") => u = v
      BY <1>8, <3>1
    <3>4. 0 \in 0..committed
      OBVIOUS
    <3> QED BY <3>2, <3>3, <3>4
  <2>2. ASSUME NEW t \in Tables, NEW u \in rw2[t], NEW z \in rw2[t], u.vid = z.vid PROVE u = z
    <3>1. PICK v \in rw[t] : u = Undo(C, op2, t, v)
      BY <1>6
    <3>2. PICK y \in rw[t] : z = Undo(C, op2, t, y)
      BY <1>6
    <3>3. v.vid = y.vid
      BY <1>8, <2>2, <3>1, <3>2
    <3>4. v = y
      BY <1>0, <3>3 DEF RowsOk
    <3> QED BY <3>1, <3>2, <3>4
  <2> QED BY <1>1, <1>9, <2>1, <2>2 DEF RowsOk
<1>11. ASSUME NEW d \in Conns, Writing(d), NEW i \in 1..Len(op2[d])
       PROVE  OpPending(rw2, op2[d][i], owner[d])
  <2> DEFINE o == op[d][i]
             t == o.tab
  <2>1. i \in 1..Len(op[d]) /\ op2[d][i] = o
    BY <1>3
  <2>2. t \in Tables /\ o.op \in Kinds
    BY <1>0, <1>11, <2>1, OpVersion
  <2>3. PICK v \in rw[t] : Logs(o, o.op, t, v) /\ Stamp(v, o.op) = PENDING /\ v.owner = owner[d]
    BY <1>0, <1>11, <2>1, OpVersion
  <2> HIDE DEF t
  <2>4. HasOp(op2[d], o.op, t, v)
    BY <2>1, <2>3 DEF HasOp
  <2>5. ~Lost(C, op2, t, v, o.op)
    <3>1. PICK e \in Conns : /\ Writing(e) /\ owner[e] = v.owner
                             /\ Lost(C, op2, t, v, o.op) <=> ~HasOp(op2[e], o.op, t, v)
      BY <1>5, <2>2, <2>3
    <3>2. e = d
      BY <1>2, <2>3, <3>1
    <3> QED BY <2>4, <3>1, <3>2
  <2>6. ~Lost(C, op2, t, v, "insert")
    <3>1. CASE o.op = "insert"
      BY <2>5, <3>1
    <3>2. CASE o.op = "delete"
      <4> SUFFICES ASSUME Lost(C, op2, t, v, "insert") PROVE FALSE
        OBVIOUS
      <4>1. "insert" \in Kinds /\ Stamp(v, "insert") = PENDING
        BY DEF Lost, Kinds
      <4>2. PICK e \in Conns : /\ Writing(e) /\ owner[e] = v.owner /\ HasOp(op[e], "insert", t, v)
                               /\ ~HasOp(op2[e], "insert", t, v)
        BY <1>5, <2>2, <4>1
      <4>3. e = d
        BY <1>2, <2>3, <4>2
      <4>4. PICK j \in 1..Len(op[d]) : Logs(op[d][j], "insert", t, v)
        BY <4>2, <4>3 DEF HasOp
      <4>5. j < i
        <5>1. InOrder(op[d])
          BY <1>0 DEF PendOk
        <5>2. o.tab = op[d][j].tab /\ o.vid = op[d][j].vid /\ op[d][j].op = "insert"
          BY <2>3, <4>4 DEF Logs, t
        <5> QED BY <2>1, <3>2, <4>4, <5>1, <5>2 DEF InOrder
      <4>6. j \in 1..Len(op2[d])
        <5>1. Len(op2[d]) \in Nat
          BY <1>3
        <5> QED BY <4>5, <5>1
      <4>7. HasOp(op2[d], "insert", t, v)
        BY <1>3, <4>4, <4>6 DEF HasOp
      <4> QED BY <4>2, <4>3, <4>7
    <3> QED BY <2>2, <3>1, <3>2 DEF Kinds
  <2> DEFINE u == Undo(C, op2, t, v)
  <2>7. u \in rw2[t]
    BY <1>7, <2>2, <2>6
  <2>8. /\ u.vid = v.vid /\ u.key = v.key /\ u.val = v.val
        /\ u.create = v.create
        /\ v.create = PENDING => u.owner = v.owner
        /\ ~Lost(C, op2, t, v, "delete") => u = v
    BY <1>8, <2>2
  <2> HIDE DEF u
  <2>9. Logs(o, o.op, t, u)
    BY <2>3, <2>8 DEF Logs
  <2>10. Stamp(u, o.op) = PENDING /\ u.owner = owner[d]
    <3>1. CASE o.op = "insert"
      BY <2>3, <2>8, <3>1 DEF Stamp
    <3>2. CASE o.op = "delete"
      BY <2>3, <2>5, <2>8, <3>2
    <3> QED BY <2>2, <3>1, <3>2 DEF Kinds
  <2>11. OpPending(rw2, o, owner[d])
    BY <2>7, <2>9, <2>10, Zenon DEF OpPending, t
  <2> QED BY <2>1, <2>11
<1>12. ASSUME NEW t \in Tables, NEW u \in rw2[t], NEW k \in Kinds, Stamp(u, k) = PENDING
       PROVE  \E d \in Conns : Writing(d) /\ owner[d] = u.owner /\ HasOp(op2[d], k, t, u)
  <2>1. PICK v \in rw[t] : ~Lost(C, op2, t, v, "insert") /\ u = Undo(C, op2, t, v)
    BY <1>6
  <2>2. /\ u.vid = v.vid /\ u.key = v.key /\ u.val = v.val
        /\ u.create = v.create
        /\ v.create = PENDING => u.owner = v.owner
        /\ Lost(C, op2, t, v, "delete") => u.del = 0
        /\ ~Lost(C, op2, t, v, "delete") => u = v
    BY <1>8, <2>1
  <2>3. Stamp(v, k) = PENDING /\ ~Lost(C, op2, t, v, k) /\ u.owner = v.owner
    <3>1. CASE k = "insert"
      BY <1>12, <2>1, <2>2, <3>1 DEF Stamp
    <3>2. CASE k = "delete"
      BY <1>12, <2>2, <3>2 DEF Stamp
    <3> QED BY <3>1, <3>2 DEF Kinds
  <2>4. PICK e \in Conns : Writing(e) /\ owner[e] = v.owner /\ HasOp(op2[e], k, t, v)
    BY <1>5, <2>3
  <2>5. HasOp(op2[e], k, t, u)
    BY <2>2, <2>4 DEF HasOp, Logs
  <2> QED BY <2>3, <2>4, <2>5
<1>13. ASSUME NEW d \in Conns PROVE InOrder(op2[d])
  <2>1. InOrder(op[d])
    BY <1>0 DEF PendOk
  <2> QED BY <1>3, <2>1 DEF InOrder
<1>14. PendOk(rw2, op2)
  BY <1>11, <1>12, <1>13 DEF PendOk
<1>15. LogOk(rw2, wal, committed)
  <2>1. ASSUME NEW t \in Tables, NEW u \in rw2[t], NEW k \in Kinds, Stamp(u, k) \in 1..committed
        PROVE  HasOp(wal[Stamp(u, k)], k, t, u)
    <3>1. PICK v \in rw[t] : u = Undo(C, op2, t, v)
      BY <1>6
    <3>2. /\ u.vid = v.vid /\ u.key = v.key /\ u.val = v.val
          /\ u.create = v.create
          /\ Lost(C, op2, t, v, "delete") => u.del = 0
          /\ ~Lost(C, op2, t, v, "delete") => u = v
      BY <1>8, <3>1
    <3>3. Stamp(v, k) = Stamp(u, k)
      BY <2>1, <3>2 DEF Stamp
    <3>4. HasOp(wal[Stamp(v, k)], k, t, v)
      BY <1>0, <2>1, <3>3 DEF LogOk
    <3> QED BY <3>2, <3>3, <3>4 DEF HasOp, Logs
  <2>2. ASSUME NEW i \in 1..committed, NEW m \in 1..Len(wal[i])
        PROVE  \E w \in rw2[wal[i][m].tab] :
                  Logs(wal[i][m], wal[i][m].op, wal[i][m].tab, w) /\ Stamp(w, wal[i][m].op) = i
    <3> DEFINE o == wal[i][m]
               t == o.tab
    <3>1. wal \in Seq(Seq(Op)) /\ i \in 1..Len(wal)
      BY <1>0 DEF LogOk
    <3>2. t \in Tables /\ o.op \in Kinds
      <4>1. wal[i] \in Seq(Op)
        BY <3>1
      <4>2. o \in Op
        BY <4>1
      <4> QED BY <4>2, OpFields
    <3>3. PICK v \in rw[t] : Logs(o, o.op, t, v) /\ Stamp(v, o.op) = i
      BY <1>0 DEF LogOk
    <3>4. i # PENDING /\ i # 0
      OBVIOUS
    <3> HIDE DEF t, o
    <3>5. v.create # PENDING
      <4>1. v.create = PENDING => v.del \in {0, PENDING}
        BY <1>0, <3>2 DEF RowsOk
      <4> QED BY <3>2, <3>3, <3>4, <4>1 DEF Kinds, Stamp
    <3>6. ~Lost(C, op2, t, v, "insert")
      BY <3>5 DEF Lost, Stamp
    <3> DEFINE u == Undo(C, op2, t, v)
    <3>7. u \in rw2[t]
      BY <1>7, <3>2, <3>6
    <3>8. /\ u.vid = v.vid /\ u.key = v.key /\ u.val = v.val /\ u.create = v.create
          /\ ~Lost(C, op2, t, v, "delete") => u = v
      BY <1>8, <3>2
    <3> HIDE DEF u
    <3>9. Stamp(u, o.op) = i
      <4>1. CASE o.op = "insert"
        BY <3>3, <3>8, <4>1 DEF Stamp
      <4>2. CASE o.op = "delete"
        BY <3>3, <3>4, <3>8, <4>2 DEF Stamp, Lost
      <4> QED BY <3>2, <4>1, <4>2 DEF Kinds
    <3>10. Logs(o, o.op, t, u)
      BY <3>3, <3>8 DEF Logs
    <3> QED BY <3>7, <3>9, <3>10 DEF o, t
  <2> QED BY <1>0, <2>1, <2>2 DEF LogOk
<1> QED BY <1>10, <1>14, <1>15 DEF StoreOk, rw2

\* Transactions without ops end.
LEMMA EndedPending ==
    ASSUME NEW C \in SUBSET Conns, PendOk(rows', ops'), \A c \in C : ops'[c] = <<>>,
           \A c \in Conns : /\ c \in C => pc'[c] = "idle"
                            /\ c \notin C => pc'[c] = pc[c] /\ owner'[c] = owner[c]
    PROVE  PendInv'
<1>1. ASSUME NEW d \in Conns, Writing(d)', NEW i \in 1..Len(ops'[d])
      PROVE  OpPending(rows', ops'[d][i], owner'[d])
  <2>1. d \notin C
    BY <1>1 DEF Writing
  <2>2. Writing(d) /\ owner'[d] = owner[d]
    BY <1>1, <2>1 DEF Writing
  <2> QED BY <2>2 DEF PendOk
<1>2. ASSUME NEW t \in Tables, NEW v \in rows'[t], NEW k \in Kinds, Stamp(v, k) = PENDING
      PROVE  \E d \in Conns : Writing(d)' /\ owner'[d] = v.owner /\ HasOp(ops'[d], k, t, v)
  <2>1. PICK d \in Conns : Writing(d) /\ owner[d] = v.owner /\ HasOp(ops'[d], k, t, v)
    BY <1>2 DEF PendOk
  <2>2. d \notin C
    BY <2>1 DEF HasOp
  <2>3. Writing(d)' /\ owner'[d] = owner[d]
    BY <2>1, <2>2 DEF Writing
  <2> QED BY <2>1, <2>3
<1> QED BY <1>1, <1>2 DEF PendInv, PendOk

\* All of a transaction's ops are undone.
LEMMA LostAll ==
    ASSUME NEW C, NEW op2, \A d \in C : op2[d] = <<>>, NEW t, NEW v, NEW k
    PROVE  Lost(C, op2, t, v, k) <=> (Stamp(v, k) = PENDING /\ \E d \in C : owner[d] = v.owner)
<1>1. \A d \in C : ~HasOp(op2[d], k, t, v)
  BY DEF HasOp
<1> QED BY <1>1 DEF Lost

\* The connections of C end and what they stamped is undone.
LEMMA UndoEnds ==
    ASSUME StoreInv, NEW C \in SUBSET Conns, EndTxns(C),
           UNCHANGED <<nextVid, committed, nextOwner, wal>>,
           rows' = Undone(C, ops', rows)
    PROVE  /\ TxnInv' /\ SaveInv' /\ RowsInv' /\ LogInv' /\ PendInv' /\ WalInv'
           /\ Unqueued' \subseteq Unqueued
           /\ \A d \in Conns : d \notin C => pc'[d] = pc[d] /\ ops'[d] = ops[d]
<1>1. /\ TxnInv' /\ SaveInv' /\ Unqueued' \subseteq Unqueued /\ ops' \in [Conns -> Seq(Op)]
      /\ \A c \in Conns : /\ c \in C => pc'[c] = "idle" /\ owner'[c] = 0 /\ ops'[c] = <<>>
                          /\ c \notin C => /\ pc'[c] = pc[c] /\ owner'[c] = owner[c]
                                           /\ ops'[c] = ops[c]
  BY EndedTxns
<1>2. /\ StoreOk(rows, nextVid, ops) /\ TxnInv
      /\ PENDING \in Nat /\ committed \in Nat /\ committed < PENDING /\ PENDING # 0
      /\ ops \in [Conns -> Seq(Op)]
  BY StoreInvOk
<1>3. \A d \in Conns : /\ Len(ops'[d]) <= Len(ops[d])
                       /\ \A i \in 1..Len(ops'[d]) : ops'[d][i] = ops[d][i]
  <2> TAKE d \in Conns
  <2>1. ops[d] \in Seq(Op)
    BY <1>2
  <2>2. CASE d \in C
    BY <1>1, <2>1, <2>2
  <2>3. CASE d \notin C
    BY <1>1, <2>1, <2>3
  <2> QED BY <2>2, <2>3
<1> DEFINE op2 == ops'
<1>4. /\ op2 \in [Conns -> Seq(Op)] /\ \A d \in Conns : d \notin C => op2[d] = ops[d]
      /\ \A d \in Conns : /\ Len(op2[d]) <= Len(ops[d])
                          /\ \A i \in 1..Len(op2[d]) : op2[d][i] = ops[d][i]
  BY <1>1, <1>3
<1> HIDE DEF op2
<1>5. StoreOk(Undone(C, op2, rows), nextVid, op2)
  BY <1>2, <1>4, UndoOk
<1>6. StoreOk(rows', nextVid, ops')
  BY <1>5 DEF op2
<1>7. RowsInv' /\ LogInv' /\ WalInv'
  BY <1>6 DEF StoreOk, RowsInv, LogInv, StoreInv, WalInv
<1>8. PendInv'
  <2>1. PendOk(rows', ops')
    BY <1>6 DEF StoreOk
  <2> QED BY <1>1, <2>1, EndedPending
<1> QED BY <1>1, <1>7, <1>8

\* ROLLBACK.
LEMMA RollbackInv == ASSUME StoreInv, NEW c \in Conns, Rollback(c) PROVE StoreInv'
<1>0. /\ pc[c] \in {"open", "writing"} /\ EndTxns({c})
      /\ pc[c] = "writing" => rows' = [t \in Tables |-> RolledBack(rows[t], owner[c])]
      /\ pc[c] # "writing" => rows' = rows
      /\ UNCHANGED <<nextVid, committed, nextOwner, queue, flush, wal>>
  BY DEF Rollback, pipeVars
<1>1. ops'[c] = <<>> /\ rows \in [Tables -> SUBSET Version] /\ PENDING \in Nat
  BY <1>0, StoreInvOk DEF EndTxns
<1> DEFINE op2 == ops'
<1>2. \A t, v, k : Lost({c}, op2, t, v, k) <=> (Stamp(v, k) = PENDING /\ v.owner = owner[c])
  <2>1. \A d \in {c} : op2[d] = <<>>
    BY <1>1
  <2> HIDE DEF op2
  <2> QED BY <2>1, LostAll
<1> HIDE DEF op2
<1>3. rows' = Undone({c}, op2, rows)
  <2>1. CASE pc[c] = "writing"
    <3> DEFINE me == owner[c]
    <3>1. ASSUME NEW t \in Tables PROVE RolledBack(rows[t], me) = Undone({c}, op2, rows)[t]
      <4> DEFINE K == {w \in rows[t] : ~(Mine(w, me) /\ w.create = PENDING)}
                 F(v) == IF Mine(v, me) /\ v.del = PENDING THEN [v EXCEPT !.del = 0, !.owner = 0] ELSE v
      <4>1. K = {w \in rows[t] : ~Lost({c}, op2, t, w, "insert")}
        BY <1>2 DEF Mine, Stamp
      <4>2. ASSUME NEW v \in K PROVE F(v) = Undo({c}, op2, t, v)
        <5>1. Lost({c}, op2, t, v, "delete") <=> (Mine(v, me) /\ v.del = PENDING)
          BY <1>2 DEF Mine, Stamp
        <5>2. CASE Mine(v, me) /\ v.del = PENDING
          BY <5>1, <5>2 DEF Undo
        <5>3. CASE ~(Mine(v, me) /\ v.del = PENDING)
          BY <5>1, <5>3 DEF Undo
        <5> QED BY <5>2, <5>3
      <4>3. RolledBack(rows[t], me) = {F(v) : v \in K}
        BY DEF RolledBack
      <4>4. {F(v) : v \in K} = {Undo({c}, op2, t, v) : v \in K}
        BY <4>2
      <4>5. Undone({c}, op2, rows)[t] = {Undo({c}, op2, t, v) : v \in K}
        BY <4>1 DEF Undone
      <4> QED BY <4>3, <4>4, <4>5
    <3>2. rows' = [t \in Tables |-> Undone({c}, op2, rows)[t]]
      BY <1>0, <2>1, <3>1
    <3> QED BY <3>2 DEF Undone
  <2>2. CASE pc[c] # "writing"
    <3>1. ASSUME NEW t \in Tables, NEW v \in rows[t], NEW k \in Kinds
          PROVE  ~Lost({c}, op2, t, v, k)
      <4> SUFFICES ASSUME Lost({c}, op2, t, v, k) PROVE FALSE
        OBVIOUS
      <4>1. Stamp(v, k) = PENDING /\ v.owner = owner[c]
        BY <1>2
      <4>2. PICK d \in Conns : Writing(d) /\ owner[d] = owner[c]
        BY <4>1 DEF StoreInv, PendInv, PendOk
      <4>3. d = c
        BY <1>0, <4>2 DEF StoreInv, TxnInv
      <4> QED BY <1>0, <2>2, <4>2, <4>3 DEF Writing
    <3>2. ASSUME NEW t \in Tables PROVE Undone({c}, op2, rows)[t] = rows[t]
      <4>1. {w \in rows[t] : ~Lost({c}, op2, t, w, "insert")} = rows[t]
        BY <3>1 DEF Kinds
      <4>2. \A v \in rows[t] : Undo({c}, op2, t, v) = v
        BY <3>1 DEF Undo, Kinds
      <4>3. Undone({c}, op2, rows)[t] = {Undo({c}, op2, t, v) : v \in rows[t]}
        BY <4>1 DEF Undone
      <4> QED BY <4>2, <4>3
    <3>3. rows = [t \in Tables |-> rows[t]]
      BY <1>1
    <3>4. rows = [t \in Tables |-> Undone({c}, op2, rows)[t]]
      BY <3>2, <3>3
    <3> QED BY <1>0, <2>2, <3>4 DEF Undone
  <2> QED BY <2>1, <2>2
<1>4. /\ TxnInv' /\ SaveInv' /\ RowsInv' /\ LogInv' /\ PendInv' /\ WalInv'
      /\ Unqueued' \subseteq Unqueued
      /\ \A d \in Conns : d # c => pc'[d] = pc[d] /\ ops'[d] = ops[d]
  <2>1. {c} \in SUBSET Conns
    OBVIOUS
  <2>2. rows' = Undone({c}, ops', rows)
    BY <1>3 DEF op2
  <2> QED BY <1>0, <2>1, <2>2, UndoEnds
<1>5. QueueInv'
  BY <1>0, <1>4, QueueSame DEF StoreInv
<1>6. LsnInv'
  BY <1>0, <1>4, EndedLsns
<1>7. TailInv'
  BY <1>0, <1>4, SameTail
<1> QED BY <1>4, <1>5, <1>6, <1>7 DEF StoreInv

\* The members of the batch, none of which is in the queue.
LEMMA BatchConns ==
    ASSUME StoreInv
    PROVE  /\ Range(flush.batch) \in SUBSET Conns
           /\ \A d : d \in Range(flush.batch) <=> \E i \in 1..Len(flush.batch) : flush.batch[i] = d
           /\ \A i \in 1..Len(queue) : queue[i] \in Conns /\ queue[i] \notin Range(flush.batch)
<1>1. flush.batch \in Seq(Conns) /\ queue \in Seq(Conns)
  BY DEF StoreInv, QueueInv
<1>2. \A d : d \in Range(flush.batch) <=> \E i \in 1..Len(flush.batch) : flush.batch[i] = d
  BY <1>1 DEF Range
<1>3. \A i \in 1..Len(flush.batch) : flush.batch[i] \in Conns
  BY <1>1
<1>4. \A i \in 1..Len(queue) : queue[i] \in Conns
  BY <1>1
<1>5. \A i \in 1..Len(queue), j \in 1..Len(flush.batch) : queue[i] # flush.batch[j]
  BY DEF StoreInv, QueueInv
<1> QED BY <1>2, <1>3, <1>4, <1>5

\* The queue when the batch is over.
LEMMA BatchOver ==
    ASSUME StoreInv, flush' = NoFlush, queue' = queue,
           \A d \in Conns : d \notin Range(flush.batch) => pc'[d] = pc[d]
    PROVE  QueueInv'
<1>1. \A i \in 1..Len(queue) : queue[i] \in Conns /\ queue[i] \notin Range(flush.batch)
  BY BatchConns
<1>2. \A i \in 1..Len(queue) : pc'[queue[i]] = "queued"
  BY <1>1 DEF StoreInv, QueueInv
<1>3. flush'.batch = <<>> /\ flush' \in [ok : BOOLEAN, batch : Seq(Conns)]
  BY DEF NoFlush
<1>4. Len(flush'.batch) = 0
  BY <1>3
<1> QED BY <1>2, <1>3, <1>4 DEF StoreInv, QueueInv

\* A failed append is rolled back.
LEMMA DiscardInv == ASSUME StoreInv, Discard PROVE StoreInv'
<1> DEFINE b == flush.batch
           C == Range(flush.batch)
           Doomed(v) == \E i \in 1..Len(b) : owner[b[i]] = v.owner
           op2 == ops'
<1>0. /\ ~flush.ok /\ EndTxns(C) /\ flush' = NoFlush
      /\ rows' = [t \in Tables |->
                     {v \in rows[t] : ~Doomed(v)} \cup
                     UNION {RolledBack({v \in rows[t] : Mine(v, owner[b[i]])},
                                       owner[b[i]]) : i \in 1..Len(b)}]
      /\ UNCHANGED <<nextVid, committed, nextOwner, queue, wal>>
  BY DEF Discard
<1>1. /\ C \in SUBSET Conns /\ \A d : d \in C <=> \E i \in 1..Len(b) : b[i] = d
  BY BatchConns
<1>2. \A t, v, k : Lost(C, op2, t, v, k) <=> (Stamp(v, k) = PENDING /\ Doomed(v))
  <2>1. \A d \in C : op2[d] = <<>>
    BY <1>0, <1>1 DEF EndTxns
  <2>2. \A v : Doomed(v) <=> \E d \in C : owner[d] = v.owner
    BY <1>1
  <2> HIDE DEF op2, Doomed, C
  <2> QED BY <2>1, <2>2, LostAll
<1> HIDE DEF op2
<1>3. ASSUME NEW t \in Tables PROVE rows'[t] = Undone(C, op2, rows)[t]
  <2> DEFINE G(i) == RolledBack({v \in rows[t] : Mine(v, owner[b[i]])}, owner[b[i]])
             A == {v \in rows[t] : ~Doomed(v)} \cup UNION {G(i) : i \in 1..Len(b)}
             K == {w \in rows[t] : ~Lost(C, op2, t, w, "insert")}
             B == {Undo(C, op2, t, v) : v \in K}
             Z(v) == [v EXCEPT !.del = 0, !.owner = 0]
  <2>1. rows'[t] = A
    BY <1>0
  <2>2. Undone(C, op2, rows)[t] = B
    BY DEF Undone
  <2>3. ASSUME NEW v \in rows[t], ~Doomed(v) PROVE v \in K /\ Undo(C, op2, t, v) = v
    BY <1>2, <2>3 DEF Undo
  <2>4. ASSUME NEW v \in rows[t], Doomed(v)
        PROVE  /\ v \in K <=> v.create # PENDING
               /\ v.create # PENDING /\ v.del = PENDING => Undo(C, op2, t, v) = Z(v)
               /\ v.create # PENDING /\ v.del # PENDING => Undo(C, op2, t, v) = v
    <3>1. Lost(C, op2, t, v, "insert") <=> v.create = PENDING
      BY <1>2, <2>4 DEF Stamp
    <3>2. Lost(C, op2, t, v, "delete") <=> v.del = PENDING
      BY <1>2, <2>4 DEF Stamp
    <3>3. v \in K <=> v.create # PENDING
      BY <3>1
    <3> HIDE DEF K, Doomed
    <3>4. v.create # PENDING /\ v.del = PENDING => Undo(C, op2, t, v) = Z(v)
      BY <3>2 DEF Undo
    <3>5. v.del # PENDING => Undo(C, op2, t, v) = v
      BY <3>2 DEF Undo
    <3> QED BY <3>3, <3>4, <3>5
  <2>5. ASSUME NEW i \in 1..Len(b), NEW u
        PROVE  u \in G(i) <=> \E v \in rows[t] : /\ v.owner = owner[b[i]] /\ v.create # PENDING
                                                 /\ u = IF v.del = PENDING THEN Z(v) ELSE v
    BY DEF RolledBack, Mine
  <2> HIDE DEF G, Z
  <2>6. ASSUME NEW u \in A PROVE u \in B
    <3>1. CASE u \in rows[t] /\ ~Doomed(u)
      BY <2>3, <3>1
    <3>2. ASSUME NEW i \in 1..Len(b), u \in G(i) PROVE u \in B
      <4>1. PICK v \in rows[t] : /\ v.owner = owner[b[i]] /\ v.create # PENDING
                                 /\ u = IF v.del = PENDING THEN Z(v) ELSE v
        BY <2>5, <3>2
      <4>2. Doomed(v)
        BY <4>1
      <4>3. v \in K /\ u = Undo(C, op2, t, v)
        BY <2>4, <4>1, <4>2
      <4> QED BY <4>3
    <3> QED BY <3>1, <3>2
  <2>7. ASSUME NEW v \in K PROVE Undo(C, op2, t, v) \in A
    <3>1. CASE ~Doomed(v)
      BY <2>3, <3>1
    <3>2. CASE Doomed(v)
      <4>1. PICK i \in 1..Len(b) : owner[b[i]] = v.owner
        BY <3>2
      <4>2. v.create # PENDING
        BY <2>4, <3>2
      <4>3. Undo(C, op2, t, v) = IF v.del = PENDING THEN Z(v) ELSE v
        BY <2>4, <3>2, <4>2
      <4>4. Undo(C, op2, t, v) \in G(i)
        BY <2>5, <4>1, <4>2, <4>3
      <4> QED BY <4>4
    <3> QED BY <3>1, <3>2
  <2> HIDE DEF A, K, Doomed, C
  <2>8. A = B
    BY <2>6, <2>7
  <2> QED BY <2>1, <2>2, <2>8
<1>4. rows' = Undone(C, op2, rows)
  <2>1. rows' = [t \in Tables |-> rows'[t]]
    BY <1>0
  <2>2. rows' = [t \in Tables |-> Undone(C, op2, rows)[t]]
    BY <1>3, <2>1
  <2> QED BY <2>2 DEF Undone
<1> HIDE DEF C
<1>5. /\ TxnInv' /\ SaveInv' /\ RowsInv' /\ LogInv' /\ PendInv' /\ WalInv'
      /\ Unqueued' \subseteq Unqueued
      /\ \A d \in Conns : d \notin C => pc'[d] = pc[d] /\ ops'[d] = ops[d]
  <2>1. rows' = Undone(C, ops', rows)
    BY <1>4 DEF op2
  <2> QED BY <1>0, <1>1, <2>1, UndoEnds
<1>6. QueueInv'
  BY <1>0, <1>5, BatchOver DEF C
<1>7. LsnInv'
  BY <1>0, <1>5, EndedLsns
<1>8. TailInv'
  <2>1. committed \in Nat /\ Len(wal) = committed
    BY <1>0, PendingIsAbove DEF StoreInv, TailInv
  <2> QED BY <1>0, <2>1 DEF TailInv, NoFlush
<1> QED BY <1>5, <1>6, <1>7, <1>8 DEF StoreInv

\* ROLLBACK TO keeps the ops before the savepoint.
LEMMA RollbackToInv ==
    ASSUME OneTable, StoreInv, NEW c \in Conns, RollbackTo(c)
    PROVE  StoreInv'
<1>0. /\ pc[c] \in {"open", "writing"}
      /\ UNCHANGED <<nextVid, committed, pc, snap, owner, nextOwner, queue, flush, wal>>
  BY DEF RollbackTo, pipeVars
<1>1. PICK at \in 1..Len(saves[c]) :
        /\ rows' = [t \in Tables |-> RolledBackTo(rows[t], owner[c], saves[c][at])]
        /\ ops' = [ops EXCEPT ![c] = SubSeq(@, 1, saves[c][at].len)]
        /\ saves' = [saves EXCEPT ![c] = SubSeq(@, 1, at)]
  BY DEF RollbackTo
<1> DEFINE sp == saves[c][at]
           n  == sp.len
           me == owner[c]
           op2 == ops'
<1>2. /\ StoreOk(rows, nextVid, ops) /\ TxnInv
      /\ PENDING \in Nat /\ committed \in Nat /\ committed < PENDING /\ PENDING # 0
      /\ ops \in [Conns -> Seq(Op)] /\ rows \in [Tables -> SUBSET Version]
  BY StoreInvOk
<1>3. /\ saves \in [Conns -> Seq(Save)] /\ saves[c] \in Seq(Save) /\ Len(saves[c]) \in Nat
      /\ sp \in Save /\ n \in Nat /\ n <= Len(ops[c]) /\ MaxSaves \in Nat
      /\ sp.ins = VidsIn(ops[c], n, "insert") /\ sp.del = VidsIn(ops[c], n, "delete")
  <2>1. saves \in [Conns -> Seq(Save)] /\ MaxSaves \in Nat
    BY StoreAssumption DEF StoreInv, SaveInv, SaveOk
  <2>2. saves[c] \in Seq(Save)
    BY <2>1
  <2>3. sp \in Save
    BY <2>2
  <2>4. n \in Nat
    BY <2>3 DEF Save
  <2> QED BY <2>1, <2>2, <2>3, <2>4 DEF StoreInv, SaveInv, SaveOk
<1>4. \A t, u \in Tables : t = u
  <2>1. Len(saves[c]) <= MaxSaves
    BY DEF StoreInv, SaveInv, SaveOk
  <2>2. MaxSaves # 0
    BY <1>3, <2>1
  <2> QED BY <2>2 DEF OneTable
<1>5. /\ op2 \in [Conns -> Seq(Op)] /\ op2[c] = SubSeq(ops[c], 1, n) /\ Len(op2[c]) = n
      /\ \A i \in 1..n : op2[c][i] = ops[c][i] /\ i \in 1..Len(ops[c])
      /\ \A d \in Conns : d # c => op2[d] = ops[d]
  <2>1. ops[c] \in Seq(Op) /\ Len(ops[c]) \in Nat
    BY <1>2
  <2>2. op2 = [ops EXCEPT ![c] = SubSeq(ops[c], 1, n)]
    BY <1>1
  <2>3. /\ SubSeq(ops[c], 1, n) \in Seq(Op) /\ Len(SubSeq(ops[c], 1, n)) = n
        /\ \A i \in 1..n : SubSeq(ops[c], 1, n)[i] = ops[c][i] /\ i \in 1..Len(ops[c])
    BY <1>3, <2>1
  <2> HIDE DEF op2, n
  <2> QED BY <1>2, <2>2, <2>3
<1> HIDE DEF op2, sp
<1>6. ASSUME NEW t \in Tables, NEW v \in rows[t], NEW k \in Kinds
      PROVE  Lost({c}, op2, t, v, k) <=> /\ Mine(v, me) /\ Stamp(v, k) = PENDING
                                         /\ v.vid \notin VidsIn(ops[c], n, k)
  <2>1. Lost({c}, op2, t, v, k) <=> /\ Mine(v, me) /\ Stamp(v, k) = PENDING
                                    /\ ~HasOp(op2[c], k, t, v)
    BY DEF Lost, Mine
  <2>2. ASSUME Mine(v, me), Stamp(v, k) = PENDING
        PROVE  HasOp(op2[c], k, t, v) <=> v.vid \in VidsIn(ops[c], n, k)
    <3>1. ASSUME HasOp(op2[c], k, t, v) PROVE v.vid \in VidsIn(ops[c], n, k)
      <4>1. PICK i \in 1..n : Logs(op2[c][i], k, t, v)
        BY <1>5, <3>1 DEF HasOp
      <4>2. ops[c][i].op = k /\ ops[c][i].vid = v.vid
        BY <1>5, <4>1 DEF Logs
      <4> QED BY <4>2 DEF VidsIn
    <3>2. ASSUME v.vid \in VidsIn(ops[c], n, k) PROVE HasOp(op2[c], k, t, v)
      <4>1. PICK j \in 1..n : ops[c][j].op = k /\ ops[c][j].vid = v.vid
        BY <3>2 DEF VidsIn
      <4>2. PICK d \in Conns : Writing(d) /\ owner[d] = me /\ HasOp(ops[d], k, t, v)
        BY <2>2 DEF StoreInv, PendInv, PendOk, Mine
      <4>3. d = c
        BY <1>0, <4>2 DEF StoreInv, TxnInv
      <4>4. PICK i \in 1..Len(ops[c]) : Logs(ops[c][i], k, t, v)
        BY <4>2, <4>3 DEF HasOp
      <4>5. ops[c][j].tab = t
        <5>1. j \in 1..Len(ops[c]) /\ ops[c] \in Seq(Op)
          BY <1>2, <1>5
        <5>2. ops[c][j] \in Op
          BY <5>1
        <5> QED BY <1>4, <5>2, OpFields
      <4>6. Same(ops[c][i], ops[c][j]) /\ j \in 1..Len(ops[c])
        BY <1>5, <4>1, <4>4, <4>5 DEF Same, Logs
      <4>7. i = j
        BY <4>6 DEF StoreInv, PendInv, PendOk, InOrder
      <4>8. Logs(op2[c][j], k, t, v) /\ j \in 1..Len(op2[c])
        BY <1>5, <4>4, <4>7
      <4> QED BY <4>8 DEF HasOp
    <3> QED BY <3>1, <3>2
  <2> QED BY <2>1, <2>2
<1>7. ASSUME NEW t \in Tables PROVE RolledBackTo(rows[t], me, sp) = Undone({c}, op2, rows)[t]
  <2> DEFINE Gone(v)    == Mine(v, me) /\ v.create = PENDING /\ v.vid \notin sp.ins
             Revived(v) == Mine(v, me) /\ v.del = PENDING /\ v.vid \notin sp.del
             K == {v \in rows[t] : ~Gone(v)}
             F(v) == IF Revived(v)
                     THEN [v EXCEPT !.del = 0, !.owner = IF v.create = PENDING THEN me ELSE 0]
                     ELSE v
  <2>1. \A v \in rows[t] : /\ Gone(v) <=> Lost({c}, op2, t, v, "insert")
                           /\ Revived(v) <=> Lost({c}, op2, t, v, "delete")
    BY <1>3, <1>6 DEF Kinds, Stamp
  <2>2. RolledBackTo(rows[t], me, sp) = {F(v) : v \in K}
    BY DEF RolledBackTo
  <2>3. ASSUME NEW v \in K PROVE F(v) = Undo({c}, op2, t, v)
    <3>1. CASE Revived(v)
      <4>1. Lost({c}, op2, t, v, "delete") /\ v.owner = me
        BY <2>1, <3>1 DEF Mine
      <4>2. F(v) = [v EXCEPT !.del = 0, !.owner = IF v.create = PENDING THEN me ELSE 0]
        BY <3>1
      <4> QED BY <4>1, <4>2 DEF Undo
    <3>2. CASE ~Revived(v)
      <4>1. ~Lost({c}, op2, t, v, "delete")
        BY <2>1, <3>2
      <4>2. F(v) = v
        BY <3>2
      <4> QED BY <4>1, <4>2 DEF Undo
    <3> QED BY <3>1, <3>2
  <2>4. K = {w \in rows[t] : ~Lost({c}, op2, t, w, "insert")}
    BY <2>1
  <2> HIDE DEF K, F
  <2>5. {F(v) : v \in K} = {Undo({c}, op2, t, v) : v \in K}
    BY <2>3
  <2>6. Undone({c}, op2, rows)[t] = {Undo({c}, op2, t, v) : v \in K}
    BY <2>4 DEF Undone
  <2> QED BY <2>2, <2>5, <2>6
<1>8. rows' = Undone({c}, op2, rows)
  <2>1. rows' = [t \in Tables |-> RolledBackTo(rows[t], me, sp)]
    BY <1>1 DEF sp
  <2>2. rows' = [t \in Tables |-> Undone({c}, op2, rows)[t]]
    BY <1>7, <2>1
  <2> QED BY <2>2 DEF Undone
<1>9. StoreOk(rows', nextVid, op2)
  <2>1. {c} \in SUBSET Conns
    OBVIOUS
  <2>2. \A d \in Conns : /\ Len(op2[d]) <= Len(ops[d])
                         /\ \A i \in 1..Len(op2[d]) : op2[d][i] = ops[d][i]
    <3> TAKE d \in Conns
    <3>1. CASE d = c
      BY <1>3, <1>5, <3>1
    <3>2. CASE d # c
      <4>1. ops[d] \in Seq(Op)
        BY <1>2
      <4> QED BY <1>5, <3>2, <4>1
    <3> QED BY <3>1, <3>2
  <2>3. \A d \in Conns : d \notin {c} => op2[d] = ops[d]
    BY <1>5
  <2>4. StoreOk(Undone({c}, op2, rows), nextVid, op2)
    BY <1>2, <1>5, <2>1, <2>2, <2>3, UndoOk
  <2> QED BY <1>8, <2>4
<1>10. RowsInv' /\ LogInv' /\ WalInv'
  BY <1>0, <1>9 DEF StoreOk, RowsInv, LogInv, StoreInv, WalInv, op2
<1>11. PendInv'
  <2>1. PendOk(rows', ops')
    BY <1>9 DEF StoreOk, op2
  <2> QED BY <1>0, <2>1 DEF PendInv, PendOk, Writing
<1>12. SaveInv'
  <2>1. /\ saves'[c] = SubSeq(saves[c], 1, at) /\ saves' \in [Conns -> Seq(Save)]
        /\ \A d \in Conns : d # c => saves'[d] = saves[d]
    BY <1>1, <1>3
  <2>2. /\ Len(saves'[c]) = at /\ Len(saves'[c]) <= Len(saves[c])
        /\ \A a \in 1..Len(saves'[c]) : a \in 1..Len(saves[c]) /\ saves'[c][a] = saves[c][a] /\ a <= at
    BY <1>3, <2>1
  <2>3. Len(saves[c]) <= MaxSaves
    BY DEF StoreInv, SaveInv, SaveOk
  <2>4. Len(saves'[c]) <= MaxSaves
    BY <1>3, <2>2, <2>3
  <2>5. ASSUME NEW m \in Nat, m <= n, NEW k PROVE VidsIn(op2[c], m, k) = VidsIn(ops[c], m, k)
    <3>1. \A i \in 1..m : op2[c][i] = ops[c][i]
      BY <1>3, <1>5, <2>5
    <3> QED BY <3>1 DEF VidsIn
  <2>6. ASSUME NEW a \in 1..Len(saves'[c])
        PROVE  /\ saves'[c][a].len <= Len(op2[c])
               /\ saves'[c][a].ins = VidsIn(op2[c], saves'[c][a].len, "insert")
               /\ saves'[c][a].del = VidsIn(op2[c], saves'[c][a].len, "delete")
    <3>1. a \in 1..Len(saves[c]) /\ saves'[c][a] = saves[c][a] /\ a <= at
      BY <2>2
    <3>2. saves[c][a] \in Save
      BY <1>3, <3>1
    <3>3. saves[c][a].len \in Nat
      BY <3>2 DEF Save
    <3>4. /\ saves[c][a].len <= n
          /\ saves[c][a].ins = VidsIn(ops[c], saves[c][a].len, "insert")
          /\ saves[c][a].del = VidsIn(ops[c], saves[c][a].len, "delete")
      BY <3>1 DEF StoreInv, SaveInv, SaveOk, sp
    <3> HIDE DEF n
    <3> QED BY <1>5, <2>5, <3>1, <3>3, <3>4
  <2>7. ASSUME NEW d \in Conns
        PROVE  Len(saves'[d]) <= MaxSaves /\ \A a \in 1..Len(saves'[d]) :
                 /\ saves'[d][a].len <= Len(op2[d])
                 /\ saves'[d][a].ins = VidsIn(op2[d], saves'[d][a].len, "insert")
                 /\ saves'[d][a].del = VidsIn(op2[d], saves'[d][a].len, "delete")
                 /\ \A b \in 1..Len(saves'[d]) : a <= b => saves'[d][a].len <= saves'[d][b].len
    <3>1. CASE d = c
      BY <2>2, <2>4, <2>6, <3>1 DEF StoreInv, SaveInv, SaveOk
    <3>2. CASE d # c
      BY ZenonT(30), <1>5, <2>1, <3>2 DEF StoreInv, SaveInv, SaveOk
    <3> QED BY <3>1, <3>2
  <2> QED BY <2>1, <2>7 DEF SaveInv, SaveOk, op2
<1>13. TxnInv'
  <2>1. ASSUME NEW d \in Conns, pc[d] \in {"idle", "open"} PROVE ops'[d] = <<>>
    <3>1. ops[d] = <<>>
      BY <2>1 DEF StoreInv, TxnInv
    <3>2. CASE d # c
      BY <1>5, <3>1, <3>2 DEF op2
    <3>3. CASE d = c
      <4>1. n = 0
        BY <1>3, <3>1, <3>3
      <4>2. op2[c] \in Seq(Op) /\ Len(op2[c]) = 0
        BY <1>5, <4>1
      <4>3. op2[c] = <<>>
        BY <4>2
      <4> QED BY <3>3, <4>3 DEF op2
    <3> QED BY <3>2, <3>3
  <2>2. ASSUME NEW d \in Conns, pc[d] = "idle" PROVE saves'[d] = <<>>
    <3>1. d # c
      BY <1>0, <2>2
    <3>2. saves'[d] = saves[d]
      BY <1>1, <1>3, <3>1
    <3> QED BY <2>2, <3>2 DEF StoreInv, TxnInv
  <2> QED BY <1>0, <2>1, <2>2 DEF StoreInv, TxnInv
<1>14. QueueInv' /\ LsnInv'
  BY <1>0, QueueSame DEF StoreInv, LsnInv, Unqueued
<1>15. TailInv'
  <2>1. \A d \in Conns : pc[d] = "queued" => ops'[d] = ops[d]
    BY <1>0, <1>5 DEF op2
  <2> QED BY <1>0, <2>1, SameTail
<1> QED BY <1>10, <1>11, <1>12, <1>13, <1>14, <1>15 DEF StoreInv

-----------------------------------------------------------------------------
(* The batch: appended to the log, then stamped with its LSNs.              *)

\* A version named by two ops is the same.
LEMMA HasOpOf ==
    ASSUME NEW s, NEW k, NEW t, NEW v, NEW o, HasOp(s, k, t, v),
           o.vid = v.vid, o.key = v.key, o.val = v.val
    PROVE  HasOp(s, k, t, o)
BY DEF HasOp, Logs

\* The elements of a concatenation.
LEMMA Concatenated ==
    ASSUME NEW S, NEW a \in Seq(S), NEW b \in Seq(S)
    PROVE  /\ a \o b \in Seq(S) /\ Len(a \o b) = Len(a) + Len(b)
           /\ \A i \in 1..Len(a) : (a \o b)[i] = a[i]
           /\ \A i \in 1..Len(b) : (a \o b)[Len(a) + i] = b[i]
OBVIOUS

\* The log with the first n queued transactions.
Appended(n) == wal \o [i \in 1..n |-> ops[queue[i]]]

\* The log when a batch is appended to it: still one insert and one delete per version.
LEMMA FlushWal ==
    ASSUME StoreInv, flush = NoFlush, NEW n \in 1..Len(queue), NEW w,
           w = Appended(n)
    PROVE  /\ w \in Seq(Seq(Op)) /\ Len(w) = committed + n
           /\ \A i \in 1..committed : w[i] = wal[i]
           /\ \A i \in 1..n : w[committed + i] = ops[queue[i]]
           /\ WalOk(w)
<1>0. /\ StoreOk(rows, nextVid, ops) /\ TxnInv
      /\ PENDING \in Nat /\ committed \in Nat /\ committed < PENDING
      /\ ops \in [Conns -> Seq(Op)]
  BY StoreInvOk
<1>1. /\ Len(wal) = committed /\ wal \in Seq(Seq(Op)) /\ queue \in Seq(Conns)
      /\ \A i \in 1..n : queue[i] \in Conns /\ Writing(queue[i]) /\ ops[queue[i]] \in Seq(Op)
      /\ n \in Nat
  <2>1. Len(wal) = committed
    BY <1>0 DEF StoreInv, TailInv, NoFlush
  <2>2. wal \in Seq(Seq(Op)) /\ queue \in Seq(Conns)
    BY DEF StoreInv, LogInv, LogOk, QueueInv
  <2>3. ASSUME NEW i \in 1..n PROVE queue[i] \in Conns /\ Writing(queue[i])
    <3>1. i \in 1..Len(queue)
      BY <2>2
    <3> QED BY <2>2, <3>1 DEF StoreInv, QueueInv, Writing
  <2> QED BY <1>0, <2>1, <2>2, <2>3
<1> HIDE DEF PENDING
<1>2. /\ w \in Seq(Seq(Op)) /\ Len(w) = committed + n
      /\ \A i \in 1..committed : w[i] = wal[i]
      /\ \A i \in 1..n : w[committed + i] = ops[queue[i]]
  <2> DEFINE q == [i \in 1..n |-> ops[queue[i]]]
  <2>1. q \in Seq(Seq(Op)) /\ Len(q) = n /\ \A i \in 1..n : q[i] = ops[queue[i]]
    BY <1>1
  <2>2. w = wal \o q
    BY DEF Appended
  <2> HIDE DEF q
  <2>3. /\ w \in Seq(Seq(Op)) /\ Len(w) = committed + n
        /\ \A i \in 1..committed : w[i] = wal[i]
        /\ \A i \in 1..n : w[committed + i] = q[i]
    <3> DEFINE S == Seq(Op)
    <3>1. wal \in Seq(S) /\ q \in Seq(S)
      BY <1>1, <2>1
    <3> HIDE DEF S
    <3>2. /\ wal \o q \in Seq(S) /\ Len(wal \o q) = Len(wal) + Len(q)
          /\ \A i \in 1..Len(wal) : (wal \o q)[i] = wal[i]
          /\ \A i \in 1..Len(q) : (wal \o q)[Len(wal) + i] = q[i]
      BY <3>1, Concatenated
    <3>3. Len(wal) = committed /\ Len(q) = n
      BY <1>1, <2>1
    <3>4. w \in Seq(S)
      BY <2>2, <3>2
    <3> QED BY <2>2, <3>2, <3>3, <3>4 DEF S
  <2> QED BY <2>1, <2>3
<1>3. ASSUME NEW i \in 1..Len(w)
      PROVE  \/ i \in 1..committed /\ w[i] = wal[i]
             \/ i - committed \in 1..n /\ w[i] = ops[queue[i - committed]]
                /\ i = committed + (i - committed)
  <2>1. i \in 1..committed \/ i - committed \in 1..n
    BY <1>0, <1>1, <1>2
  <2>2. CASE i - committed \in 1..n
    <3>1. i = committed + (i - committed)
      BY <1>0
    <3> QED BY <1>2, <2>2, <3>1
  <2> QED BY <1>2, <2>1, <2>2
<1>4. ASSUME NEW i \in 1..committed, NEW m \in 1..Len(wal[i])
      PROVE  \E v \in rows[wal[i][m].tab] : /\ Logs(wal[i][m], wal[i][m].op, wal[i][m].tab, v)
                                            /\ Stamp(v, wal[i][m].op) = i
  BY DEF StoreInv, LogInv, LogOk
<1>5. ASSUME NEW i \in 1..n, NEW m \in 1..Len(ops[queue[i]])
      PROVE  LET o == ops[queue[i]][m]
             IN  /\ o \in Op
                 /\ \E v \in rows[o.tab] : /\ Logs(o, o.op, o.tab, v) /\ Stamp(v, o.op) = PENDING
                                           /\ v.owner = owner[queue[i]]
  <2> DEFINE c == queue[i]
  <2>1. c \in Conns /\ Writing(c) /\ PendOk(rows, ops) /\ m \in 1..Len(ops[c])
    BY <1>0, <1>1 DEF StoreOk
  <2> HIDE DEF c
  <2>2. /\ ops[c][m] \in Op
        /\ \E v \in rows[ops[c][m].tab] :
              /\ Logs(ops[c][m], ops[c][m].op, ops[c][m].tab, v)
              /\ Stamp(v, ops[c][m].op) = PENDING /\ v.owner = owner[c]
    BY <2>1, OpVersion
  <2> QED BY <2>2 DEF c
<1>6. ASSUME NEW t \in Tables, NEW v \in rows[t], NEW u \in rows[t], v.vid = u.vid PROVE v = u
  BY <1>6 DEF StoreInv, RowsInv, RowsOk
<1>7. ASSUME NEW d \in Conns, NEW i \in 1..n, owner[d] = owner[queue[i]] PROVE d = queue[i]
  <2>1. owner[queue[i]] # 0
    BY <1>0, <1>1 DEF TxnInv, Writing
  <2> QED BY <1>0, <1>1, <1>7, <2>1 DEF TxnInv
<1>8. ASSUME NEW i \in 1..Len(w), NEW j \in 1..Len(w), NEW m \in 1..Len(w[i]),
             NEW p \in 1..Len(w[j]), Same(w[i][m], w[j][p])
      PROVE  i = j /\ m = p
  <2>0. w[i][m] \in Op /\ w[j][p] \in Op
    <3>1. w[i] \in Seq(Op) /\ w[j] \in Seq(Op)
      BY <1>2
    <3> QED BY <3>1
  <2>1. CASE i \in 1..committed /\ w[i] = wal[i] /\ j \in 1..committed /\ w[j] = wal[j]
    BY <1>1, <1>8, <2>1 DEF StoreInv, WalInv, WalOk
  <2>2. ASSUME NEW i1 \in 1..committed, NEW m1 \in 1..Len(wal[i1]), NEW j1 \in 1..n,
               NEW p1 \in 1..Len(ops[queue[j1]]), Same(wal[i1][m1], ops[queue[j1]][p1])
        PROVE  FALSE
    <3> DEFINE o == wal[i1][m1]
               r == ops[queue[j1]][p1]
    <3>1. PICK v \in rows[o.tab] : Logs(o, o.op, o.tab, v) /\ Stamp(v, o.op) = i1
      BY <1>4
    <3>2. r \in Op
      BY <1>5
    <3>3. PICK u \in rows[r.tab] : Logs(r, r.op, r.tab, u) /\ Stamp(u, r.op) = PENDING
      BY <1>5
    <3>4. o.op = r.op /\ o.tab = r.tab /\ o.vid = r.vid /\ r.tab \in Tables
      BY <2>2, <3>2, OpFields DEF Same
    <3> HIDE DEF o, r
    <3>5. v = u
      BY <1>6, <3>1, <3>3, <3>4 DEF Logs
    <3>6. i1 = PENDING
      BY <3>1, <3>3, <3>4, <3>5
    <3> QED BY <1>0, <3>6
  <2>3. CASE i \in 1..committed /\ w[i] = wal[i] /\ j - committed \in 1..n
             /\ w[j] = ops[queue[j - committed]]
    BY <1>8, <2>2, <2>3
  <2>4. CASE j \in 1..committed /\ w[j] = wal[j] /\ i - committed \in 1..n
             /\ w[i] = ops[queue[i - committed]]
    <3>1. Same(w[j][p], w[i][m])
      BY <1>8 DEF Same
    <3> QED BY <2>2, <2>4, <3>1
  <2>5. ASSUME NEW i1 \in 1..n, NEW j1 \in 1..n, i = committed + i1, j = committed + j1
        PROVE  i = j /\ m = p
    <3> DEFINE o == ops[queue[i1]][m]
               r == ops[queue[j1]][p]
    <3>1. w[i] = ops[queue[i1]] /\ w[j] = ops[queue[j1]] /\ Same(o, r)
      BY <1>2, <1>8, <2>5
    <3>2. r \in Op
      BY <1>5, <3>1
    <3>3. PICK v \in rows[o.tab] : Logs(o, o.op, o.tab, v) /\ v.owner = owner[queue[i1]]
      BY <1>5, <3>1
    <3>4. PICK u \in rows[r.tab] : Logs(r, r.op, r.tab, u) /\ u.owner = owner[queue[j1]]
      BY <1>5, <3>1
    <3>5. o.op = r.op /\ o.tab = r.tab /\ o.vid = r.vid /\ r.tab \in Tables
      BY <3>1, <3>2, OpFields DEF Same
    <3> HIDE DEF o, r
    <3>6. v = u
      BY ZenonT(30), <1>6, <3>3, <3>4, <3>5 DEF Logs
    <3>7. queue[i1] = queue[j1]
      BY <1>1, <1>7, <3>3, <3>4, <3>6
    <3>8. i1 = j1
      <4>1. i1 \in 1..Len(queue) /\ j1 \in 1..Len(queue)
        BY <1>1
      <4> QED BY <3>7, <4>1 DEF StoreInv, QueueInv
    <3>9. InOrder(ops[queue[i1]])
      BY <1>0, <1>1 DEF StoreOk, PendOk
    <3>10. m = p
      BY <3>1, <3>8, <3>9 DEF InOrder, o, r
    <3> QED BY <2>5, <3>8, <3>10
  <2> QED BY <1>3, <2>1, <2>3, <2>4, <2>5
<1>9. ASSUME NEW i \in 1..Len(w), NEW m \in 1..Len(w[i]), w[i][m].op = "delete"
      PROVE  \E j \in 1..i : HasOp(w[j], "insert", w[i][m].tab, w[i][m])
  <2>0. \A j \in 1..committed : j \in 1..Len(w) /\ w[j] = wal[j]
    BY <1>0, <1>1, <1>2
  <2>1. CASE i \in 1..committed /\ w[i] = wal[i]
    <3>1. PICK j \in 1..i : HasOp(wal[j], "insert", wal[i][m].tab, wal[i][m])
      BY <1>1, <1>9, <2>1 DEF StoreInv, WalInv, WalOk
    <3>2. j \in 1..committed
      BY <1>0, <2>1, <3>1
    <3> QED BY <2>0, <2>1, <3>1, <3>2
  <2>2. CASE i - committed \in 1..n /\ w[i] = ops[queue[i - committed]]
    <3> DEFINE c == queue[i - committed]
               o == ops[c][m]
               t == o.tab
    <3>1. w[i] = ops[c] /\ c \in Conns
      BY <1>1, <2>2
    <3>2. o \in Op
      BY <1>5, <2>2
    <3>3. PICK v \in rows[t] : Logs(o, o.op, t, v) /\ v.owner = owner[c]
      BY <1>5, <2>2
    <3>4. t \in Tables
      BY <3>2, OpFields
    <3>5. v.create \in (1..committed) \cup {PENDING}
      BY <3>4 DEF StoreInv, RowsInv, RowsOk
    <3>6. "insert" \in Kinds /\ Stamp(v, "insert") = v.create
      BY DEF Kinds, Stamp
    <3>7. o.vid = v.vid /\ o.key = v.key /\ o.val = v.val
      BY <3>3 DEF Logs
    <3>8. CASE v.create \in 1..committed
      <4>1. HasOp(wal[v.create], "insert", t, v)
        BY SMTT(30), <3>4, <3>6, <3>8 DEF StoreInv, LogInv, LogOk
      <4>2. HasOp(wal[v.create], "insert", t, o)
        BY <3>7, <4>1, HasOpOf
      <4>3. v.create \in 1..i
        <5>0. Len(w) \in Nat /\ i \in Nat
          BY <1>2
        <5>1. i > committed /\ i \in Nat
          BY <1>0, <2>2, <5>0
        <5> QED BY <1>0, <3>8, <5>1
      <4> QED BY <2>0, <3>1, <3>8, <4>2, <4>3
    <3>9. CASE v.create = PENDING
      <4>1. PICK d \in Conns : owner[d] = v.owner /\ HasOp(ops[d], "insert", t, v)
        BY <3>4, <3>6, <3>9 DEF StoreInv, PendInv, PendOk
      <4>2. d = c
        BY <1>7, <2>2, <3>3, <4>1
      <4>3. HasOp(ops[c], "insert", t, o)
        BY <3>7, <4>1, <4>2, HasOpOf
      <4>4. i \in 1..i
        BY <1>2
      <4> QED BY <3>1, <4>3, <4>4
    <3> QED BY <3>5, <3>8, <3>9
  <2> QED BY <1>3, <2>1, <2>2
<1> QED BY <1>2, <1>8, <1>9 DEF WalOk

\* An append makes a prefix of the queue durable before it is published.
LEMMA FlushInv == ASSUME StoreInv, FlushBatch PROVE StoreInv'
<1>0. flush = NoFlush /\ UNCHANGED <<rows, nextVid, committed, pc, snap, owner, ops, saves, nextOwner>>
  BY DEF FlushBatch, storeVars, txnVars
<1>1. PICK n \in 1..Len(queue) :
        /\ queue' = SubSeq(queue, n + 1, Len(queue))
        /\ \/ /\ flush' = [ok |-> TRUE, batch |-> SubSeq(queue, 1, n)]
              /\ wal' = wal \o [i \in 1..n |-> ops[SubSeq(queue, 1, n)[i]]]
           \/ /\ flush' = [ok |-> FALSE, batch |-> SubSeq(queue, 1, n)]
              /\ UNCHANGED wal
  BY DEF FlushBatch
<1>2. /\ queue \in Seq(Conns) /\ Len(queue) \in Nat /\ n \in Nat /\ n <= Len(queue)
      /\ committed \in Nat /\ Len(wal) = committed
  <2>1. queue \in Seq(Conns)
    BY DEF StoreInv, QueueInv
  <2>2. committed \in Nat /\ Len(wal) = committed
    BY <1>0, PendingIsAbove DEF StoreInv, TailInv, NoFlush
  <2> QED BY <2>1, <2>2
<1> DEFINE b == SubSeq(queue, 1, n)
<1>3. /\ b \in Seq(Conns) /\ Len(b) = n /\ \A i \in 1..n : b[i] = queue[i] /\ i \in 1..Len(queue)
  BY <1>2
<1>4. /\ queue' \in Seq(Conns) /\ Len(queue') = Len(queue) - n
      /\ \A i \in 1..Len(queue') : queue'[i] = queue[n + i] /\ n + i \in 1..Len(queue) /\ n + i > n
  BY SMTT(30), <1>1, <1>2
<1>5. flush'.batch = b /\ flush'.ok \in BOOLEAN /\ flush' \in [ok : BOOLEAN, batch : Seq(Conns)]
  <2>1. flush' = [ok |-> TRUE, batch |-> b] \/ flush' = [ok |-> FALSE, batch |-> b]
    BY <1>1
  <2>2. b \in Seq(Conns)
    BY <1>3
  <2> HIDE DEF b
  <2>3. CASE flush' = [ok |-> TRUE, batch |-> b]
    BY <2>2, <2>3
  <2>4. CASE flush' = [ok |-> FALSE, batch |-> b]
    BY <2>2, <2>4
  <2> QED BY <2>1, <2>3, <2>4
<1>6. [i \in 1..n |-> ops[b[i]]] = [i \in 1..n |-> ops[queue[i]]]
  BY <1>3
<1> HIDE DEF b
<1>7. TxnInv' /\ RowsInv' /\ SaveInv'
  BY <1>0 DEF StoreInv, TxnInv, RowsInv, SaveInv
<1>8. PendInv'
  BY <1>0, SamePending DEF Writing
<1>9. QueueInv'
  <2>1. \A i \in 1..Len(queue) : pc[queue[i]] = "queued"
    BY DEF StoreInv, QueueInv
  <2>2. \A i, j \in 1..Len(queue) : queue[i] = queue[j] => i = j
    BY DEF StoreInv, QueueInv
  <2>3. \A i \in 1..Len(queue') : pc[queue'[i]] = "queued"
    BY <1>4, <2>1
  <2>4. \A i \in 1..n : pc[b[i]] = "queued"
    BY <1>3, <2>1
  <2>5. ASSUME NEW i \in 1..Len(queue'), NEW j \in 1..Len(queue'), queue'[i] = queue'[j]
        PROVE  i = j
    <3>1. n + i = n + j
      BY <1>4, <2>2, <2>5
    <3> QED BY <1>2, <3>1
  <2>6. \A i, j \in 1..n : b[i] = b[j] => i = j
    BY <1>3, <2>2
  <2>7. ASSUME NEW i \in 1..Len(queue'), NEW j \in 1..n PROVE queue'[i] # b[j]
    <3>1. queue'[i] = queue[n + i] /\ n + i \in 1..Len(queue) /\ b[j] = queue[j] /\ j \in 1..Len(queue)
      BY <1>3, <1>4
    <3>2. n + i # j
      BY <1>2
    <3> QED BY <2>2, <3>1, <3>2
  <2> QED BY <1>0, <1>3, <1>4, <1>5, <2>3, <2>4, <2>5, <2>6, <2>7 DEF QueueInv
<1>10. ASSUME NEW x, x = Cardinality(Unqueued), Len(wal') + Len(queue') <= Len(wal) + Len(queue),
              Len(wal') \in Nat
       PROVE  LsnInv'
  <2>1. Unqueued' = Unqueued
    BY <1>0 DEF Unqueued
  <2>2. x \in Nat
    <3>1. Unqueued \in SUBSET Conns
      BY DEF Unqueued
    <3> QED BY <1>10, <3>1, FewerConns
  <2>3. Len(wal) + Len(queue) + x < nextOwner /\ nextOwner <= PENDING /\ nextOwner \in Nat
    BY <1>10 DEF StoreInv, LsnInv, TxnInv
  <2>4. Len(queue') \in Nat
    BY <1>4
  <2>5. Len(wal') + Len(queue') + x < nextOwner
    BY <1>2, <1>10, <2>2, <2>3, <2>4
  <2> QED BY <1>0, <1>10, <2>1, <2>3, <2>5 DEF LsnInv, PENDING
<1>11. CASE /\ flush' = [ok |-> TRUE, batch |-> b]
            /\ wal' = wal \o [i \in 1..n |-> ops[b[i]]]
  <2>1. /\ wal' \in Seq(Seq(Op)) /\ Len(wal') = committed + n
        /\ \A i \in 1..committed : wal'[i] = wal[i]
        /\ \A i \in 1..n : wal'[committed + i] = ops[queue[i]]
        /\ WalOk(wal')
    <3> DEFINE w == Appended(n)
    <3>1. w = wal'
      BY <1>6, <1>11 DEF Appended
    <3>2. /\ w \in Seq(Seq(Op)) /\ Len(w) = committed + n
          /\ \A i \in 1..committed : w[i] = wal[i]
          /\ \A i \in 1..n : w[committed + i] = ops[queue[i]]
          /\ WalOk(w)
      <4>1. \A y : y = w => /\ y \in Seq(Seq(Op)) /\ Len(y) = committed + n
                            /\ \A i \in 1..committed : y[i] = wal[i]
                            /\ \A i \in 1..n : y[committed + i] = ops[queue[i]]
                            /\ WalOk(y)
        BY <1>0, FlushWal
      <4> HIDE DEF w
      <4> QED BY <4>1
    <3> HIDE DEF w
    <3> QED BY <3>1, <3>2
  <2>2. LsnInv'
    <3>1. Len(wal') + Len(queue') <= Len(wal) + Len(queue) /\ Len(wal') \in Nat
      BY <1>2, <1>4, <2>1
    <3> QED BY <1>10, <3>1
  <2>3. LogInv'
    <3>1. LogOk(rows, wal, committed)
      BY DEF StoreInv, LogInv
    <3>2. committed \in 0..Len(wal')
      BY <1>2, <2>1
    <3>3. LogOk(rows, wal', committed)
      BY <2>1, <3>1, <3>2 DEF LogOk
    <3> QED BY <1>0, <3>3 DEF LogInv
  <2>4. TailInv'
    <3>1. flush'.ok /\ flush'.batch = b
      BY <1>11
    <3> QED BY <1>0, <1>3, <2>1, <3>1 DEF TailInv
  <2>5. WalInv'
    BY <2>1 DEF WalInv
  <2> QED BY <1>7, <1>8, <1>9, <2>2, <2>3, <2>4, <2>5 DEF StoreInv
<1>12. CASE /\ flush' = [ok |-> FALSE, batch |-> b]
            /\ UNCHANGED wal
  <2>1. LsnInv'
    <3>1. Len(wal') + Len(queue') <= Len(wal) + Len(queue) /\ Len(wal') \in Nat
      BY <1>2, <1>4, <1>12
    <3> QED BY <1>10, <3>1
  <2>2. LogInv' /\ WalInv'
    BY <1>0, <1>12, SameStore
  <2>3. TailInv'
    BY <1>0, <1>2, <1>12 DEF TailInv
  <2> QED BY <1>7, <1>8, <1>9, <2>1, <2>2, <2>3 DEF StoreInv
<1> QED BY <1>1, <1>11, <1>12 DEF b

\* What stamping makes of a version: the ops of the i-th transaction of the
\* batch get its LSN, committed + i.
Stamped(v, u) ==
    /\ u \in Version /\ u.vid = v.vid /\ u.key = v.key /\ u.val = v.val
    /\ (\A i \in 1..Len(flush.batch) : owner[flush.batch[i]] # v.owner) => u = v
    /\ \A i \in 1..Len(flush.batch) : owner[flush.batch[i]] = v.owner =>
          /\ u.owner = 0
          /\ \A k \in Kinds : Stamp(u, k) = IF Stamp(v, k) = PENDING THEN committed + i
                                            ELSE Stamp(v, k)

\* What publishing a transaction at an LSN does to the stamps of a version.
LEMMA PublishRows ==
    ASSUME StoreInv, flush.ok, flush # NoFlush, Publish
    PROVE  /\ rows' \in [Tables -> SUBSET Version]
           /\ \A t \in Tables : \A u \in rows'[t] : \E v \in rows[t] : Stamped(v, u)
           /\ \A t \in Tables : \A v \in rows[t] : \E u \in rows'[t] : Stamped(v, u)
<1> DEFINE b == flush.batch
           At(v) == {i \in 1..Len(b) : owner[b[i]] = v.owner}
           G(v) == IF At(v) = {} THEN v ELSE Finalized(v, CommitLsn(b, Max(At(v))))
<1>0. rows' = [t \in Tables |-> {G(v) : v \in rows[t]}]
  BY DEF Publish
<1>1. /\ b \in Seq(Conns) /\ Len(b) \in Nat /\ committed \in Nat /\ PENDING \in Nat
      /\ Len(wal) = committed + Len(b) /\ Len(wal) < PENDING
      /\ rows \in [Tables -> SUBSET Version]
  <2>1. b \in Seq(Conns)
    BY DEF StoreInv, QueueInv
  <2> QED BY <2>1, PendingIsAbove, StoreInvOk DEF StoreInv, TailInv
<1>2. ASSUME NEW v, NEW i \in At(v), NEW j \in At(v) PROVE i = j
  <2>1. b[i] \in Conns /\ b[j] \in Conns /\ pc[b[i]] = "queued" /\ owner[b[i]] = owner[b[j]]
    BY <1>1 DEF StoreInv, QueueInv
  <2>2. b[i] = b[j]
    BY <2>1 DEF StoreInv, TxnInv
  <2> QED BY <2>2 DEF StoreInv, QueueInv
<1>3. ASSUME NEW v, NEW i \in At(v) PROVE Max(At(v)) = i /\ CommitLsn(b, i) = committed + i
  <2> DEFINE T == At(v)
  <2>1. T \subseteq Nat /\ T # {} /\ \A x \in T : x <= Len(b)
    BY <1>1
  <2>2. Max(T) \in T
    <3> HIDE DEF T
    <3> QED BY <1>1, <2>1, MaxOfBounded
  <2>3. Max(T) = i
    BY <1>2, <2>2
  <2>4. CommitLsn(b, i) = committed + i
    BY <1>1 DEF CommitLsn
  <2> QED BY <2>3, <2>4
<1> HIDE DEF PENDING
<1>4. ASSUME NEW v \in Version PROVE Stamped(v, G(v))
  <2>1. CASE At(v) = {}
    <3>1. \A i \in 1..Len(b) : owner[b[i]] # v.owner
      BY <2>1
    <3>2. G(v) = v
      BY <2>1
    <3> QED BY <3>1, <3>2 DEF Stamped
  <2>2. CASE At(v) # {}
    <3>1. PICK i \in At(v) : TRUE
      BY <2>2
    <3> DEFINE l == committed + i
               u == Finalized(v, l)
    <3>2. G(v) = u
      BY <1>3, <2>2, <3>1
    <3>3. l \in 0..PENDING
      BY <1>1
    <3>4. v.create \in 0..PENDING /\ v.del \in 0..PENDING
      BY VersionFields
    <3> HIDE DEF l
    <3>5. /\ u \in Version /\ u.vid = v.vid /\ u.key = v.key /\ u.val = v.val /\ u.owner = 0
          /\ u.create = IF v.create = PENDING THEN l ELSE v.create
          /\ u.del = IF v.del = PENDING THEN l ELSE v.del
      BY <3>3, <3>4 DEF Finalized, Version
    <3> HIDE DEF u
    <3>6. \A k \in Kinds : Stamp(u, k) = IF Stamp(v, k) = PENDING THEN l ELSE Stamp(v, k)
      BY <3>5 DEF Stamp
    <3>7. \A j \in 1..Len(b) : owner[b[j]] = v.owner => j = i
      BY <1>2
    <3>8. i \in 1..Len(b) /\ owner[b[i]] = v.owner
      OBVIOUS
    <3>9. Stamped(v, u)
      BY <3>5, <3>6, <3>7, <3>8 DEF Stamped, l
    <3> QED BY <3>2, <3>9
  <2> QED BY <2>1, <2>2
<1> HIDE DEF G
<1>5. \A t \in Tables : \A v \in rows[t] : G(v) \in Version /\ Stamped(v, G(v))
  BY <1>1, <1>4 DEF Stamped
<1> QED BY <1>0, <1>5

\* The batch becomes visible.
LEMMA PublishInv == ASSUME StoreInv, Publish PROVE StoreInv'
<1> DEFINE b == flush.batch
           C == Range(flush.batch)
<1>0. /\ flush # NoFlush /\ flush.ok /\ committed' = Len(wal) /\ EndTxns(C) /\ flush' = NoFlush
      /\ UNCHANGED <<nextVid, nextOwner, queue, wal>>
  BY DEF Publish
<1>1. /\ b \in Seq(Conns) /\ Len(b) \in Nat /\ committed \in Nat /\ PENDING \in Nat
      /\ Len(wal) = committed + Len(b) /\ Len(wal) < PENDING /\ Len(wal) \in Nat /\ PENDING # 0
      /\ rows \in [Tables -> SUBSET Version] /\ nextVid \in [Tables -> Nat \ {0}]
      /\ wal \in Seq(Seq(Op)) /\ ops \in [Conns -> Seq(Op)]
      /\ \A i \in 1..Len(b) : wal[committed + i] = ops[b[i]]
  <2>1. b \in Seq(Conns)
    BY DEF StoreInv, QueueInv
  <2>2. Len(wal) = committed + Len(b) /\ \A i \in 1..Len(b) : wal[committed + i] = ops[b[i]]
    BY <1>0 DEF StoreInv, TailInv
  <2>3. wal \in Seq(Seq(Op))
    BY DEF StoreInv, LogInv, LogOk
  <2> QED BY <2>1, <2>2, <2>3, PendingIsAbove, StoreInvOk
<1>2. /\ C \in SUBSET Conns /\ \A d : d \in C <=> \E i \in 1..Len(b) : b[i] = d
  BY BatchConns
<1>3. /\ TxnInv' /\ SaveInv' /\ Unqueued' \subseteq Unqueued /\ ops' \in [Conns -> Seq(Op)]
      /\ \A c \in Conns : /\ c \in C => pc'[c] = "idle" /\ owner'[c] = 0 /\ ops'[c] = <<>>
                          /\ c \notin C => /\ pc'[c] = pc[c] /\ owner'[c] = owner[c]
                                           /\ ops'[c] = ops[c]
  BY <1>0, <1>2, EndedTxns
<1>4. /\ rows' \in [Tables -> SUBSET Version]
      /\ \A t \in Tables : \A u \in rows'[t] : \E v \in rows[t] : Stamped(v, u)
      /\ \A t \in Tables : \A v \in rows[t] : \E u \in rows'[t] : Stamped(v, u)
  BY <1>0, PublishRows
<1>5. ASSUME NEW i \in 1..Len(b)
      PROVE  /\ b[i] \in Conns /\ Writing(b[i]) /\ owner[b[i]] # 0
             /\ \A d \in Conns : owner[d] = owner[b[i]] => d = b[i]
             /\ committed + i \in 1..Len(wal) /\ committed + i # PENDING /\ committed + i # 0
  <2>1. b[i] \in Conns /\ pc[b[i]] = "queued"
    BY <1>1 DEF StoreInv, QueueInv
  <2>2. owner[b[i]] # 0
    BY <2>1 DEF StoreInv, TxnInv
  <2>3. \A d \in Conns : owner[d] = owner[b[i]] => d = b[i]
    BY <2>1, <2>2 DEF StoreInv, TxnInv
  <2>4. committed + i \in 1..Len(wal) /\ committed + i < PENDING
    <3> HIDE DEF PENDING
    <3> QED BY <1>1
  <2> HIDE DEF PENDING
  <2> QED BY SMTT(30), <1>1, <2>1, <2>2, <2>3, <2>4 DEF Writing
<1> HIDE DEF PENDING, C
<1>6. ASSUME NEW v, NEW u, Stamped(v, u)
      PROVE  \/ (\A i \in 1..Len(b) : owner[b[i]] # v.owner) /\ u = v
             \/ \E i \in 1..Len(b) :
                   /\ owner[b[i]] = v.owner /\ u.owner = 0
                   /\ \A k \in Kinds : Stamp(u, k) = IF Stamp(v, k) = PENDING THEN committed + i
                                                     ELSE Stamp(v, k)
  BY <1>6 DEF Stamped
<1>7. "insert" \in Kinds /\ "delete" \in Kinds
      /\ \A v : Stamp(v, "insert") = v.create /\ Stamp(v, "delete") = v.del
  BY DEF Kinds, Stamp
<1>8. RowsOk(rows', nextVid, Len(wal))
  <2>1. ASSUME NEW t \in Tables, NEW u \in rows'[t]
        PROVE  /\ u.vid < nextVid[t]
               /\ u.create \in (1..Len(wal)) \cup {PENDING} /\ u.del \in (0..Len(wal)) \cup {PENDING}
               /\ u.create # PENDING /\ u.del # PENDING => u.owner = 0
               /\ u.create = PENDING => u.del \in {0, PENDING}
    <3>1. PICK v \in rows[t] : Stamped(v, u)
      BY <1>4
    <3>2. /\ v.vid < nextVid[t]
          /\ v.create \in (1..committed) \cup {PENDING} /\ v.del \in (0..committed) \cup {PENDING}
          /\ v.create # PENDING /\ v.del # PENDING => v.owner = 0
          /\ v.create = PENDING => v.del \in {0, PENDING}
      BY DEF StoreInv, RowsInv, RowsOk
    <3>3. /\ v.create \in (1..Len(wal)) \cup {PENDING} /\ v.del \in (0..Len(wal)) \cup {PENDING}
      BY SMTT(30), <1>1, <3>2
    <3>4. u.vid = v.vid
      BY <3>1 DEF Stamped
    <3>5. CASE u = v
      BY <3>2, <3>3, <3>5
    <3>6. ASSUME NEW i \in 1..Len(b), u.owner = 0,
                 \A k \in Kinds : Stamp(u, k) = IF Stamp(v, k) = PENDING THEN committed + i
                                                ELSE Stamp(v, k)
          PROVE  /\ u.create \in 1..Len(wal) /\ u.del \in 0..Len(wal)
                 /\ u.create # PENDING /\ u.owner = 0
      <4>1. committed + i \in 1..Len(wal)
        BY <1>5
      <4>2. /\ u.create = IF v.create = PENDING THEN committed + i ELSE v.create
            /\ u.del = IF v.del = PENDING THEN committed + i ELSE v.del
        BY <1>7, <3>6
      <4>3. u.create \in 1..Len(wal) /\ u.del \in 0..Len(wal)
        BY SMTT(30), <1>1, <3>3, <4>1, <4>2
      <4> QED BY SMTT(30), <1>1, <3>6, <4>3
    <3> QED BY <1>6, <3>1, <3>2, <3>4, <3>5, <3>6
  <2>2. ASSUME NEW t \in Tables, NEW u \in rows'[t], NEW z \in rows'[t], u.vid = z.vid PROVE u = z
    <3>1. PICK v \in rows[t] : Stamped(v, u)
      BY <1>4
    <3>2. PICK y \in rows[t] : Stamped(y, z)
      BY <1>4
    <3>3. v.vid = y.vid
      BY <2>2, <3>1, <3>2 DEF Stamped
    <3>4. v = y
      BY <3>3 DEF StoreInv, RowsInv, RowsOk
    <3>5. CASE \A i \in 1..Len(b) : owner[b[i]] # v.owner
      BY <3>1, <3>2, <3>4, <3>5 DEF Stamped
    <3>6. ASSUME NEW i \in 1..Len(b), owner[b[i]] = v.owner PROVE u = z
      <4>1. u.owner = z.owner /\ \A k \in Kinds : Stamp(u, k) = Stamp(z, k)
        BY <3>1, <3>2, <3>4, <3>6 DEF Stamped
      <4>2. /\ u \in Version /\ z \in Version /\ u.vid = z.vid /\ u.key = z.key /\ u.val = z.val
            /\ u.create = z.create /\ u.del = z.del /\ u.owner = z.owner
        BY <1>7, <3>1, <3>2, <3>4, <4>1 DEF Stamped
      <4> QED BY <4>2 DEF Version
    <3> QED BY <3>5, <3>6
  <2> QED BY <1>1, <1>4, <2>1, <2>2 DEF RowsOk
<1>9. LogOk(rows', wal, Len(wal))
  <2>1. ASSUME NEW t \in Tables, NEW u \in rows'[t], NEW k \in Kinds, Stamp(u, k) \in 1..Len(wal)
        PROVE  HasOp(wal[Stamp(u, k)], k, t, u)
    <3>1. PICK v \in rows[t] : Stamped(v, u)
      BY <1>4
    <3>2. v.vid = u.vid /\ v.key = u.key /\ v.val = u.val
      BY <3>1 DEF Stamped
    <3>3. Stamp(u, k) # PENDING
      BY <1>1, <2>1
    <3>4. HasOp(wal[Stamp(u, k)], k, t, v)
      <4>1. CASE Stamp(u, k) = Stamp(v, k)
        <5>1. Stamp(v, k) \in (0..committed) \cup {PENDING}
          BY <1>1, <1>7 DEF StoreInv, RowsInv, RowsOk, Stamp
        <5>2. Stamp(v, k) \in 1..committed
          BY <1>1, <2>1, <3>3, <4>1, <5>1
        <5> QED BY <4>1, <5>2 DEF StoreInv, LogInv, LogOk
      <4>2. ASSUME NEW i \in 1..Len(b), owner[b[i]] = v.owner, Stamp(v, k) = PENDING,
                   Stamp(u, k) = committed + i
            PROVE  HasOp(wal[Stamp(u, k)], k, t, v)
        <5>1. PICK d \in Conns : owner[d] = v.owner /\ HasOp(ops[d], k, t, v)
          BY <4>2 DEF StoreInv, PendInv, PendOk
        <5>2. d = b[i]
          BY <1>5, <4>2, <5>1
        <5> QED BY <1>1, <4>2, <5>1, <5>2
      <4> QED BY <1>6, <3>1, <4>1, <4>2
    <3> QED BY <3>2, <3>4, HasOpOf
  <2>2. ASSUME NEW i \in 1..Len(wal), NEW m \in 1..Len(wal[i])
        PROVE  \E u \in rows'[wal[i][m].tab] :
                  Logs(wal[i][m], wal[i][m].op, wal[i][m].tab, u) /\ Stamp(u, wal[i][m].op) = i
    <3> DEFINE o == wal[i][m]
               t == o.tab
    <3>1. t \in Tables /\ o.op \in Kinds
      <4>1. wal[i] \in Seq(Op)
        BY <1>1
      <4>2. o \in Op
        BY <4>1
      <4> QED BY <4>2, OpFields
    <3>2. \E v \in rows[t], u \in rows'[t] : Logs(o, o.op, t, v) /\ Stamped(v, u) /\ Stamp(u, o.op) = i
      <4>1. CASE i \in 1..committed
        <5>1. PICK v \in rows[t] : Logs(o, o.op, t, v) /\ Stamp(v, o.op) = i
          BY <4>1 DEF StoreInv, LogInv, LogOk
        <5>2. i # PENDING
          BY <1>1
        <5> HIDE DEF o, t
        <5>3. PICK u \in rows'[t] : Stamped(v, u)
          BY <1>4, <3>1
        <5>4. Stamp(u, o.op) = i
          BY <1>6, <3>1, <5>1, <5>2, <5>3
        <5> QED BY <5>1, <5>3, <5>4
      <4>2. CASE ~(i \in 1..committed)
        <5> DEFINE j == i - committed
        <5>1. j \in 1..Len(b) /\ i = committed + j
          BY <1>1, <4>2
        <5> HIDE DEF j
        <5>2. wal[i] = ops[b[j]] /\ b[j] \in Conns /\ Writing(b[j])
          BY <1>1, <1>5, <5>1
        <5>3. OpPending(rows, o, owner[b[j]])
          BY <5>2 DEF StoreInv, PendInv, PendOk
        <5> HIDE DEF o
        <5>4. PICK v \in rows[t] : Logs(o, o.op, t, v) /\ Stamp(v, o.op) = PENDING /\ v.owner = owner[b[j]]
          BY <5>3 DEF OpPending
        <5> HIDE DEF t
        <5>5. PICK u \in rows'[t] : Stamped(v, u)
          BY <1>4, <3>1
        <5>6. Stamp(u, o.op) = committed + j
          BY <3>1, <5>1, <5>4, <5>5 DEF Stamped
        <5> QED BY <5>1, <5>4, <5>5, <5>6
      <4> QED BY <4>1, <4>2
    <3> HIDE DEF o
    <3>3. PICK v \in rows[t], u \in rows'[t] : Logs(o, o.op, t, v) /\ Stamped(v, u) /\ Stamp(u, o.op) = i
      BY <3>2
    <3>4. Logs(o, o.op, t, u)
      BY <3>3 DEF Logs, Stamped
    <3> QED BY <3>3, <3>4 DEF o
  <2>3. Len(wal) \in 0..Len(wal)
    BY <1>1
  <2> QED BY <1>1, <2>1, <2>2, <2>3 DEF LogOk
<1>10. PendOk(rows', ops')
  <2>1. ASSUME NEW d \in Conns, Writing(d), NEW i \in 1..Len(ops'[d])
        PROVE  OpPending(rows', ops'[d][i], owner[d])
    <3>1. d \notin C /\ ops'[d] = ops[d]
      BY <1>3, <2>1
    <3> DEFINE o == ops[d][i]
               t == o.tab
    <3>2. i \in 1..Len(ops[d]) /\ PendOk(rows, ops)
      BY <3>1 DEF StoreInv, PendInv
    <3>3. t \in Tables
      BY <2>1, <3>2, OpVersion
    <3>4. PICK v \in rows[t] : Logs(o, o.op, t, v) /\ Stamp(v, o.op) = PENDING /\ v.owner = owner[d]
      BY <2>1, <3>2, OpVersion
    <3> HIDE DEF o, t
    <3>5. PICK u \in rows'[t] : Stamped(v, u)
      BY <1>4, <3>3
    <3>6. \A j \in 1..Len(b) : owner[b[j]] # v.owner
      BY <1>2, <1>5, <3>1, <3>4
    <3>7. u = v
      BY <3>5, <3>6 DEF Stamped
    <3>8. v \in rows'[o.tab] /\ Logs(o, o.op, o.tab, v)
      BY <3>4, <3>7 DEF t
    <3>9. OpPending(rows', o, owner[d])
      BY <3>4, <3>8, Zenon DEF OpPending
    <3> QED BY <3>1, <3>9 DEF o
  <2>2. ASSUME NEW t \in Tables, NEW u \in rows'[t], NEW k \in Kinds, Stamp(u, k) = PENDING
        PROVE  \E d \in Conns : Writing(d) /\ owner[d] = u.owner /\ HasOp(ops'[d], k, t, u)
    <3>1. PICK v \in rows[t] : Stamped(v, u)
      BY <1>4
    <3>2. ASSUME NEW i \in 1..Len(b), owner[b[i]] = v.owner PROVE FALSE
      <4>1. Stamp(u, k) = committed + i \/ (Stamp(u, k) = Stamp(v, k) /\ Stamp(v, k) # PENDING)
        BY <3>1, <3>2 DEF Stamped
      <4>2. committed + i # PENDING
        BY <1>5
      <4> QED BY <2>2, <4>1, <4>2
    <3>3. u = v
      BY <3>1, <3>2 DEF Stamped
    <3>4. PICK d \in Conns : Writing(d) /\ owner[d] = v.owner /\ HasOp(ops[d], k, t, v)
      BY <2>2, <3>3 DEF StoreInv, PendInv, PendOk
    <3>5. d \notin C
      BY <1>2, <3>2, <3>4
    <3> QED BY <1>3, <3>3, <3>4, <3>5
  <2>3. ASSUME NEW d \in Conns PROVE InOrder(ops'[d])
    <3>1. CASE d \in C
      BY <1>3, <3>1 DEF InOrder
    <3>2. CASE d \notin C
      BY <1>3, <3>2 DEF StoreInv, PendInv, PendOk
    <3> QED BY <3>1, <3>2
  <2> QED BY <1>3, <2>1, <2>2, <2>3 DEF PendOk
<1>11. PendInv'
  BY <1>2, <1>3, <1>10, EndedPending
<1>12. RowsInv' /\ LogInv' /\ WalInv'
  BY <1>0, <1>8, <1>9 DEF RowsInv, LogInv, StoreInv, WalInv
<1>13. QueueInv'
  BY <1>0, <1>3, BatchOver DEF C
<1>14. LsnInv'
  BY <1>0, <1>3, EndedLsns
<1>15. TailInv'
  BY <1>0, <1>1 DEF TailInv, NoFlush
<1> QED BY <1>3, <1>11, <1>12, <1>13, <1>14, <1>15 DEF StoreInv

-----------------------------------------------------------------------------
(* The theorems.                                                            *)

\* Every step preserves the invariant.
LEMMA NextInv ==
    ASSUME Checked, OneTable, StoreInv, [Next]_vars
    PROVE  StoreInv'
<1>1. CASE UNCHANGED vars
  <2>1. UNCHANGED <<rows, nextVid, committed, pc, snap, owner, ops, saves, nextOwner, queue, flush, wal>>
    BY <1>1 DEF vars, storeVars, txnVars, pipeVars
  <2>2. TxnInv' /\ SaveInv'
    BY <2>1 DEF StoreInv, TxnInv, SaveInv
  <2>3. LsnInv'
    BY <2>1 DEF StoreInv, LsnInv, Unqueued
  <2>4. PendInv' /\ QueueInv' /\ RowsInv' /\ LogInv' /\ WalInv' /\ TailInv'
    BY <2>1, SamePending, QueueSame, SameStore, SameTail DEF StoreInv, Writing
  <2> QED BY <2>2, <2>3, <2>4 DEF StoreInv
<1>2. ASSUME NEW c \in Conns,
             \/ Begin(c) \/ EnsureWriter(c) \/ Dml(c)
             \/ Savepoint(c) \/ ReleaseSavepoint(c) \/ RollbackTo(c)
             \/ Rollback(c) \/ CommitEmpty(c) \/ Commit(c)
      PROVE  StoreInv'
  BY <1>2, BeginInv, EnsureWriterInv, DmlInv, SavepointInv, ReleaseInv, RollbackToInv,
     RollbackInv, CommitEmptyInv, CommitInv
<1>3. CASE FlushBatch \/ Publish \/ Discard \/ CrashAndReopen
  BY <1>3, FlushInv, PublishInv, DiscardInv, CrashInv
<1>4. CASE Rest
  BY <1>1, <1>4 DEF Rest
<1> QED BY <1>1, <1>2, <1>3, <1>4 DEF Next

\* The invariant holds throughout, for any connections, tables, keys and bounds,
\* when statements are atomic and check for conflicts, and savepoints are over
\* one table.
THEOREM StoreInvariance == ASSUME Checked, OneTable PROVE Spec => []StoreInv
<1>1. StoreInv /\ [Next]_vars => StoreInv'
  BY NextInv
<1> QED BY InitInv, <1>1, PTL DEF Spec

\* First committer wins: the log never supersedes a version twice (check_no_conflict).
THEOREM NoUpdateIsLost == ASSUME Checked, OneTable PROVE Spec => []NoLostUpdate
<1>1. StoreInv => NoLostUpdate
  BY InvNoLostUpdate DEF StoreInv
<1> QED BY StoreInvariance, <1>1, PTL

\* The pending versions are exactly what the writers will log, through savepoints,
\* rollbacks and failed appends (wal_ops, rollback_to_savepoint, rollback_owner).
THEOREM PendingIsLogged == ASSUME Checked, OneTable PROVE Spec => []PendingMatchesOps
<1>1. StoreInv => PendingMatchesOps
  BY InvPending
<1> QED BY StoreInvariance, <1>1, PTL

\* At every snapshot memory holds the rows that recovery would rebuild from the
\* log (finalize_owner and rollback_owner against replay).
THEOREM MemoryMatchesLog == ASSUME Checked, OneTable PROVE Spec => []StoreMatchesLog
<1>1. StoreInv => StoreMatchesLog
  BY InvMatches
<1> QED BY StoreInvariance, <1>1, PTL

\* Only an append changes the log, and it leaves the rows alone.
LEMMA LogOrRowsStay ==
    ASSUME [Next]_vars
    PROVE  \/ wal' = wal /\ committed' \in {committed, Len(wal)}
           \/ UNCHANGED <<rows, committed>>
<1>1. ASSUME NEW c \in Conns, Dml(c) PROVE wal' = wal /\ committed' = committed
  <2>1. ASSUME NEW t \in Tables, NEW k \in Keys, NEW x \in Vals, InsertNew(c, t, k, x)
        PROVE  wal' = wal /\ committed' = committed
    BY <2>1 DEF InsertNew, Statement, pipeVars
  <2>2. ASSUME NEW t \in Tables, NEW k \in Keys, NEW l \in Keys, NEW x \in Vals, Upsert(c, t, k, l, x)
        PROVE  wal' = wal /\ committed' = committed
    BY <2>2 DEF Upsert, Statement, pipeVars
  <2>3. ASSUME NEW t \in Tables, NEW k \in Keys, NEW l \in Keys, NEW x \in Vals, Update(c, t, k, l, x)
        PROVE  wal' = wal /\ committed' = committed
    BY <2>3 DEF Update, Statement, pipeVars
  <2>4. ASSUME NEW t \in Tables, NEW k \in Keys, Delete(c, t, k) PROVE wal' = wal /\ committed' = committed
    BY <2>4 DEF Delete, Statement, pipeVars
  <2> QED BY <1>1, <2>1, <2>2, <2>3, <2>4 DEF Dml, InsertReplace, InsertDoUpdate
<1>2. ASSUME NEW c \in Conns,
             \/ Begin(c) \/ EnsureWriter(c)
             \/ Savepoint(c) \/ ReleaseSavepoint(c) \/ RollbackTo(c)
             \/ Rollback(c) \/ CommitEmpty(c) \/ Commit(c)
      PROVE  wal' = wal /\ committed' = committed
  BY <1>2 DEF Begin, EnsureWriter, Savepoint, ReleaseSavepoint, RollbackTo, Rollback,
          CommitEmpty, Commit, pipeVars, storeVars
<1>3. CASE Publish \/ Discard \/ CrashAndReopen \/ Rest \/ UNCHANGED vars
  BY <1>3 DEF Publish, Discard, CrashAndReopen, Rest, vars, pipeVars, storeVars
<1>4. CASE FlushBatch
  BY <1>4 DEF FlushBatch, storeVars
<1> QED BY <1>1, <1>2, <1>3, <1>4 DEF Next

\* No step changes what a snapshot that can be taken sees: not the publication of
\* other transactions, not a rollback, and not a crash (visible_to_reader,
\* committed_lsn, replay).
THEOREM SnapshotsAreRepeatable == ASSUME Checked, OneTable PROVE Spec => SnapshotRepeatable
<1>1. ASSUME StoreInv, StoreMatchesLog, StoreMatchesLog', [Next]_vars,
             NEW t \in Tables, NEW s \in 0..committed
      PROVE  Seen(rows'[t], s) = Seen(rows[t], s)
  <2>1. CASE UNCHANGED <<rows, committed>>
    BY <2>1
  <2>2. CASE wal' = wal /\ committed' \in {committed, Len(wal)}
    <3>1. Seen(rows[t], s) = Seen(Replay(wal, t), s)
      BY <1>1 DEF StoreMatchesLog
    <3>2. s \in 0..committed'
      <4>1. committed \in Nat /\ Len(wal) \in Nat /\ committed <= Len(wal)
        BY <1>1, PendingIsAbove
      <4> QED BY <2>2, <4>1
    <3>3. Seen(rows'[t], s) = Seen(Replay(wal', t), s)
      BY <1>1, <3>2 DEF StoreMatchesLog
    <3> QED BY <2>2, <3>1, <3>3
  <2> QED BY <1>1, <2>1, <2>2, LogOrRowsStay
<1> DEFINE A == \A t \in Tables : \A s \in 0..committed : Seen(rows'[t], s) = Seen(rows[t], s)
<1>2. StoreInv /\ StoreMatchesLog /\ StoreMatchesLog' /\ [Next]_vars => [A]_vars
  BY <1>1
<1>3. SnapshotRepeatable <=> [][A]_vars
  BY DEF SnapshotRepeatable
<1> HIDE DEF A
<1> QED BY StoreInvariance, MemoryMatchesLog, <1>2, <1>3, PTL DEF Spec

-----------------------------------------------------------------------------
(* The primary key: what keeps its versions apart.                          *)

\* v is superseded before w begins, whatever becomes of their transactions: at
\* an earlier LSN, or by the transaction that creates w.
Ends(v, w) == v.del # 0 /\ v.del <= w.create /\ (v.del = PENDING => v.owner = w.owner)

\* No two versions of a key are ever visible together.
Apart(v, w) == Ends(v, w) \/ Ends(w, v) \/ Ends(v, v) \/ Ends(w, w)
Keyed(R) == \A v, w \in R : v.key = w.key /\ v # w => Apart(v, w)

\* R when the transactions D undo their inserts but those of ins and their deletes
\* but those of del: rolled_back, rollback_to_savepoint, and a discarded batch.
Dropped(v, D, ins) == v.owner \in D /\ v.create = PENDING /\ v.vid \notin ins
Revive(v, D, del) ==
    IF v.owner \in D /\ v.del = PENDING /\ v.vid \notin del
    THEN [v EXCEPT !.del = 0, !.owner = IF v.create = PENDING THEN v.owner ELSE 0]
    ELSE v
Reverted(R, D, ins, del) == {Revive(v, D, del) : v \in {w \in R : ~Dropped(w, D, ins)}}

\* Owners: each belongs to one running transaction, one of which has the lane.
OwnerInv ==
    /\ pc \in [Conns -> {"idle", "open", "writing", "queued"}]
    /\ snap \in [Conns -> Nat] /\ owner \in [Conns -> Nat] /\ nextOwner \in Nat
    /\ \A c \in Conns :
          /\ owner[c] < nextOwner /\ (pc[c] = "idle" <=> owner[c] = 0)
          /\ \A d \in Conns : owner[c] = owner[d] /\ owner[c] # 0 => c = d
          /\ \A d \in Conns : pc[c] = "writing" /\ pc[d] = "writing" => c = d

\* The log is a sequence, as long as the mark and the batch not yet published.
MarkInv ==
    /\ committed \in Nat /\ wal = [i \in 1..Len(wal) |-> wal[i]]
    /\ Len(wal) = committed + (IF flush.ok THEN Len(flush.batch) ELSE 0)

\* A version's owner has been given out, and has written.
WroteOk(rw) ==
    \A t \in Tables : \A v \in rw[t] :
        /\ v.owner < nextOwner
        /\ \A c \in Conns : v.owner = owner[c] /\ v.owner # 0 => Writing(c)

\* The versions that a savepoint of c names and that exist are still c's to undo,
\* and what it would go back to has unique keys too.
Names(R, sp, me) ==
    \A v \in R : /\ v.vid \in sp.ins => v.create = PENDING /\ v.owner = me
                 /\ v.vid \in sp.del => v.del = PENDING /\ v.owner = me
SaveKeyed(rw, nv, c, sp) ==
    \A t \in Tables :
        /\ \A x \in sp.ins \cup sp.del : x < nv[t]
        /\ Names(rw[t], sp, owner[c])
        /\ Keyed(Reverted(rw[t], {owner[c]}, sp.ins, sp.del))

SavesOk(rw, nv) ==
    \A c \in Conns : pc[c] \in {"open", "writing"} =>
        \A a \in 1..Len(saves[c]) : SaveKeyed(rw, nv, c, saves[c][a])

\* An earlier savepoint names fewer versions.
Within(R, sp, sq) ==
    \A v \in R : /\ v.vid \in sp.ins => v.vid \in sq.ins
                 /\ v.vid \in sp.del => v.vid \in sq.del
Nested(rw) ==
    \A c \in Conns : pc[c] \in {"open", "writing"} =>
        \A t \in Tables : \A a, b \in 1..Len(saves[c]) :
            a <= b => Within(rw[t], saves[c][a], saves[c][b])

\* (The length of wal_ops that a savepoint remembers does not matter here.)
Saved(L) == [ins : SUBSET Nat, del : SUBSET Nat, len : L]
SaveTypes ==
    /\ \E L : saves \in [Conns -> Seq(Saved(L))]
    /\ \A c \in Conns : pc[c] = "idle" => saves[c] = <<>>

KeyOk(rw, nv) ==
    /\ RowsOk(rw, nv, committed)
    /\ WroteOk(rw)
    /\ \A t \in Tables : Keyed(rw[t])
    /\ SavesOk(rw, nv)
    /\ Nested(rw)

PipeInv ==
    /\ OwnerInv
    /\ QueueInv
    /\ LsnInv
    /\ MarkInv

KeyInv ==
    /\ PipeInv
    /\ SaveTypes
    /\ KeyOk(rows, nextVid)

-----------------------------------------------------------------------------
(* Sets of versions in which keys are unique.                               *)

\* Such a set shows a snapshot each key once.
LEMMA KeyedIsUnique ==
    ASSUME PENDING \in Nat, NEW R \in SUBSET Version, Keyed(R), NEW s \in Nat,
           NEW v \in R, NEW w \in R, visible_to_reader(v, s), visible_to_reader(w, s),
           v.key = w.key
    PROVE  v = w
<1> SUFFICES ASSUME v # w PROVE FALSE
  OBVIOUS
<1>1. Apart(v, w)
  BY DEF Keyed
<1>2. /\ v.create \in Nat /\ v.del \in Nat /\ w.create \in Nat /\ w.del \in Nat
  <2>1. v.create \in 0..PENDING /\ v.del \in 0..PENDING /\ w.create \in 0..PENDING /\ w.del \in 0..PENDING
    BY VersionFields
  <2> HIDE DEF PENDING
  <2> QED BY <2>1
<1>3. v.create <= s /\ w.create <= s /\ (v.del = 0 \/ v.del > s) /\ (w.del = 0 \/ w.del > s)
  BY DEF visible_to_reader
<1> QED BY <1>1, <1>2, <1>3 DEF Apart, Ends

\* A part of such a set is one.
LEMMA KeyedPart ==
    ASSUME NEW R, NEW S, S \subseteq R, Keyed(R)
    PROVE  Keyed(S)
BY DEF Keyed

\* A version may be added when every other version of its key ends before it.
LEMMA KeyedAdd ==
    ASSUME NEW R, Keyed(R), NEW n,
           \A w \in R : w.key = n.key /\ w # n => Ends(w, n) \/ Ends(w, w)
    PROVE  Keyed(R \cup {n})
BY DEF Keyed, Apart

\* What reviving does to a version.
LEMMA ReviveFields ==
    ASSUME NEW D, NEW del, NEW v \in Version, PENDING \in Nat
    PROVE  LET u == Revive(v, D, del)
               back == v.owner \in D /\ v.del = PENDING /\ v.vid \notin del
           IN  /\ u \in Version /\ u.vid = v.vid /\ u.key = v.key /\ u.val = v.val
               /\ u.create = v.create
               /\ back => /\ u.del = 0
                          /\ v.create = PENDING => u.owner = v.owner
                          /\ v.create # PENDING => u.owner = 0
               /\ ~back => u = v
<1> HIDE DEF PENDING
<1> DEFINE back == v.owner \in D /\ v.del = PENDING /\ v.vid \notin del
<1>1. CASE back
  <2> DEFINE x == IF v.create = PENDING THEN v.owner ELSE 0
             u == [v EXCEPT !.del = 0, !.owner = x]
  <2>1. x \in Nat /\ 0 \in 0..PENDING
    BY VersionFields
  <2>2. (v.create = PENDING => x = v.owner) /\ (v.create # PENDING => x = 0)
    OBVIOUS
  <2> HIDE DEF x
  <2>3. /\ u \in Version /\ u.vid = v.vid /\ u.key = v.key /\ u.val = v.val
        /\ u.create = v.create /\ u.del = 0 /\ u.owner = x
    BY <2>1 DEF Version
  <2>4. Revive(v, D, del) = u
    BY <1>1 DEF Revive, x
  <2> HIDE DEF u
  <2> QED BY <1>1, <2>2, <2>3, <2>4
<1>2. CASE ~back
  BY <1>2 DEF Revive
<1> QED BY <1>1, <1>2

\* Each version of a reverted set was one.
LEMMA RevertedFrom ==
    ASSUME NEW R, NEW D, NEW ins, NEW del, NEW u \in Reverted(R, D, ins, del)
    PROVE  \E v \in R : ~Dropped(v, D, ins) /\ u = Revive(v, D, del)
BY DEF Reverted

\* And each that is not dropped becomes one.
LEMMA RevertedTo ==
    ASSUME NEW R, NEW D, NEW ins, NEW del, NEW v \in R, ~Dropped(v, D, ins)
    PROVE  Revive(v, D, del) \in Reverted(R, D, ins, del)
BY DEF Reverted

\* Rolling back whole transactions leaves keys unique.
LEMMA KeyedReverted ==
    ASSUME NEW R \in SUBSET Version, Keyed(R), NEW D, PENDING \in Nat
    PROVE  Keyed(Reverted(R, D, {}, {}))
<1> HIDE DEF PENDING
<1>1. ASSUME NEW v \in R, NEW w \in R, Ends(v, w), ~Dropped(v, D, {}), ~Dropped(w, D, {})
      PROVE  Ends(Revive(v, D, {}), Revive(w, D, {}))
  <2> DEFINE x == Revive(v, D, {})
             y == Revive(w, D, {})
  <2>1. v \in Version /\ w \in Version
    OBVIOUS
  <2>2. y.create = w.create /\ (w.create = PENDING => y.owner = w.owner)
    BY <2>1, ReviveFields
  <2>3. CASE v.del = PENDING
    <3>1. w.create = PENDING /\ v.owner = w.owner
      <4>1. w.create \in Nat /\ w.create <= PENDING /\ PENDING <= w.create
        <5>1. w.create \in 0..PENDING
          BY <2>1, VersionFields
        <5> QED BY <1>1, <2>3, <5>1 DEF Ends
      <4> QED BY <1>1, <2>3, <4>1 DEF Ends
    <3>2. w.owner \notin D
      BY <1>1, <3>1 DEF Dropped
    <3>3. x = v /\ y = w
      BY <3>1, <3>2 DEF Revive
    <3> QED BY <1>1, <3>3
  <2>4. CASE v.del # PENDING
    <3>1. x = v
      BY <2>4 DEF Revive
    <3> HIDE DEF y
    <3>2. Ends(v, y)
      BY <1>1, <2>2, <2>4 DEF Ends
    <3> QED BY <3>1, <3>2 DEF y
  <2> QED BY <2>3, <2>4
<1> SUFFICES ASSUME NEW x \in Reverted(R, D, {}, {}), NEW y \in Reverted(R, D, {}, {}),
                    x.key = y.key, x # y
             PROVE  Apart(x, y)
  BY DEF Keyed
<1>2. PICK v \in R : ~Dropped(v, D, {}) /\ x = Revive(v, D, {})
  BY RevertedFrom
<1>3. PICK w \in R : ~Dropped(w, D, {}) /\ y = Revive(w, D, {})
  BY RevertedFrom
<1>4. v.key = w.key /\ v # w
  <2>1. v \in Version /\ w \in Version
    OBVIOUS
  <2>2. x.key = v.key /\ y.key = w.key
    BY <1>2, <1>3, <2>1, ReviveFields
  <2> QED BY <1>2, <1>3, <2>2
<1>5. Apart(v, w)
  BY <1>4 DEF Keyed
<1> QED BY <1>1, <1>2, <1>3, <1>5 DEF Apart

\* Nothing to revert.
LEMMA RevertedAbsent ==
    ASSUME NEW R, NEW D, NEW ins, NEW del, \A v \in R : v.owner \notin D
    PROVE  Reverted(R, D, ins, del) = R
<1>1. \A v \in R : ~Dropped(v, D, ins) /\ Revive(v, D, del) = v
  BY DEF Dropped, Revive
<1> QED BY <1>1 DEF Reverted

\* Going back to an earlier savepoint after a later one.
LEMMA RevertedNested ==
    ASSUME NEW R \in SUBSET Version, PENDING \in Nat, PENDING # 0, NEW D,
           NEW i1, NEW d1, NEW i2, NEW d2,
           \A v \in R : (v.vid \in i1 => v.vid \in i2) /\ (v.vid \in d1 => v.vid \in d2)
    PROVE  Reverted(Reverted(R, D, i2, d2), D, i1, d1) = Reverted(R, D, i1, d1)
<1> HIDE DEF PENDING
<1>1. ASSUME NEW v \in R, ~Dropped(v, D, i2)
      PROVE  LET x == Revive(v, D, d2)
             IN  /\ Dropped(x, D, i1) <=> Dropped(v, D, i1)
                 /\ ~Dropped(v, D, i1) => Revive(x, D, d1) = Revive(v, D, d1)
  <2> DEFINE x == Revive(v, D, d2)
  <2>1. v \in Version
    OBVIOUS
  <2>2. CASE v.owner \in D /\ v.del = PENDING /\ v.vid \notin d2
    <3>1. /\ x.vid = v.vid /\ x.create = v.create /\ x.del = 0
          /\ v.create = PENDING => x.owner = v.owner
      BY <2>1, <2>2, ReviveFields
    <3>2. Revive(x, D, d1) = x
      BY <3>1 DEF Revive
    <3>3. Revive(v, D, d1) = x
      BY <2>2 DEF Revive
    <3>4. Dropped(x, D, i1) <=> Dropped(v, D, i1)
      BY <3>1 DEF Dropped
    <3> QED BY <3>2, <3>3, <3>4
  <2>3. CASE ~(v.owner \in D /\ v.del = PENDING /\ v.vid \notin d2)
    <3>1. x = v
      BY <2>3 DEF Revive
    <3> QED BY <3>1
  <2> QED BY <2>2, <2>3
<1>2. ASSUME NEW v \in R, Dropped(v, D, i2) PROVE Dropped(v, D, i1)
  BY <1>2 DEF Dropped
<1>3. ASSUME NEW u \in Reverted(Reverted(R, D, i2, d2), D, i1, d1)
      PROVE  u \in Reverted(R, D, i1, d1)
  <2>1. PICK x \in Reverted(R, D, i2, d2) : ~Dropped(x, D, i1) /\ u = Revive(x, D, d1)
    BY RevertedFrom
  <2>2. PICK v \in R : ~Dropped(v, D, i2) /\ x = Revive(v, D, d2)
    BY RevertedFrom
  <2>3. ~Dropped(v, D, i1) /\ u = Revive(v, D, d1)
    BY <1>1, <2>1, <2>2
  <2> QED BY <2>3, RevertedTo
<1>4. ASSUME NEW u \in Reverted(R, D, i1, d1)
      PROVE  u \in Reverted(Reverted(R, D, i2, d2), D, i1, d1)
  <2>1. PICK v \in R : ~Dropped(v, D, i1) /\ u = Revive(v, D, d1)
    BY RevertedFrom
  <2>2. ~Dropped(v, D, i2)
    BY <1>2, <2>1
  <2> DEFINE x == Revive(v, D, d2)
  <2>3. x \in Reverted(R, D, i2, d2)
    BY <2>2, RevertedTo
  <2>4. ~Dropped(x, D, i1) /\ u = Revive(x, D, d1)
    BY <1>1, <2>1, <2>2
  <2> HIDE DEF x
  <2>5. Revive(x, D, d1) \in Reverted(Reverted(R, D, i2, d2), D, i1, d1)
    BY <2>3, <2>4, RevertedTo
  <2> QED BY <2>4, <2>5
<1> QED BY <1>3, <1>4

\* Transactions roll back independently: what one would go back to is rolled
\* back as well when the others D are.
LEMMA RevertedCommute ==
    ASSUME NEW R \in SUBSET Version, PENDING \in Nat, PENDING # 0, NEW D, NEW me, NEW ins, NEW del,
           me \notin D, me # 0, 0 \notin D
    PROVE  Reverted(Reverted(R, D, {}, {}), {me}, ins, del)
             = Reverted(Reverted(R, {me}, ins, del), D, {}, {})
<1> HIDE DEF PENDING
<1>1. ASSUME NEW v \in R
      PROVE  LET x == Revive(v, D, {})
                 y == Revive(v, {me}, del)
             IN  /\ Dropped(x, {me}, ins) <=> Dropped(v, {me}, ins)
                 /\ Dropped(y, D, {}) <=> Dropped(v, D, {})
                 /\ Revive(x, {me}, del) = Revive(y, D, {})
  <2> DEFINE x == Revive(v, D, {})
             y == Revive(v, {me}, del)
  <2>1. v \in Version
    OBVIOUS
  <2>2. CASE v.owner = me
    <3>1. x = v
      BY <2>2 DEF Revive
    <3>2. y.owner \in {0, me} /\ y.create = v.create
      BY <2>1, <2>2, ReviveFields
    <3> HIDE DEF y
    <3>3. Revive(y, D, {}) = y /\ ~Dropped(y, D, {}) /\ ~Dropped(v, D, {})
      BY <2>2, <3>2 DEF Revive, Dropped
    <3> QED BY <3>1, <3>3 DEF y
  <2>3. CASE v.owner # me
    <3>1. y = v
      BY <2>3 DEF Revive
    <3>2. x.owner \in {0, v.owner} /\ x.create = v.create
      BY <2>1, ReviveFields
    <3> HIDE DEF x
    <3>3. Revive(x, {me}, del) = x /\ ~Dropped(x, {me}, ins) /\ ~Dropped(v, {me}, ins)
      BY <2>3, <3>2 DEF Revive, Dropped
    <3> QED BY <3>1, <3>3 DEF x
  <2> QED BY <2>2, <2>3
<1>2. ASSUME NEW u \in Reverted(Reverted(R, D, {}, {}), {me}, ins, del)
      PROVE  u \in Reverted(Reverted(R, {me}, ins, del), D, {}, {})
  <2>1. PICK x \in Reverted(R, D, {}, {}) : ~Dropped(x, {me}, ins) /\ u = Revive(x, {me}, del)
    BY RevertedFrom
  <2>2. PICK v \in R : ~Dropped(v, D, {}) /\ x = Revive(v, D, {})
    BY RevertedFrom
  <2> DEFINE y == Revive(v, {me}, del)
  <2>3. ~Dropped(v, {me}, ins) /\ ~Dropped(y, D, {}) /\ u = Revive(y, D, {})
    BY <1>1, <2>1, <2>2
  <2>4. y \in Reverted(R, {me}, ins, del)
    BY <2>3, RevertedTo
  <2> HIDE DEF y
  <2>5. Revive(y, D, {}) \in Reverted(Reverted(R, {me}, ins, del), D, {}, {})
    BY <2>3, <2>4, RevertedTo
  <2> QED BY <2>3, <2>5
<1>3. ASSUME NEW u \in Reverted(Reverted(R, {me}, ins, del), D, {}, {})
      PROVE  u \in Reverted(Reverted(R, D, {}, {}), {me}, ins, del)
  <2>1. PICK y \in Reverted(R, {me}, ins, del) : ~Dropped(y, D, {}) /\ u = Revive(y, D, {})
    BY RevertedFrom
  <2>2. PICK v \in R : ~Dropped(v, {me}, ins) /\ y = Revive(v, {me}, del)
    BY RevertedFrom
  <2> DEFINE x == Revive(v, D, {})
  <2>3. ~Dropped(v, D, {}) /\ ~Dropped(x, {me}, ins) /\ u = Revive(x, {me}, del)
    BY <1>1, <2>1, <2>2
  <2>4. x \in Reverted(R, D, {}, {})
    BY <2>3, RevertedTo
  <2> HIDE DEF x
  <2>5. Revive(x, {me}, del) \in Reverted(Reverted(R, D, {}, {}), {me}, ins, del)
    BY <2>3, <2>4, RevertedTo
  <2> QED BY <2>3, <2>5
<1> QED BY <1>2, <1>3

\* The stamps of a set of versions are LSNs up to the mark cm, or pending.
StampsOk(R, cm) ==
    /\ R \subseteq Version
    /\ \A v \in R : /\ v.create \in (1..cm) \cup {PENDING} /\ v.del \in (0..cm) \cup {PENDING}
                    /\ v.create = PENDING => v.del \in {0, PENDING}

\* Reverting keeps them.
LEMMA RevertedStamps ==
    ASSUME PENDING \in Nat, NEW cm \in Nat, NEW R, StampsOk(R, cm), NEW D, NEW ins, NEW del
    PROVE  StampsOk(Reverted(R, D, ins, del), cm)
<1> HIDE DEF PENDING
<1>1. ASSUME NEW u \in Reverted(R, D, ins, del)
      PROVE  /\ u \in Version
             /\ u.create \in (1..cm) \cup {PENDING} /\ u.del \in (0..cm) \cup {PENDING}
             /\ u.create = PENDING => u.del \in {0, PENDING}
  <2>1. PICK v \in R : u = Revive(v, D, del)
    BY RevertedFrom
  <2>2. v \in Version
    BY DEF StampsOk
  <2>3. u \in Version /\ u.create = v.create /\ u.del \in {0, v.del}
    BY <2>1, <2>2, ReviveFields
  <2> QED BY <2>3 DEF StampsOk
<1> QED BY <1>1 DEF StampsOk

\* A batch of owners: those of the connections b.
InBatch(b, x) == \E i \in 1..Len(b) : owner[b[i]] = x
LsnFor(b, x) == CommitLsn(b, Max({i \in 1..Len(b) : owner[b[i]] = x}))
Pub(b, v) == IF InBatch(b, v.owner) THEN Finalized(v, LsnFor(b, v.owner)) ELSE v
PubAll(b, R) == {Pub(b, v) : v \in R}

\* The LSNs of a batch are above the mark and below PENDING.
BatchLsns(b, cm) ==
    \A x : InBatch(b, x) => LsnFor(b, x) \in Nat /\ LsnFor(b, x) > cm /\ LsnFor(b, x) < PENDING

\* What publishing does to a version.
LEMMA PubFields ==
    ASSUME PENDING \in Nat, NEW b, NEW cm \in Nat, BatchLsns(b, cm), NEW v \in Version
    PROVE  LET u == Pub(b, v)
               l == LsnFor(b, v.owner)
           IN  /\ u \in Version /\ u.vid = v.vid /\ u.key = v.key /\ u.val = v.val
               /\ ~InBatch(b, v.owner) => u = v
               /\ InBatch(b, v.owner) =>
                    /\ u.owner = 0 /\ u.create = IF v.create = PENDING THEN l ELSE v.create
                    /\ u.del = IF v.del = PENDING THEN l ELSE v.del
<1> HIDE DEF PENDING
<1>1. CASE InBatch(b, v.owner)
  <2> DEFINE l == LsnFor(b, v.owner)
             u == Finalized(v, l)
  <2>1. l \in 0..PENDING
    BY <1>1 DEF BatchLsns
  <2>2. v.create \in 0..PENDING /\ v.del \in 0..PENDING
    BY VersionFields
  <2>3. Pub(b, v) = u
    BY <1>1 DEF Pub
  <2> HIDE DEF l
  <2>4. /\ u \in Version /\ u.vid = v.vid /\ u.key = v.key /\ u.val = v.val /\ u.owner = 0
        /\ u.create = IF v.create = PENDING THEN l ELSE v.create
        /\ u.del = IF v.del = PENDING THEN l ELSE v.del
    BY <2>1, <2>2 DEF Finalized, Version
  <2> HIDE DEF u
  <2> QED BY <1>1, <2>3, <2>4 DEF l
<1>2. CASE ~InBatch(b, v.owner)
  BY <1>2 DEF Pub
<1> QED BY <1>1, <1>2

\* Publishing leaves keys unique.
LEMMA KeyedPub ==
    ASSUME PENDING \in Nat, NEW b, NEW cm \in Nat, cm < PENDING, BatchLsns(b, cm),
           NEW R, StampsOk(R, cm), Keyed(R)
    PROVE  Keyed(PubAll(b, R))
<1> HIDE DEF PENDING
<1>1. ASSUME NEW v \in R, NEW w \in R, Ends(v, w)
      PROVE  Ends(Pub(b, v), Pub(b, w))
  <2> DEFINE x == Pub(b, v)
             y == Pub(b, w)
             l == LsnFor(b, v.owner)
             m == LsnFor(b, w.owner)
  <2>1. /\ v \in Version /\ w \in Version
        /\ w.create \in (1..cm) \cup {PENDING} /\ v.del \in (0..cm) \cup {PENDING}
    BY DEF StampsOk
  <2>2. /\ ~InBatch(b, v.owner) => x = v
        /\ InBatch(b, v.owner) => x.del = IF v.del = PENDING THEN l ELSE v.del
    BY <2>1, PubFields
  <2>3. /\ ~InBatch(b, w.owner) => y = w
        /\ InBatch(b, w.owner) => y.create = IF w.create = PENDING THEN m ELSE w.create
    BY <2>1, PubFields
  <2>4. /\ InBatch(b, v.owner) => l \in Nat /\ l > cm /\ l < PENDING
        /\ InBatch(b, w.owner) => m \in Nat /\ m > cm /\ m < PENDING
    BY DEF BatchLsns
  <2>5. CASE v.del = PENDING
    <3>1. w.create = PENDING /\ v.owner = w.owner
      BY <1>1, <2>1, <2>5 DEF Ends
    <3>2. CASE InBatch(b, v.owner)
      <4>1. x.del = l /\ y.create = m /\ l = m
        BY <2>2, <2>3, <2>5, <3>1, <3>2
      <4> HIDE DEF x, y, l, m
      <4> QED BY <2>4, <3>2, <4>1 DEF Ends, x, y
    <3>3. CASE ~InBatch(b, v.owner)
      <4>1. x = v /\ y = w
        BY <2>2, <2>3, <3>1, <3>3
      <4> QED BY <1>1, <4>1
    <3> QED BY <3>2, <3>3
  <2>6. CASE v.del # PENDING
    <3>1. x.del = v.del
      BY <2>2, <2>6
    <3>2. v.del \in Nat /\ v.del # 0 /\ v.del <= cm /\ v.del <= w.create
      BY <1>1, <2>1, <2>6 DEF Ends
    <3>3. y.create = w.create \/ (y.create \in Nat /\ y.create > cm)
      <4> HIDE DEF y, m
      <4> QED BY <2>3, <2>4
    <3> HIDE DEF x, y
    <3>4. x.del <= y.create
      BY <3>1, <3>2, <3>3
    <3> QED BY <2>6, <3>1, <3>2, <3>4 DEF Ends, x, y
  <2> QED BY <2>5, <2>6
<1> SUFFICES ASSUME NEW x \in PubAll(b, R), NEW y \in PubAll(b, R), x.key = y.key, x # y
             PROVE  Apart(x, y)
  BY DEF Keyed
<1>2. PICK v \in R : x = Pub(b, v)
  BY DEF PubAll
<1>3. PICK w \in R : y = Pub(b, w)
  BY DEF PubAll
<1>4. v.key = w.key /\ v # w
  <2>1. v \in Version /\ w \in Version
    BY DEF StampsOk
  <2>2. x.key = v.key /\ y.key = w.key
    BY <1>2, <1>3, <2>1, PubFields
  <2> QED BY <1>2, <1>3, <2>2
<1>5. Apart(v, w)
  BY <1>4 DEF Keyed
<1> QED BY <1>1, <1>2, <1>3, <1>5 DEF Apart

\* Publishing a batch and rolling back a transaction that is not in it.
LEMMA PubCommute ==
    ASSUME PENDING \in Nat, NEW b, NEW cm \in Nat, BatchLsns(b, cm), NEW R \in SUBSET Version,
           NEW me, me # 0, ~InBatch(b, me), ~InBatch(b, 0), NEW ins, NEW del
    PROVE  Reverted(PubAll(b, R), {me}, ins, del) = PubAll(b, Reverted(R, {me}, ins, del))
<1> HIDE DEF PENDING
<1>1. ASSUME NEW v \in R
      PROVE  LET x == Pub(b, v)
                 y == Revive(v, {me}, del)
             IN  /\ Dropped(x, {me}, ins) <=> Dropped(v, {me}, ins)
                 /\ Revive(x, {me}, del) = Pub(b, y)
  <2> DEFINE x == Pub(b, v)
             y == Revive(v, {me}, del)
  <2>1. v \in Version
    OBVIOUS
  <2>2. CASE v.owner = me
    <3>1. x = v
      BY <2>2 DEF Pub
    <3>2. y.owner \in {0, me}
      BY <2>1, <2>2, ReviveFields
    <3> HIDE DEF y
    <3>3. Pub(b, y) = y
      BY <3>2 DEF Pub
    <3> QED BY <3>1, <3>3 DEF y
  <2>3. CASE v.owner # me
    <3>1. y = v
      BY <2>3 DEF Revive
    <3>2. x.owner \in {0, v.owner}
      BY <2>1, PubFields
    <3> HIDE DEF x
    <3>3. Revive(x, {me}, del) = x /\ ~Dropped(x, {me}, ins) /\ ~Dropped(v, {me}, ins)
      BY <2>3, <3>2 DEF Revive, Dropped
    <3> QED BY <3>1, <3>3 DEF x
  <2> QED BY <2>2, <2>3
<1>2. ASSUME NEW u \in Reverted(PubAll(b, R), {me}, ins, del)
      PROVE  u \in PubAll(b, Reverted(R, {me}, ins, del))
  <2>1. PICK x \in PubAll(b, R) : ~Dropped(x, {me}, ins) /\ u = Revive(x, {me}, del)
    BY RevertedFrom
  <2>2. PICK v \in R : x = Pub(b, v)
    BY DEF PubAll
  <2> DEFINE y == Revive(v, {me}, del)
  <2>3. ~Dropped(v, {me}, ins) /\ u = Pub(b, y)
    BY <1>1, <2>1, <2>2
  <2>4. y \in Reverted(R, {me}, ins, del)
    BY <2>3, RevertedTo
  <2> HIDE DEF y
  <2> QED BY <2>3, <2>4 DEF PubAll
<1>3. ASSUME NEW u \in PubAll(b, Reverted(R, {me}, ins, del))
      PROVE  u \in Reverted(PubAll(b, R), {me}, ins, del)
  <2>1. PICK y \in Reverted(R, {me}, ins, del) : u = Pub(b, y)
    BY DEF PubAll
  <2>2. PICK v \in R : ~Dropped(v, {me}, ins) /\ y = Revive(v, {me}, del)
    BY RevertedFrom
  <2> DEFINE x == Pub(b, v)
  <2>3. ~Dropped(x, {me}, ins) /\ u = Revive(x, {me}, del)
    BY <1>1, <2>1, <2>2
  <2>4. x \in PubAll(b, R)
    BY DEF PubAll
  <2> HIDE DEF x
  <2>5. Revive(x, {me}, del) \in Reverted(PubAll(b, R), {me}, ins, del)
    BY <2>3, <2>4, RevertedTo
  <2> QED BY <2>3, <2>5
<1> QED BY <1>2, <1>3

-----------------------------------------------------------------------------
(* Statements keep keys unique.                                             *)

\* The pipeline's numbers.
LEMMA PipeNumbers ==
    ASSUME PipeInv
    PROVE  /\ PENDING \in Nat /\ PENDING # 0 /\ committed \in Nat /\ committed < PENDING
           /\ Len(wal) \in Nat /\ committed <= Len(wal) /\ Len(wal) < PENDING
           /\ nextOwner \in Nat /\ nextOwner <= PENDING
           /\ flush.batch \in Seq(Conns) /\ queue \in Seq(Conns)
           /\ flush.ok => Len(wal) = committed + Len(flush.batch)
           /\ Len(wal) + Len(queue) + Cardinality(Unqueued) < nextOwner
<1>1. PENDING \in Nat /\ nextOwner \in Nat /\ committed \in Nat
      /\ queue \in Seq(Conns) /\ flush.batch \in Seq(Conns)
  BY StoreAssumption DEF PENDING, PipeInv, OwnerInv, QueueInv, MarkInv
<1>2. Cardinality(Unqueued) \in Nat
  <2>1. Unqueued \in SUBSET Conns
    BY DEF Unqueued
  <2> QED BY <2>1, FewerConns
<1>3. Len(wal) + Len(queue) + Cardinality(Unqueued) < nextOwner /\ nextOwner <= PENDING
  BY DEF PipeInv, LsnInv
<1>4. Len(wal) = committed + (IF flush.ok THEN Len(flush.batch) ELSE 0)
  BY DEF PipeInv, MarkInv
<1>5. Len(queue) \in Nat /\ Len(flush.batch) \in Nat
  BY <1>1
<1> DEFINE n == Cardinality(Unqueued)
           l == Len(wal)
           q == Len(queue)
           m == Len(flush.batch)
<1>6. n \in Nat /\ q \in Nat /\ m \in Nat /\ l + q + n < nextOwner /\ l = committed + (IF flush.ok THEN m ELSE 0)
  BY <1>2, <1>3, <1>4, <1>5
<1> HIDE DEF PENDING, n, l, q, m
<1>7. l \in Nat /\ committed <= l /\ l < PENDING /\ PENDING # 0 /\ committed < PENDING
      /\ (flush.ok => l = committed + m)
  BY <1>1, <1>3, <1>6
<1> QED BY <1>1, <1>3, <1>6, <1>7 DEF n, l, q, m

\* The stamps of the tables.
LEMMA RowsStamps ==
    ASSUME NEW rw, NEW nv, NEW cm, RowsOk(rw, nv, cm), NEW t \in Tables
    PROVE  StampsOk(rw[t], cm)
BY DEF RowsOk, StampsOk

\* A row that is neither live for a writer nor being inserted by another ends
\* before what the writer inserts.
LEMMA NotLiveEnds ==
    ASSUME PENDING \in Nat, committed \in Nat, committed < PENDING, PENDING # 0,
           NEW t \in Tables, StampsOk(rows[t], committed), NEW me,
           NEW w \in rows[t], w \notin Live(t, me), w \notin ForeignInserts(t, me),
           NEW n, n.create = PENDING, n.owner = me
    PROVE  Ends(w, n) \/ Ends(w, w)
<1>1. /\ w.create \in (1..committed) \cup {PENDING} /\ w.del \in (0..committed) \cup {PENDING}
      /\ w.create = PENDING => w.del \in {0, PENDING}
  BY DEF StampsOk
<1>2. ~visible_to_writer(w, committed, me)
  BY DEF Live
<1>3. ~(w.create = PENDING /\ w.owner # me /\ w.del = 0)
  BY <1>2 DEF ForeignInserts
<1> HIDE DEF PENDING
<1>4. CASE w.create = PENDING
  <2>1. w.del = PENDING
    BY <1>1, <1>2, <1>3, <1>4 DEF visible_to_writer
  <2> QED BY <1>4, <2>1 DEF Ends
<1>5. CASE w.create # PENDING
  <2>1. w.create <= committed
    BY <1>1, <1>5
  <2>2. (w.del = PENDING /\ w.owner = me) \/ (w.del # 0 /\ w.del \in 0..committed /\ w.del # PENDING)
    BY <1>1, <1>2, <1>5, <2>1 DEF visible_to_writer
  <2> QED BY <2>2 DEF Ends
<1> QED BY <1>4, <1>5

\* What a live row looks like.
LEMMA LiveRow ==
    ASSUME PENDING \in Nat, committed \in Nat, committed < PENDING, PENDING # 0,
           NEW t \in Tables, StampsOk(rows[t], committed), NEW me, NEW v \in Live(t, me)
    PROVE  /\ v \in rows[t]
           /\ v.create = PENDING => v.owner = me /\ v.del = 0
           /\ v.del = 0 \/ (v.del = PENDING /\ v.owner # me)
           /\ ~Ends(v, v)
<1>1. v \in rows[t] /\ visible_to_writer(v, committed, me)
  BY DEF Live
<1>2. /\ v.create \in (1..committed) \cup {PENDING} /\ v.del \in (0..committed) \cup {PENDING}
      /\ v.create = PENDING => v.del \in {0, PENDING}
  BY <1>1 DEF StampsOk
<1> HIDE DEF PENDING
<1>3. v.create = PENDING => v.owner = me
  BY <1>1 DEF visible_to_writer
<1>4. v.del = 0 \/ (v.del = PENDING /\ v.owner # me)
  BY <1>1, <1>2 DEF visible_to_writer
<1>5. v.create = PENDING => v.del = 0
  BY <1>3, <1>4
<1>6. ~Ends(v, v)
  BY <1>2, <1>4, <1>5 DEF Ends
<1> QED BY <1>1, <1>3, <1>4, <1>5, <1>6

\* A writer sees each key once.
LEMMA LiveOnce ==
    ASSUME PENDING \in Nat, committed \in Nat, committed < PENDING, PENDING # 0,
           NEW t \in Tables, StampsOk(rows[t], committed), Keyed(rows[t]), NEW me,
           NEW v \in Live(t, me), NEW w \in Live(t, me), v.key = w.key
    PROVE  v = w
<1>1. ASSUME NEW x \in Live(t, me), NEW y \in Live(t, me) PROVE ~Ends(x, y)
  <2>1. /\ y \in rows[t]
        /\ y.create = PENDING => y.owner = me
        /\ x.del = 0 \/ (x.del = PENDING /\ x.owner # me)
    BY LiveRow
  <2>2. y.create \in (1..committed) \cup {PENDING}
    BY <2>1, LiveRow DEF StampsOk
  <2> HIDE DEF PENDING
  <2> QED BY <2>1, <2>2 DEF Ends
<1>2. v \in rows[t] /\ w \in rows[t]
  BY DEF Live
<1> QED BY <1>1, <1>2 DEF Keyed, Apart

\* A savepoint of another transaction, which has written nothing while c has the
\* lane, goes back to nothing.
LEMMA OtherSaves ==
    ASSUME OwnerInv, NEW c \in Conns, pc[c] = "writing", NEW d \in Conns, d # c,
           pc[d] \in {"open", "writing"}, NEW rw, WroteOk(rw), NEW t \in Tables, Keyed(rw[t]),
           NEW ins, NEW del
    PROVE  /\ \A v \in rw[t] : v.owner # owner[d]
           /\ Keyed(Reverted(rw[t], {owner[d]}, ins, del))
<1>1. pc[d] = "open" /\ owner[d] # 0 /\ ~Writing(d)
  BY DEF OwnerInv, Writing
<1>2. \A v \in rw[t] : v.owner \notin {owner[d]}
  BY <1>1 DEF WroteOk
<1>3. Reverted(rw[t], {owner[d]}, ins, del) = rw[t]
  BY <1>2, RevertedAbsent
<1> QED BY <1>2, <1>3

\* A version that is dropped anyway does not matter.
LEMMA RevertedDrop ==
    ASSUME NEW R, NEW n, NEW D, NEW ins, NEW del, Dropped(n, D, ins)
    PROVE  Reverted(R \cup {n}, D, ins, del) = Reverted(R, D, ins, del)
<1>1. {w \in R \cup {n} : ~Dropped(w, D, ins)} = {w \in R : ~Dropped(w, D, ins)}
  OBVIOUS
<1> QED BY <1>1 DEF Reverted

\* An INSERT: all rows of the key end before the new one.
LEMMA KeyInsert ==
    ASSUME PipeInv, SaveTypes, NEW rw, NEW nv, KeyOk(rw, nv), NEW c \in Conns, pc[c] = "writing",
           NEW t \in Tables, NEW n \in Version, n.create = PENDING, n.del = 0,
           n.owner = owner[c], n.vid = nv[t],
           \A w \in rw[t] : w.key = n.key => Ends(w, n) \/ Ends(w, w)
    PROVE  KeyOk([rw EXCEPT ![t] = rw[t] \cup {n}], [nv EXCEPT ![t] = nv[t] + 1])
<1> DEFINE rw2 == [rw EXCEPT ![t] = rw[t] \cup {n}]
           nv2 == [nv EXCEPT ![t] = nv[t] + 1]
<1>0. /\ RowsOk(rw, nv, committed) /\ WroteOk(rw) /\ SavesOk(rw, nv) /\ Nested(rw)
      /\ \A u \in Tables : Keyed(rw[u])
      /\ PENDING \in Nat /\ PENDING # 0 /\ committed \in Nat
  BY PipeNumbers DEF KeyOk
<1>1. rw \in [Tables -> SUBSET Version] /\ nv \in [Tables -> Nat \ {0}]
  BY <1>0 DEF RowsOk
<1> HIDE DEF PENDING
<1>2. /\ rw2 \in [Tables -> SUBSET Version] /\ nv2 \in [Tables -> Nat \ {0}]
      /\ rw2[t] = rw[t] \cup {n} /\ nv2[t] = nv[t] + 1
      /\ \A u \in Tables : u # t => rw2[u] = rw[u] /\ nv2[u] = nv[u]
      /\ \A u \in Tables : nv[u] \in Nat /\ nv2[u] \in Nat /\ nv[u] <= nv2[u]
  BY <1>1
<1> HIDE DEF rw2, nv2
<1>3. RowsOk(rw2, nv2, committed)
  <2>1. ASSUME NEW u \in Tables, NEW v \in rw2[u]
        PROVE  /\ v.vid < nv2[u]
               /\ v.create \in (1..committed) \cup {PENDING} /\ v.del \in (0..committed) \cup {PENDING}
               /\ v.create # PENDING /\ v.del # PENDING => v.owner = 0
               /\ v.create = PENDING => v.del \in {0, PENDING}
    <3>1. CASE v \in rw[u]
      <4>1. v.vid < nv[u] /\ v.vid \in Nat
        <5>1. v \in Version
          BY <1>1, <3>1
        <5> QED BY <1>0, <3>1, <5>1, VersionFields DEF RowsOk
      <4>2. v.vid < nv2[u]
        BY <1>2, <4>1
      <4> QED BY <1>0, <3>1, <4>2 DEF RowsOk
    <3>2. CASE u = t /\ v = n
      <4>1. v.vid < nv2[u]
        BY <1>2, <3>2
      <4> QED BY <1>0, <3>2, <4>1
    <3> QED BY <1>2, <2>1, <3>1, <3>2
  <2>2. ASSUME NEW u \in Tables, NEW v \in rw2[u], NEW w \in rw2[u], v.vid = w.vid PROVE v = w
    <3>1. ASSUME NEW x \in rw[t] PROVE x.vid # nv[t]
      <4>1. x \in Version
        BY <1>1
      <4>2. x.vid \in Nat /\ x.vid < nv[t] /\ nv[t] \in Nat
        BY <1>0, <1>2, <4>1, VersionFields DEF RowsOk
      <4> QED BY <4>2
    <3>2. CASE v \in rw[u] /\ w \in rw[u]
      BY <1>0, <2>2, <3>2 DEF RowsOk
    <3> QED BY <1>2, <2>2, <3>1, <3>2
  <2> QED BY <1>2, <2>1, <2>2 DEF RowsOk
<1>4. WroteOk(rw2)
  <2>1. owner[c] < nextOwner /\ \A d \in Conns : owner[c] = owner[d] /\ owner[c] # 0 => Writing(d)
    BY DEF PipeInv, OwnerInv, Writing
  <2> QED BY <1>0, <1>2, <2>1 DEF WroteOk
<1>5. \A u \in Tables : Keyed(rw2[u])
  <2>1. Keyed(rw[t] \cup {n})
    BY <1>0, KeyedAdd
  <2> QED BY <1>0, <1>2, <2>1
<1>6. SavesOk(rw2, nv2)
  <2> SUFFICES ASSUME NEW d \in Conns, pc[d] \in {"open", "writing"}, NEW a \in 1..Len(saves[d])
               PROVE  SaveKeyed(rw2, nv2, d, saves[d][a])
    BY DEF SavesOk
  <2> DEFINE sp == saves[d][a]
  <2>1. SaveKeyed(rw, nv, d, sp)
    BY <1>0 DEF SavesOk
  <2> SUFFICES ASSUME NEW u \in Tables
               PROVE  /\ \A x \in sp.ins \cup sp.del : x < nv2[u]
                      /\ Names(rw2[u], sp, owner[d])
                      /\ Keyed(Reverted(rw2[u], {owner[d]}, sp.ins, sp.del))
    BY DEF SaveKeyed
  <2> HIDE DEF sp
  <2>2. /\ \A x \in sp.ins \cup sp.del : x < nv[u]
        /\ Names(rw[u], sp, owner[d])
        /\ Keyed(Reverted(rw[u], {owner[d]}, sp.ins, sp.del))
    BY <2>1 DEF SaveKeyed
  <2>3. CASE u # t
    BY <1>2, <2>2, <2>3
  <2>4. CASE u = t
    <3>1. ~(nv[t] < nv[t]) /\ n.vid = nv[t]
      BY <1>2
    <3>2. n.vid \notin sp.ins /\ n.vid \notin sp.del
      BY <2>2, <2>4, <3>1
    <3>3. \A x \in sp.ins \cup sp.del : x < nv2[u]
      <4>1. sp.ins \cup sp.del \subseteq Nat
        <5>1. PICK L : saves[d] \in Seq(Saved(L))
          BY DEF SaveTypes
        <5>2. sp \in Saved(L)
          BY <5>1 DEF sp
        <5> QED BY <5>2 DEF Saved
      <4> QED BY <1>2, <2>2, <4>1
    <3>4. Names(rw2[u], sp, owner[d])
      BY <1>2, <2>2, <2>4, <3>2 DEF Names
    <3>5. Keyed(Reverted(rw2[u], {owner[d]}, sp.ins, sp.del))
      <4>1. CASE d = c
        <5>1. Dropped(n, {owner[d]}, sp.ins)
          BY <3>2, <4>1 DEF Dropped
        <5> QED BY <1>2, <2>2, <2>4, <5>1, RevertedDrop
      <4>2. CASE d # c
        BY <1>4, <1>5, <4>2, OtherSaves DEF PipeInv
      <4> QED BY <4>1, <4>2
    <3> QED BY <3>3, <3>4, <3>5
  <2> QED BY <2>3, <2>4
<1>7. Nested(rw2)
  <2> SUFFICES ASSUME NEW d \in Conns, pc[d] \in {"open", "writing"}, NEW u \in Tables,
                      NEW a \in 1..Len(saves[d]), NEW b \in 1..Len(saves[d]), a <= b,
                      NEW v \in rw2[u]
               PROVE  /\ v.vid \in saves[d][a].ins => v.vid \in saves[d][b].ins
                      /\ v.vid \in saves[d][a].del => v.vid \in saves[d][b].del
    BY DEF Nested, Within
  <2>1. CASE v \in rw[u]
    BY <1>0, <2>1 DEF Nested, Within
  <2>2. CASE u = t /\ v = n
    <3>1. \A x \in saves[d][a].ins \cup saves[d][a].del : x < nv[t]
      BY <1>0 DEF SavesOk, SaveKeyed
    <3>2. ~(nv[t] < nv[t])
      BY <1>2
    <3> QED BY <2>2, <3>1, <3>2
  <2> QED BY <1>2, <2>1, <2>2
<1>8. KeyOk(rw2, nv2)
  BY <1>3, <1>4, <1>5, <1>6, <1>7 DEF KeyOk
<1> QED BY <1>8 DEF rw2, nv2

\* The version a writer supersedes: it is its own if it is new, and was not
\* superseded, except perhaps by another writer.
Target(old, me) ==
    /\ old.create = PENDING => old.owner = me /\ old.del = 0
    /\ old.del = 0 \/ (old.del = PENDING /\ old.owner # me)

\* No other writer inserts the key of a version that is taken from another writer.
NotInserted(R, old, me) ==
    old.del = PENDING =>
        \A w \in R : w.key = old.key /\ w.create = PENDING /\ w.owner # me => w.del # 0

\* What is apart from the old version ends before it, superseded or revived.
LEMMA TargetEnds ==
    ASSUME PENDING \in Nat, PENDING # 0, NEW cm \in Nat, cm < PENDING, NEW R, StampsOk(R, cm),
           NEW me, NEW old \in R, Target(old, me), NotInserted(R, old, me),
           NEW w, w.key = old.key, StampsOk({w}, cm), Apart(w, old),
           w.create = PENDING /\ w.owner # me => w \in R,
           NEW n, n.create = old.create, old.create = PENDING => n.owner = me
    PROVE  Ends(w, n) \/ Ends(w, w)
<1>1. /\ w.create \in (1..cm) \cup {PENDING} /\ w.del \in (0..cm) \cup {PENDING}
      /\ w.create = PENDING => w.del \in {0, PENDING}
      /\ old.create \in (1..cm) \cup {PENDING} /\ old.del \in (0..cm) \cup {PENDING}
  BY DEF StampsOk
<1> HIDE DEF PENDING
<1>2. CASE Ends(w, old)
  <2>1. w.del = PENDING => old.create = PENDING
    BY <1>1, <1>2 DEF Ends
  <2> QED BY <1>2, <2>1 DEF Ends, Target
<1>3. CASE Ends(w, w)
  BY <1>3
<1>4. CASE Ends(old, old)
  BY <1>1, <1>4 DEF Ends, Target
<1>5. CASE Ends(old, w)
  <2>1. old.del = PENDING /\ old.owner # me
    BY <1>5 DEF Ends, Target
  <2>2. w.create = PENDING /\ w.owner # me
    BY <1>1, <1>5, <2>1 DEF Ends
  <2>3. w.del = PENDING
    BY <1>1, <2>1, <2>2 DEF NotInserted
  <2> QED BY <2>2, <2>3 DEF Ends
<1> QED BY <1>2, <1>3, <1>4, <1>5 DEF Apart

\* A DELETE, or the first half of an UPDATE or of an INSERT that clashes.
LEMMA KeySupersede ==
    ASSUME PipeInv, NEW rw, NEW nv, KeyOk(rw, nv), NEW c \in Conns, pc[c] = "writing",
           NEW t \in Tables, NEW old \in rw[t], Target(old, owner[c]),
           NotInserted(rw[t], old, owner[c])
    PROVE  KeyOk([rw EXCEPT ![t] = Supersede(rw[t], old, owner[c])], nv)
<1> DEFINE me == owner[c]
           z == [old EXCEPT !.del = PENDING, !.owner = me]
           rw2 == [rw EXCEPT ![t] = Supersede(rw[t], old, me)]
<1>0. /\ RowsOk(rw, nv, committed) /\ WroteOk(rw) /\ SavesOk(rw, nv) /\ Nested(rw)
      /\ \A u \in Tables : Keyed(rw[u])
      /\ PENDING \in Nat /\ PENDING # 0 /\ committed \in Nat /\ committed < PENDING
      /\ owner \in [Conns -> Nat] /\ me # 0
  BY PipeNumbers DEF KeyOk, PipeInv, OwnerInv
<1>1. rw \in [Tables -> SUBSET Version] /\ nv \in [Tables -> Nat \ {0}]
  BY <1>0 DEF RowsOk
<1>2. StampsOk(rw[t], committed)
  BY <1>0, RowsStamps
<1> HIDE DEF PENDING
<1>3. /\ z \in Version /\ z.vid = old.vid /\ z.key = old.key /\ z.val = old.val
      /\ z.create = old.create /\ z.del = PENDING /\ z.owner = me
  <2>1. old \in Version /\ PENDING \in 0..PENDING /\ me \in Nat
    BY <1>0, <1>1
  <2> QED BY <2>1 DEF Version
<1>4. /\ rw2 \in [Tables -> SUBSET Version] /\ rw2[t] = (rw[t] \ {old}) \cup {z}
      /\ \A u \in Tables : u # t => rw2[u] = rw[u]
  BY <1>1, <1>3 DEF Supersede
<1> HIDE DEF rw2, z
<1>5. RowsOk(rw2, nv, committed)
  <2>1. ASSUME NEW u \in Tables, NEW v \in rw2[u]
        PROVE  /\ v.vid < nv[u]
               /\ v.create \in (1..committed) \cup {PENDING} /\ v.del \in (0..committed) \cup {PENDING}
               /\ v.create # PENDING /\ v.del # PENDING => v.owner = 0
               /\ v.create = PENDING => v.del \in {0, PENDING}
    <3>1. CASE v \in rw[u]
      BY <1>0, <3>1 DEF RowsOk
    <3>2. CASE u = t /\ v = z
      BY <1>0, <1>3, <3>2 DEF RowsOk
    <3> QED BY <1>4, <2>1, <3>1, <3>2
  <2>2. ASSUME NEW u \in Tables, NEW v \in rw2[u], NEW w \in rw2[u], v.vid = w.vid PROVE v = w
    <3>1. \A x \in rw[t] : x.vid = old.vid => x = old
      BY <1>0 DEF RowsOk
    <3>2. CASE v \in rw[u] /\ w \in rw[u]
      BY <1>0, <2>2, <3>2 DEF RowsOk
    <3>3. CASE u # t
      BY <1>4, <2>2, <3>2, <3>3
    <3>4. CASE u = t
      BY <1>3, <1>4, <2>2, <3>1, <3>2, <3>4
    <3> QED BY <3>3, <3>4
  <2> QED BY <1>1, <1>4, <2>1, <2>2 DEF RowsOk
<1>6. WroteOk(rw2)
  <2>1. owner[c] < nextOwner /\ \A d \in Conns : owner[c] = owner[d] /\ owner[c] # 0 => Writing(d)
    BY DEF PipeInv, OwnerInv, Writing
  <2> QED BY <1>0, <1>3, <1>4, <2>1 DEF WroteOk
<1>7. \A u \in Tables : Keyed(rw2[u])
  <2>1. Keyed(rw[t] \ {old})
    BY <1>0, KeyedPart
  <2>2. ASSUME NEW w \in rw[t] \ {old}, w.key = z.key PROVE Ends(w, z) \/ Ends(w, w)
    <3>1. w.key = old.key /\ Apart(w, old)
      BY <1>0, <1>3, <2>2 DEF Keyed
    <3>2. StampsOk({w}, committed)
      BY <1>2 DEF StampsOk
    <3> QED BY <1>0, <1>2, <1>3, <3>1, <3>2, TargetEnds
  <2>3. Keyed((rw[t] \ {old}) \cup {z})
    BY <2>1, <2>2, KeyedAdd
  <2> QED BY <1>0, <1>4, <2>3
<1>8. SavesOk(rw2, nv)
  <2> SUFFICES ASSUME NEW d \in Conns, pc[d] \in {"open", "writing"}, NEW a \in 1..Len(saves[d])
               PROVE  SaveKeyed(rw2, nv, d, saves[d][a])
    BY DEF SavesOk
  <2> DEFINE sp == saves[d][a]
  <2>1. SaveKeyed(rw, nv, d, sp)
    BY <1>0 DEF SavesOk
  <2> SUFFICES ASSUME NEW u \in Tables
               PROVE  /\ \A x \in sp.ins \cup sp.del : x < nv[u]
                      /\ Names(rw2[u], sp, owner[d])
                      /\ Keyed(Reverted(rw2[u], {owner[d]}, sp.ins, sp.del))
    BY DEF SaveKeyed
  <2> HIDE DEF sp
  <2>2. /\ \A x \in sp.ins \cup sp.del : x < nv[u]
        /\ Names(rw[u], sp, owner[d])
        /\ Keyed(Reverted(rw[u], {owner[d]}, sp.ins, sp.del))
    BY <2>1 DEF SaveKeyed
  <2>3. CASE u # t
    BY <1>4, <2>2, <2>3
  <2>4. CASE u = t /\ d # c
    <3>1. /\ \A v \in rw2[u] : v.owner # owner[d]
          /\ Keyed(Reverted(rw2[u], {owner[d]}, sp.ins, sp.del))
      BY <1>6, <1>7, <2>4, OtherSaves DEF PipeInv
    <3>2. \A v \in rw[u] : v.owner # owner[d]
      BY <1>0, <2>4, OtherSaves DEF PipeInv
    <3>3. \A v \in rw2[u] : v.vid \notin sp.del /\ v.vid \notin sp.ins
      BY <1>3, <1>4, <2>2, <2>4, <3>2 DEF Names
    <3> QED BY <2>2, <3>1, <3>3 DEF Names
  <2>5. CASE u = t /\ d = c
    <3>1. old.vid \notin sp.del
      BY <1>0, <2>2, <2>5 DEF Target, Names
    <3>2. Names(rw2[u], sp, owner[d])
      BY <1>3, <1>4, <2>2, <2>5, <3>1 DEF Names, Target
    <3>3. Keyed(Reverted(rw2[u], {owner[d]}, sp.ins, sp.del))
      <4> DEFINE D == {me}
                 S == Reverted(rw[t], D, sp.ins, sp.del)
                 T == Reverted(rw[t] \ {old}, D, sp.ins, sp.del)
                 y == Revive(z, D, sp.del)
      <4>1. Keyed(S) /\ T \subseteq S
        BY <2>2, <2>5 DEF Reverted
      <4>2. Keyed(T)
        BY <4>1, KeyedPart
      <4>3. /\ y \in Version /\ y.vid = old.vid /\ y.key = old.key /\ y.val = old.val
            /\ y.create = old.create /\ y.del = 0
            /\ old.create = PENDING => y.owner = me
            /\ old.create # PENDING => y.owner = 0
        BY <1>0, <1>3, <3>1, ReviveFields
      <4>4. Reverted(rw2[t], D, sp.ins, sp.del) \subseteq T \cup {y}
        BY <1>4 DEF Reverted
      <4>5. Dropped(z, D, sp.ins) => Reverted(rw2[t], D, sp.ins, sp.del) \subseteq T
        BY <1>4 DEF Reverted
      <4> HIDE DEF S, T, y
      <4>6. CASE Dropped(z, D, sp.ins)
        BY <2>5, <4>2, <4>5, <4>6, KeyedPart
      <4>7. CASE ~Dropped(z, D, sp.ins) /\ old.del = 0
        <5>1. ~Dropped(old, D, sp.ins) /\ Revive(old, D, sp.del) = old
          BY <1>0, <1>3, <4>7 DEF Dropped, Revive, Target
        <5>2. old \in S
          BY <5>1, RevertedTo DEF S
        <5>3. y = old
          <6>1. old \in Version /\ y.owner = old.owner
            BY <1>0, <1>1, <4>3, <4>7 DEF Target, RowsOk
          <6> QED BY <4>3, <4>7, <6>1 DEF Version
        <5>4. Reverted(rw2[t], D, sp.ins, sp.del) \subseteq S
          BY <4>1, <4>4, <5>2, <5>3
        <5> QED BY <2>5, <4>1, <5>4, KeyedPart
      <4>8. CASE ~Dropped(z, D, sp.ins) /\ old.del # 0
        <5>1. old.del = PENDING /\ old.owner # me /\ old.create # PENDING
          BY <1>0, <4>8 DEF Target
        <5>2. ~Dropped(old, D, sp.ins) /\ Revive(old, D, sp.del) = old
          BY <5>1 DEF Dropped, Revive
        <5>3. old \in S
          BY <5>2, RevertedTo DEF S
        <5>4. ASSUME NEW w \in T, w.key = y.key PROVE Ends(w, y) \/ Ends(w, w)
          <6>1. PICK x \in rw[t] \ {old} : ~Dropped(x, D, sp.ins) /\ w = Revive(x, D, sp.del)
            BY RevertedFrom DEF T
          <6>2. x \in Version
            BY <1>1
          <6>3. w.vid = x.vid /\ w.create = x.create /\ (w = x \/ (x.owner = me /\ w.owner \in {0, me}))
                /\ (w # x /\ w.create = PENDING => w.owner = x.owner)
            BY <1>0, <6>1, <6>2, ReviveFields
          <6>4. w # old
            BY <1>0, <6>1, <6>3 DEF RowsOk
          <6>5. Apart(w, old)
            BY <4>1, <4>3, <5>3, <5>4, <6>4 DEF Keyed
          <6>6. StampsOk({w}, committed)
            <7>1. StampsOk(S, committed)
              BY <1>0, <1>2, RevertedStamps DEF S
            <7> QED BY <4>1, <7>1 DEF StampsOk
          <6>7. w.create = PENDING /\ w.owner # me => w \in rw[t]
            BY <6>1, <6>3
          <6> HIDE DEF D
          <6> QED BY <1>0, <1>2, <4>3, <5>1, <5>4, <6>5, <6>6, <6>7, TargetEnds
        <5>5. Keyed(T \cup {y})
          BY <4>2, <5>4, KeyedAdd
        <5> QED BY <2>5, <4>4, <5>5, KeyedPart
      <4> QED BY <4>6, <4>7, <4>8
    <3> QED BY <2>2, <3>2, <3>3
  <2> QED BY <2>3, <2>4, <2>5
<1>9. Nested(rw2)
  <2> SUFFICES ASSUME NEW d \in Conns, pc[d] \in {"open", "writing"}, NEW u \in Tables,
                      NEW a \in 1..Len(saves[d]), NEW b \in 1..Len(saves[d]), a <= b,
                      NEW v \in rw2[u]
               PROVE  /\ v.vid \in saves[d][a].ins => v.vid \in saves[d][b].ins
                      /\ v.vid \in saves[d][a].del => v.vid \in saves[d][b].del
    BY DEF Nested, Within
  <2>1. PICK w \in rw[u] : w.vid = v.vid
    BY <1>3, <1>4
  <2> QED BY <1>0, <2>1 DEF Nested, Within
<1>10. KeyOk(rw2, nv)
  BY <1>5, <1>6, <1>7, <1>8, <1>9 DEF KeyOk
<1> QED BY <1>10 DEF rw2

\* What is left of the invariant when only the rows change.
LEMMA RowsChange ==
    ASSUME PipeInv, SaveTypes, KeyOk(rows', nextVid'),
           UNCHANGED <<committed, pc, snap, owner, nextOwner, saves, queue, flush, wal>>
    PROVE  KeyInv'
<1>1. PipeInv'
  <2>1. OwnerInv'
    BY DEF PipeInv, OwnerInv
  <2>2. QueueInv'
    BY DEF PipeInv, QueueInv
  <2>3. LsnInv'
    BY DEF PipeInv, LsnInv, Unqueued
  <2>4. MarkInv'
    BY DEF PipeInv, MarkInv
  <2> QED BY <2>1, <2>2, <2>3, <2>4 DEF PipeInv
<1>2. SaveTypes'
  BY DEF SaveTypes
<1>3. KeyOk(rows, nextVid)'
  <2>1. WroteOk(rows)'
    BY DEF KeyOk, WroteOk, Writing
  <2>2. SavesOk(rows, nextVid)'
    <3>1. ASSUME NEW d \in Conns, pc[d] \in {"open", "writing"}, NEW a \in 1..Len(saves[d])
          PROVE  SaveKeyed(rows, nextVid, d, saves[d][a])'
      <4>1. SaveKeyed(rows', nextVid', d, saves[d][a])
        BY <3>1 DEF KeyOk, SavesOk
      <4> QED BY <4>1 DEF SaveKeyed
    <3> QED BY <3>1 DEF SavesOk
  <2>3. RowsOk(rows', nextVid', committed') /\ \A t \in Tables : Keyed(rows'[t])
    BY DEF KeyOk
  <2>4. Nested(rows)'
    BY DEF KeyOk, Nested
  <2> QED BY <2>1, <2>2, <2>3, <2>4 DEF KeyOk
<1> QED BY <1>1, <1>2, <1>3 DEF KeyInv

\* An INSERT of a free key, which may be the first row of one that fails.
LEMMA KeyInsertNew ==
    ASSUME KeyInv, NEW c \in Conns, pc[c] = "writing", NEW t \in Tables, NEW k \in Keys, NEW x \in Vals,
           KeyFree(t, owner[c], k, {})
    PROVE  KeyOk([rows EXCEPT ![t] = rows[t] \cup {NewVersion(t, k, x, owner[c])}],
                 [nextVid EXCEPT ![t] = nextVid[t] + 1])
<1> DEFINE me == owner[c]
           n == NewVersion(t, k, x, me)
<1>0. /\ PipeInv /\ SaveTypes /\ KeyOk(rows, nextVid) /\ RowsOk(rows, nextVid, committed)
      /\ PENDING \in Nat /\ PENDING # 0 /\ committed \in Nat /\ committed < PENDING
  BY PipeNumbers DEF KeyInv, KeyOk
<1>1. nextVid[t] \in Nat /\ me \in Nat /\ StampsOk(rows[t], committed)
  BY <1>0, RowsStamps DEF RowsOk, PipeInv, OwnerInv
<1> HIDE DEF PENDING
<1>2. /\ n \in Version /\ n.vid = nextVid[t] /\ n.key = k /\ n.create = PENDING /\ n.del = 0
      /\ n.owner = me
  BY <1>0, <1>1 DEF NewVersion, Version
<1>3. ASSUME NEW w \in rows[t], w.key = n.key PROVE Ends(w, n) \/ Ends(w, w)
  <2>1. w \notin Live(t, me) /\ w \notin ForeignInserts(t, me)
    BY <1>2, <1>3 DEF KeyFree
  <2> HIDE DEF n, me
  <2> QED BY <1>0, <1>1, <1>2, <2>1, NotLiveEnds
<1> HIDE DEF n
<1>4. KeyOk([rows EXCEPT ![t] = rows[t] \cup {n}], [nextVid EXCEPT ![t] = nextVid[t] + 1])
  BY <1>0, <1>2, <1>3, KeyInsert
<1> QED BY <1>4 DEF n

\* A version is superseded by a new one of a key that is free but for it.
LEMMA KeyReplace ==
    ASSUME KeyInv, NEW c \in Conns, pc[c] = "writing", NEW t \in Tables, NEW k \in Keys, NEW x \in Vals,
           NEW old \in rows[t], Target(old, owner[c]), NotInserted(rows[t], old, owner[c]),
           \A w \in rows[t] : w.key = k /\ w # old =>
               w \notin Live(t, owner[c]) /\ w \notin ForeignInserts(t, owner[c])
    PROVE  KeyOk([rows EXCEPT ![t] = Supersede(rows[t], old, owner[c])
                                       \cup {NewVersion(t, k, x, owner[c])}],
                 [nextVid EXCEPT ![t] = nextVid[t] + 1])
<1> DEFINE me == owner[c]
           n == NewVersion(t, k, x, me)
           z == [old EXCEPT !.del = PENDING, !.owner = me]
           S == Supersede(rows[t], old, me)
           rw == [rows EXCEPT ![t] = S]
<1>0. /\ PipeInv /\ SaveTypes /\ KeyOk(rows, nextVid) /\ RowsOk(rows, nextVid, committed)
      /\ PENDING \in Nat /\ PENDING # 0 /\ committed \in Nat /\ committed < PENDING
      /\ rows \in [Tables -> SUBSET Version]
  BY PipeNumbers DEF KeyInv, KeyOk, RowsOk
<1>1. nextVid[t] \in Nat /\ me \in Nat /\ StampsOk(rows[t], committed) /\ old \in Version
  BY <1>0, RowsStamps DEF RowsOk, PipeInv, OwnerInv
<1> HIDE DEF PENDING
<1>2. /\ n \in Version /\ n.vid = nextVid[t] /\ n.key = k /\ n.create = PENDING /\ n.del = 0
      /\ n.owner = me
  BY <1>0, <1>1 DEF NewVersion, Version
<1>3. z.del = PENDING /\ z.owner = me
  BY <1>1 DEF Version
<1>4. KeyOk(rw, nextVid)
  BY <1>0, KeySupersede
<1>5. rw[t] = S /\ S = (rows[t] \ {old}) \cup {z}
  BY <1>0 DEF Supersede
<1>6. ASSUME NEW w \in rw[t], w.key = n.key PROVE Ends(w, n) \/ Ends(w, w)
  <2>1. CASE w = z
    <3> HIDE DEF z, n
    <3> QED BY <1>0, <1>2, <1>3, <2>1 DEF Ends
  <2>2. CASE w \in rows[t] \ {old}
    <3>1. w \notin Live(t, me) /\ w \notin ForeignInserts(t, me) /\ w \in rows[t]
      BY <1>2, <1>6, <2>2
    <3> HIDE DEF n, me
    <3> QED BY <1>0, <1>1, <1>2, <3>1, NotLiveEnds
  <2> QED BY <1>5, <1>6, <2>1, <2>2
<1>7. [rw EXCEPT ![t] = rw[t] \cup {n}] = [rows EXCEPT ![t] = S \cup {n}]
  <2> HIDE DEF S, n
  <2> QED BY <1>0
<1> HIDE DEF n, rw
<1>8. KeyOk([rw EXCEPT ![t] = rw[t] \cup {n}], [nextVid EXCEPT ![t] = nextVid[t] + 1])
  BY <1>0, <1>2, <1>4, <1>6, KeyInsert
<1> QED BY <1>7, <1>8 DEF n

\* A version that UPDATE or DELETE may take is not superseded.
LEMMA UnsupersededTarget ==
    ASSUME PipeInv, KeyOk(rows, nextVid), NEW c \in Conns, NEW t \in Tables, NEW old \in rows[t],
           visible_to_writer(old, snap[c], owner[c]), NoConflict(old, snap[c], owner[c])
    PROVE  old.del = 0 /\ Target(old, owner[c]) /\ NotInserted(rows[t], old, owner[c])
<1>1. old.create = PENDING => old.owner = owner[c]
  BY DEF visible_to_writer
<1>2. old.del # PENDING
  BY DEF visible_to_writer, NoConflict
<1>3. snap[c] \in Nat /\ old.del \in Nat /\ PENDING # 0
  <2>1. old \in Version /\ snap[c] \in Nat
    BY DEF KeyOk, RowsOk, PipeInv, OwnerInv
  <2>2. PENDING \in Nat /\ PENDING # 0
    BY PipeNumbers
  <2>3. old.del \in 0..PENDING
    BY <2>1, VersionFields
  <2> HIDE DEF PENDING
  <2> QED BY <2>1, <2>2, <2>3
<1>4. ~(old.del # 0 /\ old.del <= snap[c]) /\ ~(old.del # 0 /\ old.del > snap[c])
  BY <1>2 DEF visible_to_writer, NoConflict
<1>5. old.del = 0
  BY <1>3, <1>4
<1> QED BY <1>1, <1>3, <1>5 DEF Target, NotInserted

\* DML keeps keys unique, unless DO UPDATE assigns the key.
LEMMA DmlKey ==
    ASSUME "rekey" \notin OnConflicts, KeyInv, NEW c \in Conns, Dml(c)
    PROVE  KeyInv'
<1> DEFINE me == owner[c]
<1>0. /\ PipeInv /\ SaveTypes /\ KeyOk(rows, nextVid) /\ RowsOk(rows, nextVid, committed)
      /\ PENDING \in Nat /\ PENDING # 0 /\ committed \in Nat /\ committed < PENDING
      /\ \A t \in Tables : StampsOk(rows[t], committed) /\ Keyed(rows[t])
  BY PipeNumbers, RowsStamps DEF KeyInv, KeyOk
<1>1. ASSUME NEW t \in Tables, NEW k \in Keys, NEW x \in Vals, InsertNew(c, t, k, x)
      PROVE  KeyInv'
  <2>1. /\ pc[c] = "writing" /\ KeyFree(t, me, k, {})
        /\ rows' = [rows EXCEPT ![t] = rows[t] \cup {NewVersion(t, k, x, me)}]
        /\ nextVid' = [nextVid EXCEPT ![t] = nextVid[t] + 1]
        /\ UNCHANGED <<committed, pc, snap, owner, nextOwner, saves, queue, flush, wal>>
    BY <1>1 DEF InsertNew, Statement, pipeVars
  <2>2. KeyOk(rows', nextVid')
    BY <2>1, KeyInsertNew
  <2> QED BY <1>0, <2>1, <2>2, RowsChange
<1>2. ASSUME NEW t \in Tables, NEW k \in Keys, NEW x \in Vals, Upsert(c, t, k, k, x)
      PROVE  KeyInv'
  <2>1. PICK old \in Live(t, me) :
          /\ old.key = k
          /\ Statement(c, t, Supersede(rows[t], old, me) \cup {NewVersion(t, k, x, me)},
                       <<DeleteOp(t, old), InsertOp(t, k, x)>>, 1)
    BY <1>2 DEF Upsert
  <2>2. /\ pc[c] = "writing"
        /\ rows' = [rows EXCEPT ![t] = Supersede(rows[t], old, me) \cup {NewVersion(t, k, x, me)}]
        /\ nextVid' = [nextVid EXCEPT ![t] = nextVid[t] + 1]
        /\ UNCHANGED <<committed, pc, snap, owner, nextOwner, saves, queue, flush, wal>>
    BY <2>1 DEF Statement, pipeVars
  <2>3. old \in rows[t] /\ Target(old, me)
    BY <1>0, LiveRow DEF Target
  <2>4. \A v \in ForeignInserts(t, me) : v.key # k
    BY <1>2 DEF Upsert
  <2>5. NotInserted(rows[t], old, me)
    BY <2>1, <2>4 DEF NotInserted, ForeignInserts, visible_to_writer
  <2>6. \A w \in rows[t] : w.key = k /\ w # old => w \notin Live(t, me) /\ w \notin ForeignInserts(t, me)
    BY <1>0, <2>1, <2>4, LiveOnce
  <2>7. KeyOk(rows', nextVid')
    BY <2>2, <2>3, <2>5, <2>6, KeyReplace
  <2> QED BY <1>0, <2>2, <2>7, RowsChange
<1>3. ASSUME NEW t \in Tables, NEW k \in Keys, NEW y \in Keys, NEW x \in Vals, Update(c, t, k, y, x)
      PROVE  KeyInv'
  <2>1. PICK old \in rows[t] :
          /\ visible_to_writer(old, snap[c], me) /\ NoConflict(old, snap[c], me)
          /\ KeyFree(t, me, y, {old})
          /\ Statement(c, t, Supersede(rows[t], old, me) \cup {NewVersion(t, y, x, me)},
                       <<DeleteOp(t, old), InsertOp(t, y, x)>>, 1)
    BY <1>3 DEF Update
  <2>2. /\ pc[c] = "writing"
        /\ rows' = [rows EXCEPT ![t] = Supersede(rows[t], old, me) \cup {NewVersion(t, y, x, me)}]
        /\ nextVid' = [nextVid EXCEPT ![t] = nextVid[t] + 1]
        /\ UNCHANGED <<committed, pc, snap, owner, nextOwner, saves, queue, flush, wal>>
    BY <2>1 DEF Statement, pipeVars
  <2>3. old.del = 0 /\ Target(old, me) /\ NotInserted(rows[t], old, me)
    BY <1>0, <2>1, UnsupersededTarget
  <2>4. \A w \in rows[t] : w.key = y /\ w # old => w \notin Live(t, me) /\ w \notin ForeignInserts(t, me)
    BY <2>1 DEF KeyFree
  <2>5. KeyOk(rows', nextVid')
    BY <2>2, <2>3, <2>4, KeyReplace
  <2> QED BY <1>0, <2>2, <2>5, RowsChange
<1>4. ASSUME NEW t \in Tables, NEW k \in Keys, Delete(c, t, k)
      PROVE  KeyInv'
  <2>1. PICK old \in rows[t] :
          /\ visible_to_writer(old, snap[c], me) /\ NoConflict(old, snap[c], me)
          /\ Statement(c, t, Supersede(rows[t], old, me), <<DeleteOp(t, old)>>, 0)
    BY <1>4 DEF Delete
  <2>2. /\ pc[c] = "writing"
        /\ rows' = [rows EXCEPT ![t] = Supersede(rows[t], old, me)]
        /\ nextVid' = [nextVid EXCEPT ![t] = nextVid[t] + 0]
        /\ UNCHANGED <<committed, pc, snap, owner, nextOwner, saves, queue, flush, wal>>
    BY <2>1 DEF Statement, pipeVars
  <2>3. nextVid' = nextVid
    <3>1. nextVid \in [Tables -> Nat \ {0}]
      BY <1>0 DEF RowsOk
    <3> QED BY <2>2, <3>1
  <2>4. old.del = 0 /\ Target(old, me) /\ NotInserted(rows[t], old, me)
    BY <1>0, <2>1, UnsupersededTarget
  <2>5. KeyOk(rows', nextVid')
    BY <1>0, <2>2, <2>3, <2>4, KeySupersede
  <2> QED BY <1>0, <2>2, <2>5, RowsChange
<1>5. ASSUME NEW t \in Tables, NEW k \in Keys, NEW y \in Keys, NEW x \in Vals,
             InsertDoUpdate(c, t, k, y, x)
      PROVE  Upsert(c, t, k, k, x)
  BY <1>5 DEF InsertDoUpdate
<1>6. ASSUME NEW t \in Tables, NEW k \in Keys, NEW x \in Vals, InsertReplace(c, t, k, x)
      PROVE  Upsert(c, t, k, k, x)
  BY <1>6 DEF InsertReplace
<1> QED BY <1>1, <1>2, <1>3, <1>4, <1>5, <1>6 DEF Dml

-----------------------------------------------------------------------------
(* The pipeline's steps.                                                    *)

\* The transactions of C end.
LEMMA OwnersEnd ==
    ASSUME OwnerInv, NEW C, EndTxns(C), nextOwner' = nextOwner
    PROVE  OwnerInv' /\ Unqueued' = Unqueued \ C
<1>1. /\ pc' = [c \in Conns |-> IF c \in C THEN "idle" ELSE pc[c]]
      /\ snap' = [c \in Conns |-> IF c \in C THEN 0 ELSE snap[c]]
      /\ owner' = [c \in Conns |-> IF c \in C THEN 0 ELSE owner[c]]
  BY DEF EndTxns
<1>2. \A c \in Conns : /\ c \in C => pc'[c] = "idle" /\ owner'[c] = 0
                       /\ c \notin C => pc'[c] = pc[c] /\ owner'[c] = owner[c]
  BY <1>1
<1>3. /\ pc' \in [Conns -> {"idle", "open", "writing", "queued"}]
      /\ snap' \in [Conns -> Nat] /\ owner' \in [Conns -> Nat] /\ nextOwner' \in Nat
  BY <1>1 DEF OwnerInv
<1>4. ASSUME NEW c \in Conns
      PROVE  /\ owner'[c] < nextOwner
             /\ pc'[c] = "idle" <=> owner'[c] = 0
             /\ \A d \in Conns : owner'[c] = owner'[d] /\ owner'[c] # 0 => c = d
             /\ \A d \in Conns : pc'[c] = "writing" /\ pc'[d] = "writing" => c = d
  <2>1. /\ owner \in [Conns -> Nat] /\ nextOwner \in Nat /\ owner[c] < nextOwner
        /\ pc[c] = "idle" <=> owner[c] = 0
        /\ \A d \in Conns : owner[c] = owner[d] /\ owner[c] # 0 => c = d
        /\ \A d \in Conns : pc[c] = "writing" /\ pc[d] = "writing" => c = d
    BY DEF OwnerInv
  <2>2. owner[c] \in Nat /\ 0 < nextOwner
    BY <2>1
  <2> QED BY <1>2, <2>1, <2>2
<1>5. Unqueued' = Unqueued \ C
  BY <1>2 DEF Unqueued
<1> QED BY <1>3, <1>4, <1>5 DEF OwnerInv

\* A transaction begins.
LEMMA BeginPipe == ASSUME PipeInv, NEW c \in Conns, Begin(c) PROVE PipeInv'
<1>0. /\ OwnerInv /\ QueueInv /\ LsnInv /\ MarkInv /\ nextOwner \in Nat /\ Len(wal) \in Nat
      /\ committed \in Nat
  BY PipeNumbers DEF PipeInv
<1>1. /\ pc[c] = "idle" /\ nextOwner <= MaxOwners /\ nextOwner' = nextOwner + 1
      /\ snap' = [snap EXCEPT ![c] = committed] /\ owner' = [owner EXCEPT ![c] = nextOwner]
      /\ pc' = [pc EXCEPT ![c] = "open"] /\ UNCHANGED <<committed, queue, flush, wal>>
  BY DEF Begin, Goto, storeVars, pipeVars
<1>2. /\ pc \in [Conns -> {"idle", "open", "writing", "queued"}]
      /\ snap \in [Conns -> Nat] /\ owner \in [Conns -> Nat]
  BY <1>0 DEF OwnerInv
<1>3. nextOwner # 0 /\ \A d \in Conns : owner[d] \in Nat /\ owner[d] < nextOwner
  <2>1. owner[c] \in Nat /\ owner[c] < nextOwner
    BY <1>0 DEF OwnerInv
  <2>2. nextOwner # 0
    BY <1>0, <2>1
  <2> QED BY <1>0, <2>2 DEF OwnerInv
<1>4. OwnerInv'
  <2>1. \A d \in Conns : /\ d = c => pc'[d] = "open" /\ owner'[d] = nextOwner
                         /\ d # c => pc'[d] = pc[d] /\ owner'[d] = owner[d]
    BY <1>1, <1>2
  <2>2. ASSUME NEW d \in Conns
        PROVE  /\ owner'[d] < nextOwner'
               /\ pc'[d] = "idle" <=> owner'[d] = 0
               /\ \A e \in Conns : owner'[d] = owner'[e] /\ owner'[d] # 0 => d = e
               /\ \A e \in Conns : pc'[d] = "writing" /\ pc'[e] = "writing" => d = e
    <3>1. \A e \in Conns : owner[e] # nextOwner
      BY <1>0, <1>3
    <3>2. owner'[d] < nextOwner + 1
      BY <1>0, <1>3, <2>1
    <3>3. \A e \in Conns : owner'[d] = owner'[e] /\ owner'[d] # 0 => d = e
      BY <1>0, <2>1, <3>1 DEF OwnerInv
    <3>4. (pc'[d] = "idle" <=> owner'[d] = 0)
          /\ \A e \in Conns : pc'[d] = "writing" /\ pc'[e] = "writing" => d = e
      BY <1>0, <1>3, <2>1 DEF OwnerInv
    <3> QED BY <1>1, <3>2, <3>3, <3>4
  <2> QED BY <1>0, <1>1, <1>2, <2>2 DEF OwnerInv
<1>5. QueueInv'
  BY <1>0, <1>1, <1>2, QueueSame
<1>6. LsnInv'
  BY <1>0, <1>1, <1>2, LsnBegin
<1>7. MarkInv'
  BY <1>0, <1>1 DEF MarkInv
<1> QED BY <1>4, <1>5, <1>6, <1>7 DEF PipeInv

\* A transaction takes the lane.
LEMMA WriterPipe == ASSUME PipeInv, NEW c \in Conns, EnsureWriter(c) PROVE PipeInv'
<1>0. OwnerInv /\ QueueInv /\ LsnInv /\ MarkInv
  BY DEF PipeInv
<1>1. /\ pc[c] = "open" /\ \A d \in Conns : pc[d] # "writing"
      /\ pc' = [pc EXCEPT ![c] = "writing"]
      /\ UNCHANGED <<snap, owner, nextOwner, committed, queue, flush, wal>>
  BY DEF EnsureWriter, Goto, LaneFree, storeVars, pipeVars
<1>2. pc \in [Conns -> {"idle", "open", "writing", "queued"}]
  BY <1>0 DEF OwnerInv
<1>3. \A d \in Conns : (d = c => pc'[d] = "writing") /\ (d # c => pc'[d] = pc[d])
  BY <1>1, <1>2
<1>4. OwnerInv'
  <2>1. \A d, e \in Conns : pc'[d] = "writing" /\ pc'[e] = "writing" => d = e
    BY <1>1, <1>3
  <2>2. \A d \in Conns : pc'[d] = "idle" <=> owner'[d] = 0
    BY <1>0, <1>1, <1>3 DEF OwnerInv
  <2> QED BY <1>0, <1>1, <1>2, <2>1, <2>2 DEF OwnerInv
<1>5. QueueInv'
  BY <1>0, <1>1, <1>3, QueueSame
<1>6. LsnInv'
  <2>1. Unqueued' = Unqueued
    BY <1>1, <1>3 DEF Unqueued
  <2> QED BY <1>0, <1>1, <2>1 DEF LsnInv
<1>7. MarkInv'
  BY <1>0, <1>1 DEF MarkInv
<1> QED BY <1>4, <1>5, <1>6, <1>7 DEF PipeInv

\* A commit is queued.
LEMMA CommitPipe == ASSUME PipeInv, NEW c \in Conns, Commit(c) PROVE PipeInv'
<1>0. /\ OwnerInv /\ QueueInv /\ LsnInv /\ MarkInv /\ nextOwner \in Nat /\ Len(wal) \in Nat
  BY PipeNumbers DEF PipeInv
<1>1. /\ pc[c] = "writing" /\ pc' = [pc EXCEPT ![c] = "queued"] /\ queue' = Append(queue, c)
      /\ UNCHANGED <<snap, owner, nextOwner, committed, flush, wal>>
  BY DEF Commit, Goto, storeVars
<1>2. pc \in [Conns -> {"idle", "open", "writing", "queued"}]
  BY <1>0 DEF OwnerInv
<1>3. \A d \in Conns : (d = c => pc'[d] = "queued") /\ (d # c => pc'[d] = pc[d])
  BY <1>1, <1>2
<1>4. OwnerInv'
  <2>1. \A d, e \in Conns : pc'[d] = "writing" /\ pc'[e] = "writing" => d = e
    BY <1>0, <1>3 DEF OwnerInv
  <2>2. \A d \in Conns : pc'[d] = "idle" <=> owner'[d] = 0
    BY <1>0, <1>1, <1>3 DEF OwnerInv
  <2> QED BY <1>0, <1>1, <1>2, <2>1, <2>2 DEF OwnerInv
<1>5. QueueInv'
  BY <1>0, <1>1, <1>2, QueuePush
<1>6. LsnInv'
  BY <1>0, <1>1, <1>2, LsnPush
<1>7. MarkInv'
  BY <1>0, <1>1 DEF MarkInv
<1> QED BY <1>4, <1>5, <1>6, <1>7 DEF PipeInv

\* A transaction that is not queued ends.
LEMMA EndPipe ==
    ASSUME PipeInv, NEW c \in Conns, pc[c] \in {"open", "writing"}, EndTxns({c}),
           UNCHANGED <<committed, nextOwner, queue, flush, wal>>
    PROVE  PipeInv'
<1>0. /\ OwnerInv /\ QueueInv /\ LsnInv /\ MarkInv /\ nextOwner \in Nat /\ Len(wal) \in Nat
      /\ Len(queue) \in Nat
  BY PipeNumbers DEF PipeInv
<1>1. OwnerInv' /\ Unqueued' = Unqueued \ {c}
  BY <1>0, OwnersEnd
<1>2. QueueInv'
  <2>1. pc' = [d \in Conns |-> IF d \in {c} THEN "idle" ELSE pc[d]]
    BY DEF EndTxns
  <2>2. \A d \in Conns : pc[d] = "queued" => pc'[d] = "queued"
    BY <2>1
  <2> QED BY <1>0, <2>2, QueueSame
<1>3. LsnInv'
  <2>1. Unqueued' \subseteq Unqueued /\ Len(wal') + Len(queue') <= Len(wal) + Len(queue)
    BY <1>0, <1>1
  <2> QED BY <1>0, <2>1, LsnFewer
<1>4. MarkInv'
  BY <1>0 DEF MarkInv
<1> QED BY <1>1, <1>2, <1>3, <1>4 DEF PipeInv

\* The members of a log that grows.
LEMMA LogGrows ==
    ASSUME NEW w, Len(w) \in Nat, w = [i \in 1..Len(w) |-> w[i]], NEW n \in Nat, NEW f,
           f = [i \in 1..n |-> f[i]]
    PROVE  Len(w \o f) = Len(w) + n /\ w \o f = [i \in 1..Len(w \o f) |-> (w \o f)[i]]
<1> DEFINE l == Len(w)
           S == {w[i] : i \in 1..l} \cup {f[i] : i \in 1..n}
<1>1. w \in Seq(S)
  <2>1. [i \in 1..l |-> w[i]] \in Seq(S)
    OBVIOUS
  <2> QED BY <2>1
<1>2. f \in Seq(S) /\ Len(f) = n
  <2>1. [i \in 1..n |-> f[i]] \in Seq(S) /\ Len([i \in 1..n |-> f[i]]) = n
    OBVIOUS
  <2> QED BY <2>1
<1> HIDE DEF S
<1>3. w \o f \in Seq(S) /\ Len(w \o f) = Len(w) + n
  BY <1>1, <1>2
<1> QED BY <1>3

\* A batch is drained and its append succeeds or fails.
LEMMA FlushPipe == ASSUME PipeInv, FlushBatch PROVE PipeInv'
<1>0. /\ OwnerInv /\ QueueInv /\ LsnInv /\ MarkInv /\ nextOwner \in Nat /\ Len(wal) \in Nat
      /\ Len(queue) \in Nat /\ committed \in Nat
  BY PipeNumbers DEF PipeInv
<1>1. /\ flush = NoFlush
      /\ UNCHANGED <<pc, snap, owner, nextOwner, committed>>
  BY DEF FlushBatch, storeVars, txnVars
<1>2. PICK n \in 1..Len(queue) :
        LET b == SubSeq(queue, 1, n) IN
        /\ queue' = SubSeq(queue, n + 1, Len(queue))
        /\ \/ /\ flush' = [ok |-> TRUE, batch |-> b]
              /\ wal' = wal \o [i \in 1..n |-> ops[b[i]]]
           \/ /\ flush' = [ok |-> FALSE, batch |-> b]
              /\ UNCHANGED wal
  BY DEF FlushBatch
<1> DEFINE b == SubSeq(queue, 1, n)
<1>3. /\ queue' = SubSeq(queue, n + 1, Len(queue))
      /\ \/ flush' = [ok |-> TRUE, batch |-> b] /\ wal' = wal \o [i \in 1..n |-> ops[b[i]]]
         \/ flush' = [ok |-> FALSE, batch |-> b] /\ wal' = wal
  BY <1>2
<1> HIDE DEF b
<1>4. QueueInv' /\ flush'.batch = b /\ Len(b) = n /\ Len(queue') = Len(queue) - n
  <2>1. b = SubSeq(queue, 1, n)
    BY DEF b
  <2>2. flush' \in {[ok |-> TRUE, batch |-> b], [ok |-> FALSE, batch |-> b]}
    BY <1>3
  <2> QED BY <1>0, <1>1, <1>3, <2>1, <2>2, QueueDrain
<1>5. Len(wal) = committed /\ wal = [i \in 1..Len(wal) |-> wal[i]]
  <2>1. flush.ok = TRUE /\ Len(flush.batch) = 0
    BY <1>1 DEF NoFlush
  <2> QED BY <1>0, <2>1 DEF MarkInv
<1>6. n \in Nat
  OBVIOUS
<1>7. MarkInv' /\ Len(wal') \in Nat /\ Len(wal') <= Len(wal) + n
  <2>1. CASE flush' = [ok |-> TRUE, batch |-> b] /\ wal' = wal \o [i \in 1..n |-> ops[b[i]]]
    <3> DEFINE f == [i \in 1..n |-> ops[b[i]]]
    <3>1. wal' = wal \o f /\ flush'.ok = TRUE
      BY <2>1
    <3>2. f = [i \in 1..n |-> f[i]]
      OBVIOUS
    <3> HIDE DEF f
    <3>3. Len(wal') = Len(wal) + n /\ wal' = [i \in 1..Len(wal') |-> wal'[i]]
      BY <1>0, <1>5, <1>6, <3>1, <3>2, LogGrows
    <3>4. Len(wal') = committed' + Len(flush'.batch)
      BY <1>1, <1>4, <1>5, <3>3
    <3> QED BY SMTT(30), <1>0, <1>1, <1>6, <3>1, <3>3, <3>4 DEF MarkInv
  <2>2. CASE flush' = [ok |-> FALSE, batch |-> b] /\ wal' = wal
    <3>1. wal' = wal /\ flush'.ok = FALSE
      BY <2>2
    <3>2. Len(wal') = committed' + 0 /\ Len(wal) <= Len(wal) + n
      BY <1>0, <1>1, <1>5, <1>6, <3>1
    <3> QED BY <1>0, <1>1, <1>5, <3>1, <3>2 DEF MarkInv
  <2> QED BY <1>3, <2>1, <2>2
<1>8. LsnInv'
  <2>1. Len(queue') \in Nat /\ Len(wal') + Len(queue') <= Len(wal) + Len(queue)
    BY <1>0, <1>4, <1>6, <1>7
  <2>2. Unqueued' = Unqueued
    BY <1>1 DEF Unqueued
  <2> QED BY <1>0, <1>1, <1>7, <2>1, <2>2, LsnFewer
<1>9. OwnerInv'
  BY <1>0, <1>1 DEF OwnerInv
<1> QED BY <1>4, <1>7, <1>8, <1>9 DEF PipeInv

\* The batch is over.
LEMMA BatchPipe ==
    ASSUME PipeInv, EndTxns(Range(flush.batch)), flush' = NoFlush,
           committed' = Len(wal), UNCHANGED <<nextOwner, queue, wal>>
    PROVE  PipeInv'
<1>0. /\ OwnerInv /\ QueueInv /\ LsnInv /\ MarkInv /\ nextOwner \in Nat /\ Len(wal) \in Nat
      /\ Len(queue) \in Nat
  BY PipeNumbers DEF PipeInv
<1>1. OwnerInv' /\ Unqueued' \subseteq Unqueued
  BY <1>0, OwnersEnd
<1>2. QueueInv'
  <2>1. \A d \in Conns : d \notin Range(flush.batch) => pc'[d] = pc[d]
    BY DEF EndTxns
  <2> QED BY <1>0, <2>1, QueueOver
<1>3. LsnInv'
  <2>1. Len(wal') + Len(queue') <= Len(wal) + Len(queue)
    BY <1>0
  <2> QED BY <1>0, <1>1, <2>1, LsnFewer
<1>4. MarkInv'
  <2>1. flush'.ok = TRUE /\ Len(flush'.batch) = 0
    BY DEF NoFlush
  <2>2. Len(wal') = committed' + 0
    BY <1>0
  <2> QED BY <1>0, <2>1, <2>2 DEF MarkInv
<1> QED BY <1>1, <1>2, <1>3, <1>4 DEF PipeInv

-----------------------------------------------------------------------------
(* Rolling back, publishing and savepoints keep keys unique.                *)

\* The transactions of C end over the rows that the step leaves.
LEMMA EndedKey ==
    ASSUME OwnerInv, SaveTypes, NEW C \in SUBSET Conns, EndTxns(C),
           nextVid' = nextVid, nextOwner' = nextOwner,
           RowsOk(rows', nextVid, committed'), WroteOk(rows'), \A t \in Tables : Keyed(rows'[t]),
           \A d \in Conns \ C : pc[d] \in {"open", "writing"} =>
               /\ \A a \in 1..Len(saves[d]) : SaveKeyed(rows', nextVid, d, saves[d][a])
               /\ \A t \in Tables : \A a, b \in 1..Len(saves[d]) :
                     a <= b => Within(rows'[t], saves[d][a], saves[d][b])
    PROVE  SaveTypes' /\ KeyOk(rows, nextVid)'
<1>1. /\ pc' = [c \in Conns |-> IF c \in C THEN "idle" ELSE pc[c]]
      /\ owner' = [c \in Conns |-> IF c \in C THEN 0 ELSE owner[c]]
      /\ saves' = [c \in Conns |-> IF c \in C THEN <<>> ELSE saves[c]]
  BY DEF EndTxns
<1>2. \A d \in Conns :
         /\ d \in C => pc'[d] = "idle" /\ owner'[d] = 0
         /\ d \notin C => pc'[d] = pc[d] /\ owner'[d] = owner[d] /\ saves'[d] = saves[d]
  BY <1>1
<1>3. SaveTypes'
  BY <1>1 DEF SaveTypes
<1>4. WroteOk(rows)'
  BY <1>2 DEF WroteOk, Writing
<1>5. SavesOk(rows, nextVid)'
  <2>1. ASSUME NEW d \in Conns, pc'[d] \in {"open", "writing"}, NEW a \in 1..Len(saves'[d])
        PROVE  SaveKeyed(rows, nextVid, d, saves[d][a])'
    <3>1. d \notin C /\ pc[d] \in {"open", "writing"} /\ owner'[d] = owner[d] /\ saves'[d] = saves[d]
      BY <1>2, <2>1
    <3>2. SaveKeyed(rows', nextVid, d, saves[d][a])
      BY <2>1, <3>1
    <3> QED BY <3>1, <3>2 DEF SaveKeyed
  <2> QED BY <2>1 DEF SavesOk
<1>6. Nested(rows)'
  <2>1. ASSUME NEW d \in Conns, pc'[d] \in {"open", "writing"}, NEW t \in Tables,
               NEW a \in 1..Len(saves'[d]), NEW b \in 1..Len(saves'[d]), a <= b
        PROVE  Within(rows[t], saves[d][a], saves[d][b])'
    <3>1. d \notin C /\ pc[d] \in {"open", "writing"} /\ saves'[d] = saves[d]
      BY <1>2, <2>1
    <3>2. Within(rows'[t], saves[d][a], saves[d][b])
      BY <2>1, <3>1
    <3> QED BY <3>1, <3>2
  <2> QED BY <2>1 DEF Nested
<1> QED BY <1>3, <1>4, <1>5, <1>6 DEF KeyOk

\* All tables, reverted.
AllReverted(D, ins, del) == [t \in Tables |-> Reverted(rows[t], D, ins, del)]

\* Reverted tables are tables.
LEMMA RevertedRows ==
    ASSUME PipeInv, RowsOk(rows, nextVid, committed), WroteOk(rows), NEW D, NEW ins, NEW del
    PROVE  /\ RowsOk(AllReverted(D, ins, del), nextVid, committed)
           /\ WroteOk(AllReverted(D, ins, del))
           /\ \A t \in Tables : \A u \in AllReverted(D, ins, del)[t] : \E v \in rows[t] :
                 ~Dropped(v, D, ins) /\ u = Revive(v, D, del) /\ u.vid = v.vid
<1> DEFINE rw == AllReverted(D, ins, del)
<1>0. PENDING \in Nat /\ PENDING # 0 /\ committed \in Nat /\ nextOwner \in Nat
  BY PipeNumbers
<1>1. rows \in [Tables -> SUBSET Version] /\ nextVid \in [Tables -> Nat \ {0}]
  BY DEF RowsOk
<1> HIDE DEF PENDING
<1>2. ASSUME NEW t \in Tables, NEW u \in rw[t]
      PROVE  \E v \in rows[t] :
                /\ ~Dropped(v, D, ins) /\ u = Revive(v, D, del) /\ u.vid = v.vid /\ u \in Version
                /\ u.create = v.create /\ u.del \in {0, v.del} /\ u.owner \in {0, v.owner}
                /\ u = v \/ (u.del = 0 /\ (u.create = PENDING \/ u.owner = 0))
  <2>1. PICK v \in rows[t] : ~Dropped(v, D, ins) /\ u = Revive(v, D, del)
    BY <1>2, RevertedFrom DEF AllReverted
  <2>2. v \in Version
    BY <1>1
  <2> QED BY <1>0, <2>1, <2>2, ReviveFields
<1>3. rw \in [Tables -> SUBSET Version]
  BY <1>2 DEF AllReverted
<1> HIDE DEF rw
<1>4. ASSUME NEW t \in Tables, NEW u \in rw[t]
      PROVE  /\ u.vid < nextVid[t]
             /\ u.create \in (1..committed) \cup {PENDING} /\ u.del \in (0..committed) \cup {PENDING}
             /\ u.create # PENDING /\ u.del # PENDING => u.owner = 0
             /\ u.create = PENDING => u.del \in {0, PENDING}
             /\ u.owner < nextOwner
             /\ \A c \in Conns : u.owner = owner[c] /\ u.owner # 0 => Writing(c)
  <2>1. PICK v \in rows[t] :
                /\ u.vid = v.vid
                /\ u.create = v.create /\ u.del \in {0, v.del} /\ u.owner \in {0, v.owner}
                /\ u = v \/ (u.del = 0 /\ (u.create = PENDING \/ u.owner = 0))
    BY <1>2
  <2>2. /\ v.vid < nextVid[t]
        /\ v.create \in (1..committed) \cup {PENDING} /\ v.del \in (0..committed) \cup {PENDING}
        /\ v.create # PENDING /\ v.del # PENDING => v.owner = 0
        /\ v.create = PENDING => v.del \in {0, PENDING}
    BY DEF RowsOk
  <2>3. v.owner < nextOwner /\ \A c \in Conns : v.owner = owner[c] /\ v.owner # 0 => Writing(c)
    BY DEF WroteOk
  <2>4. v.owner \in Nat
    BY <1>1, VersionFields
  <2>5. u.owner < nextOwner
    BY <1>0, <2>1, <2>3, <2>4
  <2> QED BY <1>0, <2>1, <2>2, <2>3, <2>5
<1>5. ASSUME NEW t \in Tables, NEW u \in rw[t], NEW w \in rw[t], u.vid = w.vid PROVE u = w
  <2>1. PICK v \in rows[t] : u = Revive(v, D, del) /\ u.vid = v.vid
    BY <1>2
  <2>2. PICK x \in rows[t] : w = Revive(x, D, del) /\ w.vid = x.vid
    BY <1>2
  <2>3. v = x
    BY <1>5, <2>1, <2>2 DEF RowsOk
  <2> QED BY <2>1, <2>2, <2>3
<1>6. RowsOk(rw, nextVid, committed)
  BY <1>1, <1>3, <1>4, <1>5 DEF RowsOk
<1>7. WroteOk(rw)
  BY <1>4 DEF WroteOk
<1> QED BY <1>2, <1>6, <1>7 DEF rw

\* Whole transactions roll back.
LEMMA RolledBackKey ==
    ASSUME KeyInv, NEW D, 0 \notin D, NEW d \in Conns, owner[d] \notin D,
           pc[d] \in {"open", "writing"},
           NEW rw, rw = AllReverted(D, {}, {})
    PROVE  /\ \A a \in 1..Len(saves[d]) : SaveKeyed(rw, nextVid, d, saves[d][a])
           /\ \A t \in Tables : \A a, b \in 1..Len(saves[d]) :
                 a <= b => Within(rw[t], saves[d][a], saves[d][b])
<1>0. /\ PENDING \in Nat /\ PENDING # 0 /\ owner[d] # 0
      /\ RowsOk(rows, nextVid, committed) /\ WroteOk(rows)
      /\ rows \in [Tables -> SUBSET Version]
  BY PipeNumbers DEF KeyInv, KeyOk, PipeInv, OwnerInv, RowsOk
<1>1. \A t \in Tables : \A u \in rw[t] : \E v \in rows[t] : u = Revive(v, D, {}) /\ u.vid = v.vid
  <2>1. PipeInv
    BY DEF KeyInv
  <2>2. \A t \in Tables : \A u \in rw[t] : \E v \in rows[t] :
           ~Dropped(v, D, {}) /\ u = Revive(v, D, {}) /\ u.vid = v.vid
    BY <1>0, <2>1, RevertedRows
  <2> QED BY <2>2
<1>2. ASSUME NEW a \in 1..Len(saves[d]), NEW t \in Tables
      PROVE  /\ \A x \in saves[d][a].ins \cup saves[d][a].del : x < nextVid[t]
             /\ Names(rw[t], saves[d][a], owner[d])
             /\ Keyed(Reverted(rw[t], {owner[d]}, saves[d][a].ins, saves[d][a].del))
  <2> DEFINE sp == saves[d][a]
  <2>1. SaveKeyed(rows, nextVid, d, sp)
    BY DEF KeyInv, KeyOk, SavesOk
  <2> HIDE DEF sp
  <2>2. /\ \A x \in sp.ins \cup sp.del : x < nextVid[t]
        /\ Names(rows[t], sp, owner[d])
        /\ Keyed(Reverted(rows[t], {owner[d]}, sp.ins, sp.del))
    BY <2>1 DEF SaveKeyed
  <2>3. Names(rw[t], sp, owner[d])
    <3>1. ASSUME NEW u \in rw[t], u.vid \in sp.ins \cup sp.del PROVE u \in rows[t]
      <4>1. PICK v \in rows[t] : u = Revive(v, D, {}) /\ u.vid = v.vid
        BY <1>1
      <4>2. v.owner = owner[d]
        BY <2>2, <3>1, <4>1 DEF Names
      <4>3. u = v
        BY <4>1, <4>2 DEF Revive
      <4> QED BY <4>3
    <3> QED BY <2>2, <3>1 DEF Names
  <2>4. Keyed(Reverted(rw[t], {owner[d]}, sp.ins, sp.del))
    <3>1. rw[t] = Reverted(rows[t], D, {}, {}) /\ rows[t] \in SUBSET Version
      BY <1>0 DEF AllReverted
    <3>2. Reverted(rw[t], {owner[d]}, sp.ins, sp.del)
            = Reverted(Reverted(rows[t], {owner[d]}, sp.ins, sp.del), D, {}, {})
      BY <1>0, <3>1, RevertedCommute
    <3>3. Reverted(rows[t], {owner[d]}, sp.ins, sp.del) \in SUBSET Version
      <4>1. StampsOk(rows[t], committed) /\ committed \in Nat
        BY <1>0, RowsStamps, PipeNumbers DEF KeyInv
      <4>2. StampsOk(Reverted(rows[t], {owner[d]}, sp.ins, sp.del), committed)
        BY <1>0, <4>1, RevertedStamps
      <4> QED BY <4>2 DEF StampsOk
    <3> QED BY <1>0, <2>2, <3>2, <3>3, KeyedReverted
  <2> QED BY <2>2, <2>3, <2>4 DEF sp
<1>3. ASSUME NEW t \in Tables, NEW a \in 1..Len(saves[d]), NEW b \in 1..Len(saves[d]), a <= b
      PROVE  Within(rw[t], saves[d][a], saves[d][b])
  <2>1. Within(rows[t], saves[d][a], saves[d][b])
    BY <1>3 DEF KeyInv, KeyOk, Nested
  <2> QED BY <1>1, <2>1 DEF Within
<1> QED BY <1>2, <1>3 DEF SaveKeyed

\* A transaction, or a batch whose append failed, rolls back.
LEMMA RollbackStep ==
    ASSUME KeyInv, NEW C \in SUBSET Conns, \A c \in C : pc[c] # "idle", EndTxns(C),
           nextVid' = nextVid, nextOwner' = nextOwner, committed' = committed,
           rows' = AllReverted({owner[c] : c \in C}, {}, {})
    PROVE  SaveTypes' /\ KeyOk(rows, nextVid)'
<1> DEFINE D == {owner[c] : c \in C}
<1>0. /\ PipeInv /\ SaveTypes /\ OwnerInv /\ RowsOk(rows, nextVid, committed) /\ WroteOk(rows)
      /\ rows \in [Tables -> SUBSET Version] /\ PENDING \in Nat
      /\ \A t \in Tables : Keyed(rows[t])
  BY PipeNumbers DEF KeyInv, KeyOk, PipeInv, RowsOk
<1>1. 0 \notin D /\ \A d \in Conns \ C : pc[d] # "idle" => owner[d] \notin D
  BY <1>0 DEF OwnerInv
<1> HIDE DEF D
<1>2. rows' = AllReverted(D, {}, {})
  BY DEF D
<1>3. RowsOk(rows', nextVid, committed') /\ WroteOk(rows')
  BY <1>0, <1>2, RevertedRows
<1>4. \A t \in Tables : Keyed(rows'[t])
  BY <1>0, <1>2, KeyedReverted DEF AllReverted
<1>5. ASSUME NEW d \in Conns \ C, pc[d] \in {"open", "writing"}
      PROVE  /\ \A a \in 1..Len(saves[d]) : SaveKeyed(rows', nextVid, d, saves[d][a])
             /\ \A t \in Tables : \A a, b \in 1..Len(saves[d]) :
                   a <= b => Within(rows'[t], saves[d][a], saves[d][b])
  <2>1. owner[d] \notin D /\ d \in Conns
    BY <1>1, <1>5
  <2> QED BY <1>1, <1>2, <1>5, <2>1, RolledBackKey
<1> QED BY <1>0, <1>3, <1>4, <1>5, EndedKey

\* rollback_owner on one table.
LEMMA RolledBackIs ==
    ASSUME NEW R, NEW me
    PROVE  RolledBack(R, me) = Reverted(R, {me}, {}, {})
<1> DEFINE K == {w \in R : ~(Mine(w, me) /\ w.create = PENDING)}
           F(v) == IF Mine(v, me) /\ v.del = PENDING THEN [v EXCEPT !.del = 0, !.owner = 0] ELSE v
<1>1. K = {w \in R : ~Dropped(w, {me}, {})}
  BY DEF Dropped, Mine
<1>2. \A v \in K : F(v) = Revive(v, {me}, {})
  BY DEF Revive, Mine
<1>3. RolledBack(R, me) = {F(v) : v \in K} /\ Reverted(R, {me}, {}, {}) = {Revive(v, {me}, {}) : v \in K}
  BY <1>1 DEF RolledBack, Reverted
<1> HIDE DEF F, K
<1> QED BY <1>2, <1>3

\* ROLLBACK.
LEMMA RollbackKey == ASSUME KeyInv, NEW c \in Conns, Rollback(c) \/ CommitEmpty(c) PROVE KeyInv'
<1>0. PipeInv /\ SaveTypes /\ OwnerInv /\ KeyOk(rows, nextVid)
  BY DEF KeyInv, PipeInv
<1>1. /\ pc[c] \in {"open", "writing"} /\ EndTxns({c})
      /\ UNCHANGED <<nextVid, committed, nextOwner, queue, flush, wal>>
      /\ \/ rows' = rows
         \/ rows' = [t \in Tables |-> RolledBack(rows[t], owner[c])]
  BY DEF Rollback, CommitEmpty, storeVars, pipeVars
<1>2. PipeInv'
  BY <1>0, <1>1, EndPipe
<1>3. CASE rows' = rows
  <2>1. /\ RowsOk(rows', nextVid, committed') /\ WroteOk(rows') /\ \A t \in Tables : Keyed(rows'[t])
        /\ {c} \in SUBSET Conns
    BY <1>0, <1>1, <1>3 DEF KeyOk
  <2>2. ASSUME NEW d \in Conns \ {c}, pc[d] \in {"open", "writing"}
        PROVE  /\ \A a \in 1..Len(saves[d]) : SaveKeyed(rows', nextVid, d, saves[d][a])
               /\ \A t \in Tables : \A a, b \in 1..Len(saves[d]) :
                     a <= b => Within(rows'[t], saves[d][a], saves[d][b])
    BY <1>0, <1>3, <2>2 DEF KeyOk, SavesOk, Nested
  <2>3. SaveTypes' /\ KeyOk(rows, nextVid)'
    BY <1>0, <1>1, <2>1, <2>2, EndedKey
  <2> QED BY <1>2, <2>3 DEF KeyInv
<1>4. CASE rows' = [t \in Tables |-> RolledBack(rows[t], owner[c])]
  <2>1. \A R : RolledBack(R, owner[c]) = Reverted(R, {owner[c]}, {}, {})
    BY RolledBackIs
  <2>2. {owner[d] : d \in {c}} = {owner[c]}
    OBVIOUS
  <2>3. rows' = AllReverted({owner[d] : d \in {c}}, {}, {})
    BY <1>4, <2>1, <2>2 DEF AllReverted
  <2>4. SaveTypes' /\ KeyOk(rows, nextVid)'
    BY <1>1, <2>3, RollbackStep
  <2> QED BY <1>2, <2>4 DEF KeyInv
<1> QED BY <1>1, <1>3, <1>4

\* The append of a batch failed.
LEMMA DiscardKey == ASSUME KeyInv, Discard PROVE KeyInv'
<1> DEFINE b == flush.batch
           C == Range(b)
           D == {owner[c] : c \in C}
<1>0. PipeInv /\ SaveTypes /\ OwnerInv /\ QueueInv /\ KeyOk(rows, nextVid)
  BY DEF KeyInv, PipeInv
<1>1. /\ ~flush.ok /\ EndTxns(C) /\ flush' = NoFlush
      /\ UNCHANGED <<nextVid, committed, nextOwner, queue, wal>>
      /\ rows' = [t \in Tables |->
                     {v \in rows[t] : ~(\E i \in 1..Len(b) : owner[b[i]] = v.owner)} \cup
                     UNION {RolledBack({v \in rows[t] : Mine(v, owner[b[i]])},
                                       owner[b[i]]) : i \in 1..Len(b)}]
  BY DEF Discard
<1>2. /\ C \in SUBSET Conns /\ \A c \in C : pc[c] = "queued"
      /\ \A x : x \in D <=> \E i \in 1..Len(b) : owner[b[i]] = x
  <2>1. /\ \A d : d \in C <=> \E i \in 1..Len(b) : b[i] = d
        /\ C \in SUBSET Conns /\ \A c \in C : pc[c] = "queued"
    BY <1>0, QueueApart
  <2> HIDE DEF C, b
  <2>2. \A x : x \in D <=> \E i \in 1..Len(b) : owner[b[i]] = x
    BY <2>1
  <2> QED BY <2>1, <2>2
<1> HIDE DEF D, C
<1>3. PipeInv'
  <2>1. committed' = Len(wal)
    <3>1. Len(wal) = committed + 0 /\ committed \in Nat
      BY <1>0, <1>1 DEF PipeInv, MarkInv
    <3> QED BY <1>1, <3>1
  <2> QED BY <1>0, <1>1, <2>1, BatchPipe DEF C
<1>4. ASSUME NEW t \in Tables PROVE rows'[t] = Reverted(rows[t], D, {}, {})
  <2> DEFINE M(i) == {v \in rows[t] : Mine(v, owner[b[i]])}
             U(i) == RolledBack(M(i), owner[b[i]])
             A == {v \in rows[t] : ~(\E i \in 1..Len(b) : owner[b[i]] = v.owner)}
  <2>1. rows'[t] = A \cup UNION {U(i) : i \in 1..Len(b)}
    BY <1>1
  <2>2. ASSUME NEW i \in 1..Len(b), NEW v \in M(i)
        PROVE  /\ v \in rows[t]
               /\ Dropped(v, D, {}) <=> Dropped(v, {owner[b[i]]}, {})
               /\ Revive(v, D, {}) = Revive(v, {owner[b[i]]}, {})
    <3>1. v \in rows[t] /\ v.owner = owner[b[i]] /\ v.owner \in D
      BY <1>2, <2>2 DEF Mine
    <3> QED BY <3>1 DEF Dropped, Revive
  <2>3. ASSUME NEW i \in 1..Len(b) PROVE U(i) = Reverted(M(i), {owner[b[i]]}, {}, {})
    BY RolledBackIs
  <2>4. ASSUME NEW u \in rows'[t] PROVE u \in Reverted(rows[t], D, {}, {})
    <3>1. CASE u \in A
      <4>1. u \in rows[t] /\ u.owner \notin D
        BY <1>2, <3>1
      <4>2. ~Dropped(u, D, {}) /\ Revive(u, D, {}) = u
        BY <4>1 DEF Dropped, Revive
      <4>3. Revive(u, D, {}) \in Reverted(rows[t], D, {}, {})
        BY <4>1, <4>2, RevertedTo
      <4> QED BY <4>2, <4>3
    <3>2. ASSUME NEW i \in 1..Len(b), u \in U(i) PROVE u \in Reverted(rows[t], D, {}, {})
      <4> HIDE DEF M, U
      <4>1. PICK v \in M(i) : ~Dropped(v, {owner[b[i]]}, {}) /\ u = Revive(v, {owner[b[i]]}, {})
        <5>1. u \in Reverted(M(i), {owner[b[i]]}, {}, {})
          BY <2>3, <3>2
        <5> QED BY <5>1, RevertedFrom
      <4>2. v \in rows[t] /\ ~Dropped(v, D, {}) /\ u = Revive(v, D, {})
        BY <2>2, <4>1
      <4>3. Revive(v, D, {}) \in Reverted(rows[t], D, {}, {})
        BY <4>2, RevertedTo
      <4> QED BY <4>2, <4>3
    <3> HIDE DEF U, A
    <3> QED BY <2>1, <2>4, <3>1, <3>2
  <2>5. ASSUME NEW u \in Reverted(rows[t], D, {}, {}) PROVE u \in rows'[t]
    <3>1. PICK v \in rows[t] : ~Dropped(v, D, {}) /\ u = Revive(v, D, {})
      BY RevertedFrom
    <3>2. CASE v.owner \notin D
      <4>1. u = v
        BY <3>1, <3>2 DEF Revive
      <4>2. v \in A
        BY <1>2, <3>2
      <4> HIDE DEF U, A
      <4> QED BY <2>1, <4>1, <4>2
    <3>3. CASE v.owner \in D
      <4>1. PICK i \in 1..Len(b) : owner[b[i]] = v.owner
        BY <1>2, <3>3
      <4>2. v \in M(i)
        BY <4>1 DEF Mine
      <4> HIDE DEF M, U, A
      <4>3. ~Dropped(v, {owner[b[i]]}, {}) /\ u = Revive(v, {owner[b[i]]}, {})
        BY <2>2, <3>1, <4>2
      <4>4. u \in U(i)
        BY <2>3, <4>2, <4>3, RevertedTo
      <4> QED BY <2>1, <4>4
    <3> QED BY <3>2, <3>3
  <2> QED BY <2>4, <2>5
<1>5. rows' = AllReverted(D, {}, {})
  <2>1. rows' = [t \in Tables |-> rows'[t]]
    BY <1>1
  <2> QED BY <1>4, <2>1 DEF AllReverted
<1>6. SaveTypes' /\ KeyOk(rows, nextVid)'
  <2>1. \A c \in C : pc[c] # "idle"
    BY <1>2
  <2> QED BY <1>1, <1>2, <1>5, <2>1, RollbackStep DEF D
<1> QED BY <1>3, <1>6 DEF KeyInv

\* The LSNs of a durable batch.
LEMMA BatchLsnRange ==
    ASSUME PipeInv, flush.ok, NEW x, InBatch(flush.batch, x)
    PROVE  LsnFor(flush.batch, x) \in (committed + 1)..Len(wal)
<1> DEFINE b == flush.batch
           I == {i \in 1..Len(b) : owner[b[i]] = x}
<1>1. /\ committed \in Nat /\ Len(wal) = committed + Len(b) /\ Len(b) \in Nat
  BY PipeNumbers
<1>2. I \subseteq 1..Len(b) /\ I # {}
  BY DEF InBatch
<1> HIDE DEF I
<1>3. I \subseteq Nat /\ \A i \in I : i <= Len(b)
  BY <1>1, <1>2
<1>4. Max(I) \in I
  BY <1>1, <1>2, <1>3, MaxOfBounded
<1>5. Max(I) \in 1..Len(b)
  BY <1>2, <1>4
<1>6. LsnFor(b, x) = Len(wal) - Len(b) + Max(I)
  BY DEF LsnFor, CommitLsn, I
<1> HIDE DEF b
<1>7. LsnFor(b, x) \in (committed + 1)..Len(wal)
  BY <1>1, <1>5, <1>6
<1> QED BY <1>7 DEF b

\* A durable batch is published.
LEMMA PublishKey == ASSUME KeyInv, Publish PROVE KeyInv'
<1> DEFINE b == flush.batch
           C == Range(b)
<1>0. /\ PipeInv /\ SaveTypes /\ OwnerInv /\ QueueInv /\ KeyOk(rows, nextVid)
      /\ RowsOk(rows, nextVid, committed) /\ WroteOk(rows)
      /\ rows \in [Tables -> SUBSET Version] /\ nextVid \in [Tables -> Nat \ {0}]
  BY DEF KeyInv, PipeInv, KeyOk, RowsOk
<1>1. /\ flush.ok /\ EndTxns(C) /\ flush' = NoFlush /\ committed' = Len(wal)
      /\ UNCHANGED <<nextVid, nextOwner, queue, wal>>
      /\ rows' = [t \in Tables |->
                     {IF {i \in 1..Len(b) : owner[b[i]] = v.owner} = {} THEN v
                      ELSE Finalized(v, CommitLsn(b, Max({i \in 1..Len(b) : owner[b[i]] = v.owner}))) :
                         v \in rows[t]}]
  BY DEF Publish
<1>2. PipeInv'
  BY <1>0, <1>1, BatchPipe
<1>3. /\ PENDING \in Nat /\ PENDING # 0 /\ committed \in Nat /\ committed < PENDING
      /\ Len(wal) \in Nat /\ committed <= Len(wal) /\ Len(wal) < PENDING /\ nextOwner \in Nat
  BY <1>0, PipeNumbers
<1>4. /\ C \in SUBSET Conns /\ \A c \in C : pc[c] = "queued"
      /\ \A x : InBatch(b, x) <=> \E c \in C : owner[c] = x
  <2>1. /\ \A d : d \in C <=> \E i \in 1..Len(b) : b[i] = d
        /\ C \in SUBSET Conns /\ \A c \in C : pc[c] = "queued"
    BY <1>0, QueueApart
  <2> HIDE DEF C, b
  <2> QED BY <2>1 DEF InBatch
<1>5. \A t \in Tables : rows'[t] = PubAll(b, rows[t])
  <2>1. \A v : Pub(b, v) = IF {i \in 1..Len(b) : owner[b[i]] = v.owner} = {} THEN v
                 ELSE Finalized(v, CommitLsn(b, Max({i \in 1..Len(b) : owner[b[i]] = v.owner})))
    <3> TAKE v
    <3>1. InBatch(b, v.owner) <=> {i \in 1..Len(b) : owner[b[i]] = v.owner} # {}
      BY DEF InBatch
    <3> QED BY <3>1 DEF Pub, LsnFor
  <2> QED BY <1>1, <2>1 DEF PubAll
<1>6. \A x : InBatch(b, x) => LsnFor(b, x) \in (committed + 1)..Len(wal)
  BY <1>0, <1>1, BatchLsnRange
<1> HIDE DEF b, C, PENDING
<1>7. BatchLsns(b, committed)
  BY <1>3, <1>6 DEF BatchLsns
<1>8. ~InBatch(b, 0) /\ \A d \in Conns \ C : pc[d] \in {"open", "writing"} =>
                             owner[d] # 0 /\ ~InBatch(b, owner[d])
  BY <1>0, <1>4 DEF OwnerInv
<1>9. ASSUME NEW t \in Tables, NEW u \in rows'[t]
      PROVE  \E v \in rows[t] :
                /\ u = Pub(b, v) /\ u \in Version /\ u.vid = v.vid
                /\ ~InBatch(b, v.owner) => u = v
                /\ InBatch(b, v.owner) =>
                     /\ u.owner = 0 /\ u.create = IF v.create = PENDING THEN LsnFor(b, v.owner) ELSE v.create
                     /\ u.del = IF v.del = PENDING THEN LsnFor(b, v.owner) ELSE v.del
  <2>1. PICK v \in rows[t] : u = Pub(b, v)
    BY <1>5, <1>9 DEF PubAll
  <2>2. v \in Version
    BY <1>0
  <2> QED BY <1>3, <1>7, <2>1, <2>2, PubFields
<1>10. RowsOk(rows', nextVid, Len(wal)) /\ WroteOk(rows')
  <2>1. ASSUME NEW t \in Tables, NEW u \in rows'[t]
        PROVE  /\ u.vid < nextVid[t] /\ u \in Version
               /\ u.create \in (1..Len(wal)) \cup {PENDING} /\ u.del \in (0..Len(wal)) \cup {PENDING}
               /\ u.create # PENDING /\ u.del # PENDING => u.owner = 0
               /\ u.create = PENDING => u.del \in {0, PENDING}
               /\ u.owner < nextOwner
               /\ \A c \in Conns : u.owner = owner[c] /\ u.owner # 0 => Writing(c)
    <3>1. PICK v \in rows[t] :
                /\ u \in Version /\ u.vid = v.vid
                /\ ~InBatch(b, v.owner) => u = v
                /\ InBatch(b, v.owner) =>
                     /\ u.owner = 0 /\ u.create = IF v.create = PENDING THEN LsnFor(b, v.owner) ELSE v.create
                     /\ u.del = IF v.del = PENDING THEN LsnFor(b, v.owner) ELSE v.del
      BY <1>9
    <3>2. /\ v.vid < nextVid[t]
          /\ v.create \in (1..committed) \cup {PENDING} /\ v.del \in (0..committed) \cup {PENDING}
          /\ v.create # PENDING /\ v.del # PENDING => v.owner = 0
          /\ v.create = PENDING => v.del \in {0, PENDING}
      BY <1>0 DEF RowsOk
    <3>3. /\ v.owner < nextOwner /\ v.owner \in Nat
          /\ \A c \in Conns : v.owner = owner[c] /\ v.owner # 0 => Writing(c)
      BY <1>0, VersionFields DEF WroteOk
    <3>4. /\ v.create \in (1..Len(wal)) \cup {PENDING} /\ v.del \in (0..Len(wal)) \cup {PENDING}
      BY <1>3, <3>2
    <3>5. CASE ~InBatch(b, v.owner)
      BY <3>1, <3>2, <3>3, <3>4, <3>5
    <3>6. CASE InBatch(b, v.owner)
      <4> DEFINE l == LsnFor(b, v.owner)
      <4>1. l \in 1..Len(wal) /\ l # PENDING
        <5>1. l \in (committed + 1)..Len(wal)
          BY <1>6, <3>6
        <5> HIDE DEF l
        <5> QED BY <1>3, <5>1
      <4>2. /\ u.owner = 0 /\ u.create = IF v.create = PENDING THEN l ELSE v.create
            /\ u.del = IF v.del = PENDING THEN l ELSE v.del
        BY <3>1, <3>6
      <4> HIDE DEF l
      <4>3. u.create \in 1..Len(wal) /\ u.del \in 0..Len(wal)
        BY <3>4, <4>1, <4>2
      <4>4. u.create # PENDING /\ 0 < nextOwner
        BY <1>3, <3>3, <4>3
      <4> QED BY <3>1, <3>2, <4>2, <4>3, <4>4
    <3> QED BY <3>5, <3>6
  <2>2. ASSUME NEW t \in Tables, NEW u \in rows'[t], NEW w \in rows'[t], u.vid = w.vid PROVE u = w
    <3>1. PICK v \in rows[t] : u = Pub(b, v) /\ u.vid = v.vid
      BY <1>9
    <3>2. PICK x \in rows[t] : w = Pub(b, x) /\ w.vid = x.vid
      BY <1>9
    <3>3. v = x
      BY <1>0, <2>2, <3>1, <3>2 DEF RowsOk
    <3> QED BY <3>1, <3>2, <3>3
  <2>3. rows' \in [Tables -> SUBSET Version]
    BY <1>1, <2>1
  <2>4. RowsOk(rows', nextVid, Len(wal))
    BY <1>0, <2>1, <2>2, <2>3 DEF RowsOk
  <2> QED BY <2>1, <2>4 DEF WroteOk
<1>11. \A t \in Tables : StampsOk(rows[t], committed)
  BY <1>0, RowsStamps
<1>12. \A t \in Tables : Keyed(rows'[t])
  <2> TAKE t \in Tables
  <2>1. Keyed(rows[t])
    BY <1>0 DEF KeyOk
  <2> QED BY <1>3, <1>5, <1>7, <1>11, <2>1, KeyedPub
<1>13. ASSUME NEW d \in Conns \ C, pc[d] \in {"open", "writing"}
       PROVE  /\ \A a \in 1..Len(saves[d]) : SaveKeyed(rows', nextVid, d, saves[d][a])
              /\ \A t \in Tables : \A a, e \in 1..Len(saves[d]) :
                    a <= e => Within(rows'[t], saves[d][a], saves[d][e])
  <2>1. ASSUME NEW a \in 1..Len(saves[d]), NEW t \in Tables
        PROVE  /\ \A x \in saves[d][a].ins \cup saves[d][a].del : x < nextVid[t]
               /\ Names(rows'[t], saves[d][a], owner[d])
               /\ Keyed(Reverted(rows'[t], {owner[d]}, saves[d][a].ins, saves[d][a].del))
    <3> DEFINE sp == saves[d][a]
    <3>1. SaveKeyed(rows, nextVid, d, sp)
      BY <1>0, <1>13 DEF KeyOk, SavesOk
    <3> HIDE DEF sp
    <3>2. /\ \A x \in sp.ins \cup sp.del : x < nextVid[t]
          /\ Names(rows[t], sp, owner[d])
          /\ Keyed(Reverted(rows[t], {owner[d]}, sp.ins, sp.del))
      BY <3>1 DEF SaveKeyed
    <3>3. owner[d] # 0 /\ ~InBatch(b, owner[d])
      BY <1>8, <1>13
    <3>4. Names(rows'[t], sp, owner[d])
      <4>1. ASSUME NEW u \in rows'[t], u.vid \in sp.ins \cup sp.del PROVE u \in rows[t]
        <5>1. PICK v \in rows[t] : u.vid = v.vid /\ (~InBatch(b, v.owner) => u = v)
          BY <1>9
        <5>2. v.owner = owner[d]
          BY <3>2, <4>1, <5>1 DEF Names
        <5> QED BY <3>3, <5>1, <5>2
      <4> QED BY <3>2, <4>1 DEF Names
    <3>5. Keyed(Reverted(rows'[t], {owner[d]}, sp.ins, sp.del))
      <4> DEFINE S == Reverted(rows[t], {owner[d]}, sp.ins, sp.del)
      <4>1. StampsOk(S, committed)
        BY <1>3, <1>11, RevertedStamps
      <4>2. Keyed(PubAll(b, S))
        <5> HIDE DEF S
        <5>1. Keyed(S)
          BY <3>2 DEF S
        <5> QED BY <1>3, <1>7, <4>1, <5>1, KeyedPub
      <4>3. rows[t] \in SUBSET Version
        BY <1>0
      <4>4. Reverted(PubAll(b, rows[t]), {owner[d]}, sp.ins, sp.del) = PubAll(b, S)
        BY <1>3, <1>7, <1>8, <3>3, <4>3, PubCommute
      <4> QED BY <1>5, <4>2, <4>4
    <3> QED BY <3>2, <3>4, <3>5 DEF sp
  <2>2. ASSUME NEW t \in Tables, NEW a \in 1..Len(saves[d]), NEW e \in 1..Len(saves[d]), a <= e
        PROVE  Within(rows'[t], saves[d][a], saves[d][e])
    <3>1. Within(rows[t], saves[d][a], saves[d][e])
      BY <1>0, <1>13, <2>2 DEF KeyOk, Nested
    <3>2. \A u \in rows'[t] : \E v \in rows[t] : u.vid = v.vid
      BY <1>9
    <3> QED BY <3>1, <3>2 DEF Within
  <2> QED BY <2>1, <2>2 DEF SaveKeyed
<1>14. SaveTypes' /\ KeyOk(rows, nextVid)'
  <2>1. RowsOk(rows', nextVid, committed') /\ WroteOk(rows')
    BY <1>1, <1>10
  <2> QED BY <1>0, <1>1, <1>4, <1>12, <1>13, <2>1, EndedKey
<1> QED BY <1>2, <1>14 DEF KeyInv

\* A step that leaves rows and savepoints alone.
LEMMA StayKey ==
    ASSUME KeyInv, PipeInv', UNCHANGED <<rows, nextVid, committed, saves>>,
           nextOwner <= nextOwner',
           \A d \in Conns :
               /\ Writing(d) => Writing(d)'
               /\ owner'[d] = owner[d] \/ (owner'[d] = nextOwner /\ saves[d] = <<>>)
               /\ pc'[d] \in {"open", "writing"} => pc[d] \in {"open", "writing"} \/ saves[d] = <<>>
               /\ pc'[d] = "idle" => pc[d] = "idle"
    PROVE  KeyInv'
<1>0. /\ PipeInv /\ SaveTypes /\ RowsOk(rows, nextVid, committed) /\ WroteOk(rows)
      /\ \A t \in Tables : Keyed(rows[t])
      /\ SavesOk(rows, nextVid) /\ Nested(rows) /\ nextOwner \in Nat
      /\ rows \in [Tables -> SUBSET Version]
  BY PipeNumbers DEF KeyInv, KeyOk, RowsOk
<1>1. SaveTypes'
  BY <1>0 DEF SaveTypes
<1>2. WroteOk(rows)'
  <2> SUFFICES ASSUME NEW t \in Tables, NEW v \in rows[t]
               PROVE  /\ v.owner < nextOwner'
                      /\ \A c \in Conns : v.owner = owner'[c] /\ v.owner # 0 => Writing(c)'
    BY DEF WroteOk
  <2>1. v.owner \in Nat /\ v.owner < nextOwner
    BY <1>0, VersionFields DEF WroteOk
  <2>2. nextOwner' \in Nat
    BY DEF PipeInv, OwnerInv
  <2>3. v.owner < nextOwner' /\ v.owner # nextOwner
    BY <1>0, <2>1, <2>2
  <2> QED BY <1>0, <2>3 DEF WroteOk
<1>3. ASSUME NEW d \in Conns, pc'[d] \in {"open", "writing"}, NEW a \in 1..Len(saves[d])
      PROVE  pc[d] \in {"open", "writing"} /\ owner'[d] = owner[d]
  <2>1. saves[d] # <<>>
    BY <1>3
  <2> QED BY <1>3, <2>1
<1>4. SavesOk(rows, nextVid)'
  <2>1. ASSUME NEW d \in Conns, pc'[d] \in {"open", "writing"}, NEW a \in 1..Len(saves'[d])
        PROVE  SaveKeyed(rows, nextVid, d, saves[d][a])'
    <3>1. a \in 1..Len(saves[d])
      BY <2>1
    <3>2. pc[d] \in {"open", "writing"} /\ owner'[d] = owner[d]
      BY <1>3, <2>1, <3>1
    <3>3. SaveKeyed(rows, nextVid, d, saves[d][a])
      BY <1>0, <3>1, <3>2 DEF SavesOk
    <3> QED BY <3>2, <3>3 DEF SaveKeyed
  <2> QED BY <2>1 DEF SavesOk
<1>5. Nested(rows)'
  <2>1. ASSUME NEW d \in Conns, pc'[d] \in {"open", "writing"}, NEW t \in Tables,
               NEW a \in 1..Len(saves[d]), NEW b \in 1..Len(saves[d]), a <= b
        PROVE  Within(rows[t], saves[d][a], saves[d][b])
    BY <1>0, <1>3, <2>1 DEF Nested
  <2> QED BY <2>1 DEF Nested
<1> QED BY <1>0, <1>1, <1>2, <1>4, <1>5 DEF KeyInv, KeyOk

\* BEGIN.
LEMMA BeginKey == ASSUME KeyInv, NEW c \in Conns, Begin(c) PROVE KeyInv'
<1>0. PipeInv /\ SaveTypes /\ OwnerInv /\ nextOwner \in Nat
  BY DEF KeyInv, PipeInv, OwnerInv
<1>1. PipeInv'
  BY <1>0, BeginPipe
<1>2. /\ pc[c] = "idle" /\ nextOwner' = nextOwner + 1
      /\ owner' = [owner EXCEPT ![c] = nextOwner] /\ pc' = [pc EXCEPT ![c] = "open"]
      /\ UNCHANGED <<rows, nextVid, committed, saves>>
  BY DEF Begin, Goto, storeVars
<1>3. /\ pc \in [Conns -> {"idle", "open", "writing", "queued"}] /\ owner \in [Conns -> Nat]
      /\ saves[c] = <<>>
  BY <1>0, <1>2 DEF OwnerInv, SaveTypes
<1>4. \A d \in Conns : /\ d = c => pc'[d] = "open" /\ owner'[d] = nextOwner
                       /\ d # c => pc'[d] = pc[d] /\ owner'[d] = owner[d]
  BY <1>2, <1>3
<1>5. nextOwner <= nextOwner'
  BY <1>0, <1>2
<1>6. \A d \in Conns :
         /\ Writing(d) => Writing(d)'
         /\ owner'[d] = owner[d] \/ (owner'[d] = nextOwner /\ saves[d] = <<>>)
         /\ pc'[d] \in {"open", "writing"} => pc[d] \in {"open", "writing"} \/ saves[d] = <<>>
         /\ pc'[d] = "idle" => pc[d] = "idle"
  BY <1>2, <1>3, <1>4 DEF Writing
<1> QED BY <1>1, <1>2, <1>5, <1>6, StayKey

\* Taking the lane, COMMIT and the leader's append.
LEMMA PipeKey ==
    ASSUME KeyInv, (\E c \in Conns : EnsureWriter(c) \/ Commit(c)) \/ FlushBatch
    PROVE  KeyInv'
<1>0. PipeInv /\ SaveTypes /\ OwnerInv /\ nextOwner \in Nat
  BY DEF KeyInv, PipeInv, OwnerInv
<1>1. PipeInv'
  BY <1>0, WriterPipe, CommitPipe, FlushPipe
<1>2. /\ UNCHANGED <<rows, nextVid, committed, saves, owner, nextOwner>>
      /\ \/ pc' = pc
         \/ \E c \in Conns : \/ pc[c] = "open" /\ pc' = [pc EXCEPT ![c] = "writing"]
                             \/ pc[c] = "writing" /\ pc' = [pc EXCEPT ![c] = "queued"]
  BY DEF EnsureWriter, Commit, FlushBatch, Goto, storeVars, txnVars
<1>3. pc \in [Conns -> {"idle", "open", "writing", "queued"}]
  BY <1>0 DEF OwnerInv
<1>4. ASSUME NEW d \in Conns
      PROVE  /\ Writing(d) => Writing(d)'
             /\ pc'[d] \in {"open", "writing"} => pc[d] \in {"open", "writing"}
             /\ pc'[d] = "idle" => pc[d] = "idle"
  BY <1>2, <1>3 DEF Writing
<1>5. nextOwner <= nextOwner'
  BY <1>0, <1>2
<1> QED BY <1>1, <1>2, <1>4, <1>5, StayKey

\* A step of one transaction on its savepoints.
LEMMA SavesChange ==
    ASSUME PipeInv, SaveTypes',
           UNCHANGED <<nextVid, committed, pc, snap, owner, nextOwner, queue, flush, wal>>,
           RowsOk(rows', nextVid, committed), WroteOk(rows'), \A t \in Tables : Keyed(rows'[t]),
           \A d \in Conns : pc[d] \in {"open", "writing"} =>
               /\ \A a \in 1..Len(saves'[d]) : SaveKeyed(rows', nextVid, d, saves'[d][a])
               /\ \A t \in Tables : \A a, b \in 1..Len(saves'[d]) :
                     a <= b => Within(rows'[t], saves'[d][a], saves'[d][b])
    PROVE  KeyInv'
<1>1. PipeInv'
  <2>1. OwnerInv'
    BY DEF PipeInv, OwnerInv
  <2>2. QueueInv'
    BY DEF PipeInv, QueueInv
  <2>3. LsnInv'
    BY DEF PipeInv, LsnInv, Unqueued
  <2>4. MarkInv'
    BY DEF PipeInv, MarkInv
  <2> QED BY <2>1, <2>2, <2>3, <2>4 DEF PipeInv
<1>2. WroteOk(rows)'
  BY DEF WroteOk, Writing
<1>3. SavesOk(rows, nextVid)'
  <2>1. ASSUME NEW d \in Conns, pc[d] \in {"open", "writing"}, NEW a \in 1..Len(saves'[d])
        PROVE  SaveKeyed(rows, nextVid, d, saves[d][a])'
    <3>1. SaveKeyed(rows', nextVid, d, saves'[d][a])
      BY <2>1
    <3> QED BY <3>1 DEF SaveKeyed
  <2> QED BY <2>1 DEF SavesOk
<1>4. Nested(rows)'
  BY DEF Nested
<1> QED BY <1>1, <1>2, <1>3, <1>4 DEF KeyInv, KeyOk

\* RELEASE.
LEMMA ReleaseKey == ASSUME KeyInv, NEW c \in Conns, ReleaseSavepoint(c) PROVE KeyInv'
<1>0. /\ PipeInv /\ SaveTypes /\ RowsOk(rows, nextVid, committed) /\ WroteOk(rows)
      /\ \A t \in Tables : Keyed(rows[t])
      /\ SavesOk(rows, nextVid) /\ Nested(rows)
  BY DEF KeyInv, KeyOk
<1>1. PICK at \in 1..Len(saves[c]) : saves' = [saves EXCEPT ![c] = SubSeq(saves[c], 1, at - 1)]
  BY DEF ReleaseSavepoint
<1>2. /\ pc[c] # "idle"
      /\ UNCHANGED <<rows, nextVid, committed, pc, snap, owner, nextOwner, queue, flush, wal>>
  BY DEF ReleaseSavepoint, storeVars, pipeVars
<1>3. PICK L : saves \in [Conns -> Seq(Saved(L))]
  BY <1>0 DEF SaveTypes
<1>3a. saves[c] \in Seq(Saved(L)) /\ Len(saves[c]) \in Nat
  BY <1>3
<1> DEFINE s == SubSeq(saves[c], 1, at - 1)
<1>4. /\ s \in Seq(Saved(L)) /\ Len(s) = at - 1
      /\ \A a \in 1..Len(s) : a \in 1..Len(saves[c]) /\ s[a] = saves[c][a]
  BY <1>3a
<1> HIDE DEF s
<1>5. saves'[c] = s /\ \A d \in Conns : d # c => saves'[d] = saves[d]
  BY <1>1, <1>3 DEF s
<1>6. SaveTypes'
  <2>1. saves' \in [Conns -> Seq(Saved(L))]
    BY <1>1, <1>3, <1>4 DEF s
  <2>2. \A d \in Conns : pc'[d] = "idle" => saves'[d] = <<>>
    BY <1>0, <1>2, <1>5 DEF SaveTypes
  <2> QED BY <2>1, <2>2 DEF SaveTypes
<1>7. ASSUME NEW d \in Conns, NEW a \in 1..Len(saves'[d])
      PROVE  a \in 1..Len(saves[d]) /\ saves'[d][a] = saves[d][a]
  BY <1>4, <1>5, <1>7
<1>8. ASSUME NEW d \in Conns, pc[d] \in {"open", "writing"}
      PROVE  /\ \A a \in 1..Len(saves'[d]) : SaveKeyed(rows, nextVid, d, saves'[d][a])
             /\ \A t \in Tables : \A a, b \in 1..Len(saves'[d]) :
                   a <= b => Within(rows[t], saves'[d][a], saves'[d][b])
  <2>1. ASSUME NEW a \in 1..Len(saves'[d]) PROVE SaveKeyed(rows, nextVid, d, saves'[d][a])
    BY <1>0, <1>7, <1>8 DEF SavesOk
  <2>2. ASSUME NEW t \in Tables, NEW a \in 1..Len(saves'[d]), NEW b \in 1..Len(saves'[d]), a <= b
        PROVE  Within(rows[t], saves'[d][a], saves'[d][b])
    <3>1. Within(rows[t], saves[d][a], saves[d][b])
      BY <1>0, <1>7, <1>8, <2>2 DEF Nested
    <3> QED BY <1>7, <3>1
  <2> QED BY <2>1, <2>2
<1> QED BY <1>0, <1>2, <1>6, <1>8, SavesChange


\* SAVEPOINT, over one table: it names all that its transaction has pending.
LEMMA SavepointKey == ASSUME OneTable, KeyInv, NEW c \in Conns, Savepoint(c) PROVE KeyInv'
<1> DEFINE me == owner[c]
           all == UNION {rows[t] : t \in Tables}
           sp == [ins |-> {v.vid : v \in {w \in all : Mine(w, me) /\ w.create = PENDING}},
                  del |-> {v.vid : v \in {w \in all : Mine(w, me) /\ w.del = PENDING}},
                  len |-> Len(ops[c])]
<1>0. /\ PipeInv /\ SaveTypes /\ RowsOk(rows, nextVid, committed) /\ WroteOk(rows)
      /\ \A t \in Tables : Keyed(rows[t])
      /\ SavesOk(rows, nextVid) /\ Nested(rows) /\ rows \in [Tables -> SUBSET Version]
  BY DEF KeyInv, KeyOk, RowsOk
<1>1. /\ pc[c] \in {"open", "writing"} /\ Len(saves[c]) < MaxSaves
      /\ saves' = [saves EXCEPT ![c] = Append(saves[c], sp)]
      /\ UNCHANGED <<rows, nextVid, committed, pc, snap, owner, nextOwner, queue, flush, wal>>
  BY DEF Savepoint, storeVars, pipeVars
<1>2. PICK K : saves \in [Conns -> Seq(Saved(K))]
  BY <1>0 DEF SaveTypes
<1>3. \A t, u \in Tables : t = u
  <2>1. Len(saves[c]) \in Nat
    BY <1>2
  <2> QED BY <1>1, <2>1 DEF OneTable
<1>4. /\ sp.ins = {v.vid : v \in {w \in all : Mine(w, me) /\ w.create = PENDING}}
      /\ sp.del = {v.vid : v \in {w \in all : Mine(w, me) /\ w.del = PENDING}}
      /\ sp.len = Len(ops[c])
  OBVIOUS
<1>5. ASSUME NEW t \in Tables
      PROVE  /\ \A x \in sp.ins : \E v \in rows[t] : v.vid = x /\ v.owner = me /\ v.create = PENDING
             /\ \A x \in sp.del : \E v \in rows[t] : v.vid = x /\ v.owner = me /\ v.del = PENDING
             /\ \A v \in rows[t] : v.owner = me /\ v.create = PENDING => v.vid \in sp.ins
             /\ \A v \in rows[t] : v.owner = me /\ v.del = PENDING => v.vid \in sp.del
  <2>1. all = rows[t]
    BY <1>3
  <2> HIDE DEF sp, all
  <2> QED BY <1>4, <2>1 DEF Mine
<1> DEFINE L == K \cup {Len(ops[c])}
<1>6. sp \in Saved(L)
  <2>1. \A v \in all : v.vid \in Nat
    BY <1>0, VersionFields
  <2>2. sp.ins \in SUBSET Nat /\ sp.del \in SUBSET Nat /\ sp.len \in L
    BY <1>4, <2>1
  <2> QED BY <2>2 DEF Saved
<1> HIDE DEF sp, all
<1>7. saves \in [Conns -> Seq(Saved(L))]
  <2>1. Saved(K) \subseteq Saved(L)
    BY DEF Saved
  <2>2. ASSUME NEW S, NEW T, S \subseteq T, NEW x \in Seq(S) PROVE x \in Seq(T)
    <3>1. x = [i \in 1..Len(x) |-> x[i]] /\ Len(x) \in Nat /\ \A i \in 1..Len(x) : x[i] \in T
      BY <2>2
    <3> QED BY <3>1
  <2>3. Seq(Saved(K)) \subseteq Seq(Saved(L))
    BY <2>1, <2>2
  <2> QED BY <1>2, <2>3
<1> HIDE DEF L
<1> DEFINE s == Append(saves[c], sp)
           n == Len(saves[c])
<1>8. /\ n \in Nat /\ s \in Seq(Saved(L)) /\ Len(s) = n + 1 /\ s[n + 1] = sp
      /\ \A a \in 1..n : s[a] = saves[c][a]
  BY <1>6, <1>7
<1>9. saves'[c] = s /\ \A d \in Conns : d # c => saves'[d] = saves[d]
  BY <1>1, <1>7
<1>10. SaveTypes'
  <2>1. saves' \in [Conns -> Seq(Saved(L))]
    BY <1>1, <1>7, <1>8
  <2>2. \A d \in Conns : pc'[d] = "idle" => saves'[d] = <<>>
    BY <1>0, <1>1, <1>9 DEF SaveTypes
  <2> QED BY <2>1, <2>2 DEF SaveTypes
<1> HIDE DEF s, n
<1>11. SaveKeyed(rows, nextVid, c, sp)
  <2> SUFFICES ASSUME NEW t \in Tables
               PROVE  /\ \A x \in sp.ins \cup sp.del : x < nextVid[t]
                      /\ Names(rows[t], sp, me)
                      /\ Keyed(Reverted(rows[t], {me}, sp.ins, sp.del))
    BY DEF SaveKeyed
  <2>1. \A v \in rows[t] : v.vid < nextVid[t] /\ \A w \in rows[t] : v.vid = w.vid => v = w
    BY <1>0 DEF RowsOk
  <2>2. \A x \in sp.ins \cup sp.del : x < nextVid[t]
    BY <1>5, <2>1
  <2>3. Names(rows[t], sp, me)
    BY <1>5, <2>1 DEF Names
  <2>4. \A v \in rows[t] : ~Dropped(v, {me}, sp.ins) /\ Revive(v, {me}, sp.del) = v
    BY <1>5 DEF Dropped, Revive
  <2>5. Reverted(rows[t], {me}, sp.ins, sp.del) = rows[t]
    BY <2>4 DEF Reverted
  <2> QED BY <1>0, <2>2, <2>3, <2>5
<1>12. ASSUME NEW a \in 1..n, NEW t \in Tables PROVE Within(rows[t], saves[c][a], sp)
  <2>1. SaveKeyed(rows, nextVid, c, saves[c][a])
    BY <1>0, <1>1, <1>12 DEF SavesOk, n
  <2>2. Names(rows[t], saves[c][a], me)
    BY <2>1 DEF SaveKeyed
  <2> QED BY <1>5, <2>2 DEF Names, Within
<1>13. ASSUME NEW d \in Conns, pc[d] \in {"open", "writing"}
       PROVE  /\ \A a \in 1..Len(saves'[d]) : SaveKeyed(rows, nextVid, d, saves'[d][a])
              /\ \A t \in Tables : \A a, b \in 1..Len(saves'[d]) :
                    a <= b => Within(rows[t], saves'[d][a], saves'[d][b])
  <2>1. CASE d # c
    BY <1>0, <1>9, <1>13, <2>1 DEF SavesOk, Nested
  <2>2. CASE d = c
    <3>1. \A a \in 1..Len(s) : a \in 1..n \/ a = n + 1
      BY <1>8
    <3>2. ASSUME NEW a \in 1..Len(s) PROVE SaveKeyed(rows, nextVid, c, s[a])
      <4>1. CASE a \in 1..n
        BY <1>0, <1>1, <1>8, <4>1 DEF SavesOk, n
      <4>2. CASE a = n + 1
        BY <1>8, <1>11, <4>2
      <4> QED BY <3>1, <4>1, <4>2
    <3>3. ASSUME NEW t \in Tables, NEW a \in 1..Len(s), NEW b \in 1..Len(s), a <= b
          PROVE  Within(rows[t], s[a], s[b])
      <4>1. CASE b = n + 1 /\ a \in 1..n
        BY <1>8, <1>12, <4>1
      <4>2. CASE b = n + 1 /\ a = n + 1
        BY <4>2 DEF Within
      <4>3. CASE b \in 1..n
        <5>1. a \in 1..n
          BY <1>8, <3>3, <4>3
        <5>2. Within(rows[t], saves[c][a], saves[c][b])
          BY <1>0, <1>1, <3>3, <4>3, <5>1 DEF Nested, n
        <5> QED BY <1>8, <4>3, <5>1, <5>2
      <4> QED BY <3>1, <4>1, <4>2, <4>3
    <3> QED BY <1>9, <2>2, <3>2, <3>3
  <2> QED BY <2>1, <2>2
<1>14. RowsOk(rows', nextVid, committed) /\ WroteOk(rows') /\ \A t \in Tables : Keyed(rows'[t])
  BY <1>0, <1>1
<1>15. ASSUME NEW d \in Conns, pc[d] \in {"open", "writing"}
       PROVE  /\ \A a \in 1..Len(saves'[d]) : SaveKeyed(rows', nextVid, d, saves'[d][a])
              /\ \A t \in Tables : \A a, b \in 1..Len(saves'[d]) :
                    a <= b => Within(rows'[t], saves'[d][a], saves'[d][b])
  <2>1. rows' = rows
    BY <1>1
  <2> QED BY <1>13, <1>15, <2>1
<1> QED BY <1>0, <1>1, <1>10, <1>14, <1>15, SavesChange

\* rollback_to_savepoint on one table.
LEMMA RolledBackToIs ==
    ASSUME NEW R, NEW me, NEW sp
    PROVE  RolledBackTo(R, me, sp) = Reverted(R, {me}, sp.ins, sp.del)
<1> DEFINE K == {w \in R : ~(Mine(w, me) /\ w.create = PENDING /\ w.vid \notin sp.ins)}
           F(v) == IF Mine(v, me) /\ v.del = PENDING /\ v.vid \notin sp.del
                   THEN [v EXCEPT !.del = 0, !.owner = IF v.create = PENDING THEN me ELSE 0]
                   ELSE v
<1>1. K = {w \in R : ~Dropped(w, {me}, sp.ins)}
  BY DEF Dropped, Mine
<1>2. \A v \in K : F(v) = Revive(v, {me}, sp.del)
  BY DEF Revive, Mine
<1>3. /\ RolledBackTo(R, me, sp) = {F(v) : v \in K}
      /\ Reverted(R, {me}, sp.ins, sp.del) = {Revive(v, {me}, sp.del) : v \in K}
  BY <1>1 DEF RolledBackTo, Reverted
<1> HIDE DEF F, K
<1> QED BY <1>2, <1>3

\* The earlier savepoints of the transaction that goes back to one.
LEMMA EarlierSaves ==
    ASSUME KeyInv, NEW c \in Conns, pc[c] \in {"open", "writing"},
           NEW at \in 1..Len(saves[c]), NEW a \in 1..Len(saves[c]), a <= at, NEW t \in Tables
    PROVE  LET R == Reverted(rows[t], {owner[c]}, saves[c][at].ins, saves[c][at].del)
           IN  /\ Names(R, saves[c][a], owner[c])
               /\ Keyed(Reverted(R, {owner[c]}, saves[c][a].ins, saves[c][a].del))
<1> DEFINE me == owner[c]
           sp == saves[c][at]
           sq == saves[c][a]
           R == Reverted(rows[t], {me}, sp.ins, sp.del)
<1>0. /\ PENDING \in Nat /\ PENDING # 0 /\ rows[t] \in SUBSET Version
  BY PipeNumbers DEF KeyInv, KeyOk, RowsOk
<1>1. Within(rows[t], sq, sp)
  BY DEF KeyInv, KeyOk, Nested
<1>2. SaveKeyed(rows, nextVid, c, sq)
  BY DEF KeyInv, KeyOk, SavesOk
<1> HIDE DEF sp, sq
<1>3. Names(rows[t], sq, me) /\ Keyed(Reverted(rows[t], {me}, sq.ins, sq.del))
  BY <1>2 DEF SaveKeyed
<1>4. Names(R, sq, me)
  <2> SUFFICES ASSUME NEW u \in R
               PROVE  /\ u.vid \in sq.ins => u.create = PENDING /\ u.owner = me
                      /\ u.vid \in sq.del => u.del = PENDING /\ u.owner = me
    BY DEF Names
  <2>1. PICK v \in rows[t] : u = Revive(v, {me}, sp.del)
    BY RevertedFrom
  <2>2. v \in Version
    BY <1>0
  <2>3. /\ u.vid = v.vid /\ u.create = v.create /\ (v.create = PENDING => u.owner = v.owner)
        /\ v.vid \in sp.del => u = v
    BY <1>0, <2>1, <2>2, ReviveFields
  <2> QED BY <1>1, <1>3, <2>3 DEF Names, Within
<1>5. Reverted(R, {me}, sq.ins, sq.del) = Reverted(rows[t], {me}, sq.ins, sq.del)
  <2>1. \A v \in rows[t] : (v.vid \in sq.ins => v.vid \in sp.ins) /\ (v.vid \in sq.del => v.vid \in sp.del)
    BY <1>1 DEF Within
  <2> QED BY <1>0, <2>1, RevertedNested
<1> QED BY <1>3, <1>4, <1>5 DEF sp, sq

\* ROLLBACK TO.
LEMMA RollbackToKey == ASSUME KeyInv, NEW c \in Conns, RollbackTo(c) PROVE KeyInv'
<1> DEFINE me == owner[c]
<1>0. /\ PipeInv /\ OwnerInv /\ SaveTypes /\ RowsOk(rows, nextVid, committed) /\ WroteOk(rows)
      /\ \A t \in Tables : Keyed(rows[t])
      /\ SavesOk(rows, nextVid) /\ Nested(rows) /\ rows \in [Tables -> SUBSET Version]
  BY DEF KeyInv, KeyOk, RowsOk, PipeInv
<1>1. PICK at \in 1..Len(saves[c]) :
         /\ rows' = [t \in Tables |-> RolledBackTo(rows[t], owner[c], saves[c][at])]
         /\ saves' = [saves EXCEPT ![c] = SubSeq(saves[c], 1, at)]
  BY DEF RollbackTo
<1>2. /\ pc[c] \in {"open", "writing"}
      /\ UNCHANGED <<nextVid, committed, pc, snap, owner, nextOwner, queue, flush, wal>>
  BY DEF RollbackTo, pipeVars
<1> DEFINE sp == saves[c][at]
<1>3. rows' = AllReverted({me}, sp.ins, sp.del)
  <2>1. \A R : RolledBackTo(R, me, sp) = Reverted(R, {me}, sp.ins, sp.del)
    BY RolledBackToIs
  <2> QED BY <1>1, <2>1 DEF AllReverted
<1>4. PICK L : saves \in [Conns -> Seq(Saved(L))]
  BY <1>0 DEF SaveTypes
<1> DEFINE s == SubSeq(saves[c], 1, at)
<1>5. /\ s \in Seq(Saved(L)) /\ Len(s) = at /\ Len(saves[c]) \in Nat
      /\ \A a \in 1..Len(s) : a \in 1..Len(saves[c]) /\ a <= at /\ s[a] = saves[c][a]
  <2>1. saves[c] \in Seq(Saved(L)) /\ Len(saves[c]) \in Nat
    BY <1>4
  <2> QED BY <2>1
<1> HIDE DEF s
<1>6. saves'[c] = s /\ \A d \in Conns : d # c => saves'[d] = saves[d]
  BY <1>1, <1>4 DEF s
<1>7. SaveTypes'
  <2>1. saves' \in [Conns -> Seq(Saved(L))]
    BY <1>1, <1>4, <1>5 DEF s
  <2>2. \A d \in Conns : pc'[d] = "idle" => saves'[d] = <<>>
    BY <1>0, <1>2, <1>6 DEF SaveTypes
  <2> QED BY <2>1, <2>2 DEF SaveTypes
<1>8. /\ RowsOk(rows', nextVid, committed) /\ WroteOk(rows')
      /\ \A t \in Tables : \A u \in rows'[t] : \E v \in rows[t] : u.vid = v.vid
  BY <1>0, <1>3, RevertedRows
<1>9. \A t \in Tables : rows'[t] = Reverted(rows[t], {me}, sp.ins, sp.del)
  BY <1>3 DEF AllReverted
<1>10. \A t \in Tables : Keyed(rows'[t])
  <2>1. SaveKeyed(rows, nextVid, c, sp)
    BY <1>0, <1>2 DEF SavesOk
  <2> QED BY <1>9, <2>1 DEF SaveKeyed
<1>11. ASSUME NEW a \in 1..Len(s) PROVE SaveKeyed(rows', nextVid, c, s[a])
  <2>0. a \in 1..Len(saves[c]) /\ a <= at /\ s[a] = saves[c][a]
    BY <1>5
  <2>1. SaveKeyed(rows, nextVid, c, saves[c][a])
    BY <1>0, <1>2, <2>0 DEF SavesOk
  <2>2. ASSUME NEW t \in Tables
        PROVE  /\ Names(rows'[t], saves[c][a], me)
               /\ Keyed(Reverted(rows'[t], {me}, saves[c][a].ins, saves[c][a].del))
    BY <1>2, <1>9, <2>0, EarlierSaves
  <2>3. \A t \in Tables : \A x \in saves[c][a].ins \cup saves[c][a].del : x < nextVid[t]
    BY <2>1 DEF SaveKeyed
  <2> QED BY <2>0, <2>2, <2>3 DEF SaveKeyed
<1>12. ASSUME NEW d \in Conns, d # c, pc[d] \in {"open", "writing"}, NEW a \in 1..Len(saves[d])
       PROVE  SaveKeyed(rows', nextVid, d, saves[d][a])
  <2> DEFINE sq == saves[d][a]
  <2>1. SaveKeyed(rows, nextVid, d, sq)
    BY <1>0, <1>12 DEF SavesOk
  <2> HIDE DEF sq
  <2>2. CASE pc[c] = "open"
    <3>1. me # 0 /\ ~Writing(c)
      BY <1>0, <2>2 DEF OwnerInv, Writing
    <3>2. \A t \in Tables : \A v \in rows[t] : v.owner \notin {me}
      BY <1>0, <3>1 DEF WroteOk
    <3>3. \A t \in Tables : rows'[t] = rows[t]
      BY <1>9, <3>2, RevertedAbsent
    <3> QED BY <2>1, <3>3 DEF SaveKeyed, sq
  <2>3. CASE pc[c] = "writing"
    <3> SUFFICES ASSUME NEW t \in Tables
                 PROVE  /\ \A x \in sq.ins \cup sq.del : x < nextVid[t]
                        /\ Names(rows'[t], sq, owner[d])
                        /\ Keyed(Reverted(rows'[t], {owner[d]}, sq.ins, sq.del))
      BY DEF SaveKeyed, sq
    <3>1. /\ \A x \in sq.ins \cup sq.del : x < nextVid[t]
          /\ Names(rows[t], sq, owner[d])
      BY <2>1 DEF SaveKeyed
    <3>2. \A v \in rows[t] : v.owner # owner[d]
      BY <1>0, <1>12, <2>3, OtherSaves
    <3>3. Names(rows'[t], sq, owner[d])
      BY <1>8, <3>1, <3>2 DEF Names
    <3>4. Keyed(Reverted(rows'[t], {owner[d]}, sq.ins, sq.del))
      BY <1>0, <1>8, <1>10, <1>12, <2>3, OtherSaves
    <3> QED BY <3>1, <3>3, <3>4
  <2> QED BY <1>2, <2>2, <2>3
<1>13. ASSUME NEW d \in Conns, pc[d] \in {"open", "writing"}, NEW a \in 1..Len(saves'[d])
       PROVE  /\ SaveKeyed(rows', nextVid, d, saves'[d][a])
              /\ a \in 1..Len(saves[d]) /\ saves'[d][a] = saves[d][a]
  <2>1. CASE d = c
    BY <1>5, <1>6, <1>11, <1>13, <2>1
  <2>2. CASE d # c
    BY <1>6, <1>12, <1>13, <2>2
  <2> QED BY <2>1, <2>2
<1>14. ASSUME NEW d \in Conns, pc[d] \in {"open", "writing"}, NEW t \in Tables,
              NEW a \in 1..Len(saves'[d]), NEW b \in 1..Len(saves'[d]), a <= b
       PROVE  Within(rows'[t], saves'[d][a], saves'[d][b])
  <2>1. Within(rows[t], saves[d][a], saves[d][b])
    BY <1>0, <1>13, <1>14 DEF Nested
  <2>2. Within(rows'[t], saves[d][a], saves[d][b])
    BY <1>8, <2>1 DEF Within
  <2> QED BY <1>13, <1>14, <2>2
<1>15. ASSUME NEW d \in Conns, pc[d] \in {"open", "writing"}
       PROVE  /\ \A a \in 1..Len(saves'[d]) : SaveKeyed(rows', nextVid, d, saves'[d][a])
              /\ \A t \in Tables : \A a, b \in 1..Len(saves'[d]) :
                    a <= b => Within(rows'[t], saves'[d][a], saves'[d][b])
  BY <1>13, <1>14, <1>15
<1> QED BY <1>0, <1>2, <1>7, <1>8, <1>10, <1>15, SavesChange

-----------------------------------------------------------------------------
(* The log and the rows when statements do not check for conflicts: REPLACE may *)
(* supersede a version that a queued transaction supersedes already, and a row *)
(* whose INSERT failed midway is in no log.  What recovery needs still holds.  *)

\* The ops s delete version x of table t.
Drops(s, t, x) == \E m \in 1..Len(s) : s[m].op = "delete" /\ s[m].tab = t /\ s[m].vid = x

\* The insert o has its version, created at LSN st or, if it is pending, by me.
Inserted(rw, o, st, me) ==
    \E v \in rw[o.tab] : /\ Logs(o, "insert", o.tab, v) /\ v.create = st
                         /\ st = PENDING => v.owner = me

\* d commits after c.
Behind(c, d) ==
    \/ pc[c] = "queued" /\ pc[d] = "writing"
    \/ \E i, j \in 1..Len(queue) : i < j /\ queue[i] = c /\ queue[j] = d
    \/ \E i \in 1..Len(flush.batch), j \in 1..Len(queue) : flush.batch[i] = c /\ queue[j] = d
    \/ \E i, j \in 1..Len(flush.batch) : i < j /\ flush.batch[i] = c /\ flush.batch[j] = d

\* Every insert that is logged up to the mark, or is an op, has its version.
InsOk(rw, op) ==
    /\ \A i \in 1..committed : \A m \in 1..Len(wal[i]) :
          wal[i][m].op = "insert" => Inserted(rw, wal[i][m], i, 0)
    /\ \A c \in Conns : \A m \in 1..Len(op[c]) :
          op[c][m].op = "insert" => Inserted(rw, op[c][m], PENDING, owner[c])

\* The deletion of v is the last that the log has, and nobody is about to log one.
Settled(op, t, v) ==
    /\ Drops(wal[v.del], t, v.vid)
    /\ \A l \in 1..committed : Drops(wal[l], t, v.vid) => l <= v.del
    /\ \A d \in Conns : ~Drops(op[d], t, v.vid)

\* c has superseded v, and so has nobody behind it.
Deleter(op, c, t, v) ==
    /\ owner[c] = v.owner /\ Drops(op[c], t, v.vid)
    /\ \A d \in Conns : Drops(op[d], t, v.vid) => ~Behind(c, d)

DelOk(rw, op) ==
    \A t \in Tables : \A v \in rw[t] :
        /\ v.del # 0 => v.create <= v.del
        /\ v.del \in 1..committed => Settled(op, t, v)
        /\ v.del = PENDING => \E c \in Conns : Deleter(op, c, t, v)

\* Ops are of writers; a queued commit is in the queue or the batch; above the mark
\* the log is the batch.
OpsInv ==
    /\ ops \in [Conns -> Seq(Op)] /\ wal \in Seq(Seq(Op))
    /\ \A c \in Conns : pc[c] \in {"idle", "open"} => ops[c] = <<>>
    /\ \A c \in Conns : pc[c] = "queued" => \/ \E i \in 1..Len(queue) : queue[i] = c
                                            \/ \E i \in 1..Len(flush.batch) : flush.batch[i] = c
    /\ flush.ok => \A i \in 1..Len(flush.batch) : wal[committed + i] = ops[flush.batch[i]]

\* A savepoint names the inserts and only the deletes of the ops s it goes back to.
Marks(s, sp) ==
    /\ sp.len <= Len(s)
    /\ \A i \in 1..sp.len : s[i].op = "insert" => s[i].vid \in sp.ins
    /\ \A x \in sp.del : \E i \in 1..sp.len : s[i].op = "delete" /\ s[i].vid = x

MarksOk(op, sv) ==
    /\ sv \in [Conns -> Seq(Save)]
    /\ \A c \in Conns : Len(sv[c]) <= MaxSaves /\ \A a \in 1..Len(sv[c]) :
          /\ Marks(op[c], sv[c][a])
          /\ \A b \in 1..Len(sv[c]) : a <= b => sv[c][a].len <= sv[c][b].len

ReplayInv ==
    /\ OpsInv
    /\ InsOk(rows, ops)
    /\ DelOk(rows, ops)
    /\ MarksOk(ops, saves)

\* A new version, with or without an op.
LEMMA AddRow ==
    ASSUME PENDING # 0, NEW rw \in [Tables -> SUBSET Version], NEW op, InsOk(rw, op), DelOk(rw, op),
           NEW t \in Tables, NEW n, n.create = PENDING, n.del = 0,
           wal \in Seq(Seq(Op)), committed \in 0..Len(wal), op \in [Conns -> Seq(Op)]
    PROVE  LET rw2 == [rw EXCEPT ![t] = rw[t] \cup {n}]
           IN  InsOk(rw2, op) /\ DelOk(rw2, op)
<1> DEFINE rw2 == [rw EXCEPT ![t] = rw[t] \cup {n}]
<1>1. /\ \A u \in Tables : rw[u] \subseteq rw2[u]
      /\ \A u \in Tables : \A v \in rw2[u] : v \in rw[u] \/ v = n
  OBVIOUS
<1> HIDE DEF rw2, PENDING
<1>2. ASSUME NEW o \in Op, NEW st, NEW me, Inserted(rw, o, st, me) PROVE Inserted(rw2, o, st, me)
  <2>1. o.tab \in Tables
    BY OpFields
  <2> QED BY <1>1, <1>2, <2>1 DEF Inserted
<1>3. InsOk(rw2, op)
  <2>1. \A i \in 1..committed : \A m \in 1..Len(wal[i]) : wal[i][m] \in Op
    <3>1. \A i \in 1..committed : wal[i] \in Seq(Op)
      OBVIOUS
    <3> QED BY <3>1
  <2>2. \A c \in Conns : \A m \in 1..Len(op[c]) : op[c][m] \in Op
    <3>1. \A c \in Conns : op[c] \in Seq(Op)
      OBVIOUS
    <3> QED BY <3>1
  <2> QED BY <1>2, <2>1, <2>2 DEF InsOk
<1>4. DelOk(rw2, op)
  <2>1. n.del # PENDING /\ n.del \notin 1..committed
    OBVIOUS
  <2> QED BY <1>1, <2>1 DEF DelOk
<1> QED BY <1>3, <1>4 DEF rw2

\* What one more op deletes.
LEMMA DropsMore ==
    ASSUME NEW s \in Seq(Op), NEW o \in Op, NEW t, NEW x
    PROVE  Drops(Append(s, o), t, x) <=> Drops(s, t, x) \/ (o.op = "delete" /\ o.tab = t /\ o.vid = x)
<1> DEFINE r == Append(s, o)
<1>1. /\ Len(s) \in Nat /\ Len(r) = Len(s) + 1 /\ r[Len(s) + 1] = o
      /\ \A i \in 1..Len(s) : r[i] = s[i] /\ i \in 1..Len(r)
      /\ \A i \in 1..Len(r) : i \in 1..Len(s) \/ i = Len(s) + 1
      /\ Len(s) + 1 \in 1..Len(r)
  OBVIOUS
<1> HIDE DEF r
<1>2. Drops(r, t, x) <=> Drops(s, t, x) \/ (o.op = "delete" /\ o.tab = t /\ o.vid = x)
  BY <1>1 DEF Drops
<1> QED BY <1>2 DEF r

\* An op for a version that was inserted.
LEMMA AddInsertOp ==
    ASSUME NEW rw, NEW op \in [Conns -> Seq(Op)], InsOk(rw, op), DelOk(rw, op),
           NEW c \in Conns, NEW o \in Op, o.op = "insert", Inserted(rw, o, PENDING, owner[c])
    PROVE  LET op2 == [op EXCEPT ![c] = Append(op[c], o)]
           IN  InsOk(rw, op2) /\ DelOk(rw, op2) /\ op2 \in [Conns -> Seq(Op)]
<1> DEFINE op2 == [op EXCEPT ![c] = Append(op[c], o)]
<1>1. /\ op[c] \in Seq(Op) /\ op2[c] = Append(op[c], o) /\ \A d \in Conns : d # c => op2[d] = op[d]
      /\ op2 \in [Conns -> Seq(Op)]
  OBVIOUS
<1> HIDE DEF op2, PENDING
<1>2. \A d \in Conns : \A m \in 1..Len(op2[d]) :
         (m \in 1..Len(op[d]) /\ op2[d][m] = op[d][m]) \/ (d = c /\ op2[d][m] = o)
  <2>1. \A m \in 1..Len(Append(op[c], o)) :
          (m \in 1..Len(op[c]) /\ Append(op[c], o)[m] = op[c][m]) \/ Append(op[c], o)[m] = o
    BY <1>1
  <2> QED BY <1>1, <2>1
<1>3. InsOk(rw, op2)
  BY <1>2 DEF InsOk
<1>4. \A d \in Conns : \A t, x : Drops(op2[d], t, x) <=> Drops(op[d], t, x)
  <2>1. \A t, x : Drops(op2[c], t, x) <=> Drops(op[c], t, x)
    BY <1>1, DropsMore
  <2> QED BY <1>1, <2>1
<1>5. DelOk(rw, op2)
  BY <1>4 DEF DelOk, Settled, Deleter
<1> QED BY <1>1, <1>3, <1>5 DEF op2

\* Nobody commits after a writer that is still writing.
LEMMA WriterIsLast ==
    ASSUME QueueInv, NEW c \in Conns, pc[c] = "writing", NEW d
    PROVE  ~Behind(c, d)
BY DEF QueueInv, Behind

\* A version is superseded, with its op.
LEMMA AddDeleteOp ==
    ASSUME QueueInv, PENDING \in Nat, PENDING # 0, committed \in Nat, committed < PENDING,
           NEW rw \in [Tables -> SUBSET Version], NEW op \in [Conns -> Seq(Op)],
           wal \in Seq(Seq(Op)), committed <= Len(wal),
           InsOk(rw, op), DelOk(rw, op), NEW c \in Conns, pc[c] = "writing", owner[c] \in Nat,
           NEW t \in Tables, NEW old \in rw[t], Target(old, owner[c]),
           \A v \in rw[t] : v.vid = old.vid => v = old
    PROVE  LET rw2 == [rw EXCEPT ![t] = Supersede(rw[t], old, owner[c])]
               op2 == [op EXCEPT ![c] = Append(op[c], DeleteOp(t, old))]
           IN  InsOk(rw2, op2) /\ DelOk(rw2, op2) /\ op2 \in [Conns -> Seq(Op)]
<1> DEFINE me == owner[c]
           o == DeleteOp(t, old)
           z == [old EXCEPT !.del = PENDING, !.owner = me]
           rw2 == [rw EXCEPT ![t] = Supersede(rw[t], old, me)]
           op2 == [op EXCEPT ![c] = Append(op[c], o)]
<1>0. old \in Version /\ old.create \in 0..PENDING
  BY VersionFields
<1>1. o \in Op /\ o.op = "delete" /\ o.tab = t /\ o.vid = old.vid
  BY <1>0, VersionFields DEF DeleteOp, Op
<1>2. /\ z.vid = old.vid /\ z.key = old.key /\ z.val = old.val /\ z.create = old.create
      /\ z.del = PENDING /\ z.owner = me
  <2> HIDE DEF PENDING
  <2> QED BY <1>0 DEF Version
<1>3. /\ op[c] \in Seq(Op) /\ op2[c] = Append(op[c], o) /\ \A d \in Conns : d # c => op2[d] = op[d]
      /\ op2 \in [Conns -> Seq(Op)]
  BY <1>1
<1>4. /\ z \in rw2[t] /\ rw[t] \ {old} \subseteq rw2[t] /\ \A v \in rw2[t] : v = z \/ v \in rw[t] \ {old}
      /\ \A u \in Tables : u # t => rw2[u] = rw[u]
  BY DEF Supersede
<1> HIDE DEF o, z, rw2, op2, PENDING
<1>5. \A d \in Conns : \A u, x : Drops(op2[d], u, x) <=> Drops(op[d], u, x) \/ (d = c /\ u = t /\ x = old.vid)
  <2>1. \A u, x : Drops(op2[c], u, x) <=> Drops(op[c], u, x) \/ (u = t /\ x = old.vid)
    BY <1>1, <1>3, DropsMore
  <2> QED BY <1>3, <2>1
<1>6. ASSUME NEW p \in Op, NEW st, NEW he, Inserted(rw, p, st, he) PROVE Inserted(rw2, p, st, he)
  <2>0. p.tab \in Tables
    BY OpFields
  <2>1. PICK v \in rw[p.tab] : Logs(p, "insert", p.tab, v) /\ v.create = st /\ (st = PENDING => v.owner = he)
    BY <1>6 DEF Inserted
  <2>2. CASE p.tab = t /\ v = old
    <3>1. Logs(p, "insert", p.tab, z)
      BY <1>2, <2>1, <2>2 DEF Logs
    <3>2. z \in rw2[p.tab] /\ z.create = st /\ (st = PENDING => z.owner = he)
      BY <1>2, <1>4, <2>1, <2>2 DEF Target
    <3> QED BY <3>1, <3>2 DEF Inserted
  <2>3. CASE ~(p.tab = t /\ v = old)
    <3>1. v \in rw2[p.tab]
      BY <1>4, <2>0, <2>1, <2>3
    <3> QED BY <2>1, <3>1 DEF Inserted
  <2> QED BY <2>2, <2>3
<1>7. \A d \in Conns : \A m \in 1..Len(op2[d]) :
         (m \in 1..Len(op[d]) /\ op2[d][m] = op[d][m]) \/ op2[d][m] = o
  <2>1. \A m \in 1..Len(Append(op[c], o)) :
          (m \in 1..Len(op[c]) /\ Append(op[c], o)[m] = op[c][m]) \/ Append(op[c], o)[m] = o
    BY <1>1, <1>3
  <2> QED BY <1>3, <2>1
<1>8. InsOk(rw2, op2)
  <2>1. \A i \in 1..committed : \A m \in 1..Len(wal[i]) : wal[i][m] \in Op
    <3>1. \A i \in 1..committed : wal[i] \in Seq(Op)
      <4>1. \A i \in 1..committed : i \in 1..Len(wal)
        OBVIOUS
      <4> QED BY <4>1
    <3> QED BY <3>1
  <2>2. \A d \in Conns : \A m \in 1..Len(op[d]) : op[d][m] \in Op
    <3>1. \A d \in Conns : op[d] \in Seq(Op)
      OBVIOUS
    <3> QED BY <3>1
  <2> QED BY <1>1, <1>6, <1>7, <2>1, <2>2 DEF InsOk
<1>9. ASSUME NEW u \in Tables, NEW v \in rw2[u]
      PROVE  /\ v.del # 0 => v.create <= v.del
             /\ v.del \in 1..committed => Settled(op2, u, v)
             /\ v.del = PENDING => \E d \in Conns : Deleter(op2, d, u, v)
  <2>1. CASE u = t /\ v = z
    <3>1. v.create <= v.del /\ v.del \notin 1..committed
      BY <1>0, <1>2, <2>1
    <3>2. Deleter(op2, c, u, v)
      BY <1>2, <1>5, <2>1, WriterIsLast DEF Deleter
    <3> QED BY <3>1, <3>2
  <2>2. CASE ~(u = t /\ v = z)
    <3>1. v \in rw[u] /\ ~(u = t /\ v.vid = old.vid)
      BY <1>4, <1>9, <2>2
    <3>2. \A d \in Conns : Drops(op2[d], u, v.vid) <=> Drops(op[d], u, v.vid)
      BY <1>5, <3>1
    <3>3. /\ v.del # 0 => v.create <= v.del
          /\ v.del \in 1..committed => Settled(op, u, v)
          /\ v.del = PENDING => \E d \in Conns : Deleter(op, d, u, v)
      BY <3>1 DEF DelOk
    <3>4. Settled(op, u, v) => Settled(op2, u, v)
      BY <3>2 DEF Settled
    <3>5. \A d \in Conns : Deleter(op, d, u, v) => Deleter(op2, d, u, v)
      BY <3>2 DEF Deleter
    <3> QED BY <3>3, <3>4, <3>5
  <2> QED BY <2>1, <2>2
<1>10. DelOk(rw2, op2)
  BY <1>9 DEF DelOk
<1> QED BY <1>3, <1>8, <1>10 DEF rw2, op2, o, z

\* What the two invariants say of types.
LEMMA ReplayTypes ==
    ASSUME KeyInv, OpsInv
    PROVE  /\ PipeInv /\ QueueInv /\ OwnerInv
           /\ PENDING \in Nat /\ PENDING # 0 /\ committed \in Nat /\ committed < PENDING
           /\ Len(wal) \in Nat /\ committed <= Len(wal) /\ Len(wal) < PENDING
           /\ rows \in [Tables -> SUBSET Version] /\ nextVid \in [Tables -> Nat \ {0}]
           /\ ops \in [Conns -> Seq(Op)] /\ wal \in Seq(Seq(Op))
           /\ owner \in [Conns -> Nat]
           /\ \A t \in Tables : StampsOk(rows[t], committed)
           /\ \A t \in Tables : \A v, w \in rows[t] : v.vid = w.vid => v = w
<1>1. /\ PipeInv /\ QueueInv /\ OwnerInv /\ RowsOk(rows, nextVid, committed)
  BY DEF KeyInv, KeyOk, PipeInv
<1>2. \A t \in Tables : StampsOk(rows[t], committed)
  BY <1>1, RowsStamps
<1> QED BY <1>1, <1>2, PipeNumbers DEF OpsInv, OwnerInv, RowsOk

\* A statement adds to its transaction's ops.
LEMMA StatementReplay ==
    ASSUME KeyInv, ReplayInv, NEW c \in Conns, pc[c] = "writing",
           ops' \in [Conns -> Seq(Op)], \A d \in Conns : d # c => ops'[d] = ops[d],
           Len(ops[c]) <= Len(ops'[c]), \A i \in 1..Len(ops[c]) : ops'[c][i] = ops[c][i],
           InsOk(rows', ops'), DelOk(rows', ops'),
           UNCHANGED <<committed, pc, snap, owner, nextOwner, saves, queue, flush, wal>>
    PROVE  ReplayInv'
<1>0. OpsInv /\ QueueInv /\ ops \in [Conns -> Seq(Op)]
  BY ReplayTypes DEF ReplayInv
<1>1. OpsInv'
  <2>1. \A i \in 1..Len(flush.batch) : flush.batch[i] \in Conns /\ flush.batch[i] # c
    BY <1>0 DEF QueueInv
  <2>2. \A i \in 1..Len(flush.batch) : ops'[flush.batch[i]] = ops[flush.batch[i]]
    BY <2>1
  <2> QED BY <1>0, <2>2 DEF OpsInv
<1>2. InsOk(rows, ops)' /\ DelOk(rows, ops)'
  <2>1. \A d, e : Behind(d, e)' <=> Behind(d, e)
    BY DEF Behind
  <2>2. \A s, t, x : Drops(s, t, x)' <=> Drops(s, t, x)
    BY DEF Drops
  <2>3. InsOk(rows, ops)'
    BY DEF InsOk, Inserted
  <2>4. DelOk(rows, ops)'
    BY <2>1 DEF DelOk, Settled, Deleter, Drops
  <2> QED BY <2>3, <2>4
<1>3. MarksOk(ops, saves)'
  <2>1. ASSUME NEW d \in Conns, NEW sp \in Save, Marks(ops[d], sp) PROVE Marks(ops'[d], sp)
    <3>1. /\ Len(ops[d]) \in Nat /\ Len(ops'[d]) \in Nat /\ sp.len \in Nat /\ sp.len <= Len(ops[d])
          /\ Len(ops[d]) <= Len(ops'[d])
      <4>1. ops[d] \in Seq(Op) /\ ops'[d] \in Seq(Op)
        BY <1>0
      <4>2. Len(ops[d]) \in Nat /\ Len(ops'[d]) \in Nat
        BY <4>1
      <4>3. Len(ops[d]) <= Len(ops'[d])
        BY <4>2
      <4> QED BY <2>1, <4>2, <4>3 DEF Marks, Save
    <3>2. \A i \in 1..Len(ops[d]) : ops'[d][i] = ops[d][i]
      OBVIOUS
    <3>3. sp.len <= Len(ops'[d]) /\ \A i \in 1..sp.len : ops'[d][i] = ops[d][i]
      BY <3>1, <3>2
    <3> QED BY <2>1, <3>3 DEF Marks
  <2>2. saves \in [Conns -> Seq(Save)]
    BY DEF ReplayInv, MarksOk
  <2>3. \A d \in Conns : \A a \in 1..Len(saves[d]) : saves[d][a] \in Save
    <3>1. \A d \in Conns : saves[d] \in Seq(Save)
      BY <2>2
    <3> QED BY <3>1
  <2>4. \A d \in Conns : \A a \in 1..Len(saves[d]) : Marks(ops'[d], saves[d][a])
    BY <2>1, <2>3 DEF ReplayInv, MarksOk
  <2>5. MarksOk(ops', saves')
    <3>1. saves' = saves /\ MarksOk(ops, saves)
      BY DEF ReplayInv
    <3>2. MarksOk(ops', saves)
      BY <2>4, <3>1 DEF MarksOk
    <3> QED BY <3>1, <3>2
  <2> QED BY <2>5 DEF MarksOk, Marks
<1> QED BY <1>1, <1>2, <1>3 DEF ReplayInv

\* An INSERT, with or without its op.
LEMMA InsertReplay ==
    ASSUME KeyInv, ReplayInv, NEW c \in Conns, pc[c] = "writing",
           NEW t \in Tables, NEW k \in Keys, NEW x \in Vals,
           rows' = [rows EXCEPT ![t] = rows[t] \cup {NewVersion(t, k, x, owner[c])}],
           \/ ops' = ops
           \/ ops' = [ops EXCEPT ![c] = ops[c] \o <<InsertOp(t, k, x)>>],
           UNCHANGED <<committed, pc, snap, owner, nextOwner, saves, queue, flush, wal>>
    PROVE  ReplayInv'
<1> DEFINE n == NewVersion(t, k, x, owner[c])
           o == InsertOp(t, k, x)
<1>0. /\ PENDING # 0 /\ rows \in [Tables -> SUBSET Version] /\ committed \in 0..Len(wal)
      /\ wal \in Seq(Seq(Op)) /\ ops \in [Conns -> Seq(Op)]
      /\ nextVid[t] \in Nat /\ ops[c] \in Seq(Op)
      /\ InsOk(rows, ops) /\ DelOk(rows, ops)
  <2>1. OpsInv
    BY DEF ReplayInv
  <2> HIDE DEF PENDING
  <2> QED BY <2>1, ReplayTypes DEF ReplayInv
<1>1. n.create = PENDING /\ n.del = 0
  BY DEF NewVersion
<1>2. InsOk(rows', ops) /\ DelOk(rows', ops)
  <2> HIDE DEF n, PENDING
  <2> QED BY <1>0, <1>1, AddRow DEF n
<1>3. CASE ops' = ops
  <2>1. Len(ops[c]) <= Len(ops[c])
    BY <1>0
  <2>2. InsOk(rows', ops') /\ DelOk(rows', ops')
    BY <1>2, <1>3
  <2> HIDE DEF PENDING
  <2> QED BY <1>0, <1>3, <2>1, <2>2, StatementReplay
<1>4. CASE ops' = [ops EXCEPT ![c] = ops[c] \o <<o>>]
  <2>1. o \in Op /\ o.op = "insert" /\ o.tab = t
    BY <1>0 DEF InsertOp, Op
  <2>2. n \in rows'[t] /\ Logs(o, "insert", t, n) /\ n.owner = owner[c]
    BY <1>0 DEF Logs, InsertOp, NewVersion
  <2> HIDE DEF n, o, PENDING
  <2>3. Inserted(rows', o, PENDING, owner[c])
    BY <1>1, <2>1, <2>2 DEF Inserted
  <2>4. ops[c] \o <<o>> = Append(ops[c], o)
    BY <1>0, <2>1, AppendIsConcat
  <2>5. ops' = [ops EXCEPT ![c] = Append(ops[c], o)]
    BY <1>4, <2>4
  <2>6. InsOk(rows', ops') /\ DelOk(rows', ops') /\ ops' \in [Conns -> Seq(Op)]
    BY <1>0, <1>2, <2>1, <2>3, <2>5, AddInsertOp
  <2>7. ops'[c] = Append(ops[c], o) /\ \A d \in Conns : d # c => ops'[d] = ops[d]
    BY <1>0, <2>5
  <2>8. Len(ops[c]) <= Len(ops'[c]) /\ \A i \in 1..Len(ops[c]) : ops'[c][i] = ops[c][i]
    BY <1>0, <2>1, <2>7
  <2> QED BY <2>6, <2>7, <2>8, StatementReplay
<1> QED BY <1>3, <1>4

\* A DELETE, or an UPDATE or an INSERT that clashes.
LEMMA SupersedeReplay ==
    ASSUME KeyInv, ReplayInv, NEW c \in Conns, pc[c] = "writing",
           NEW t \in Tables, NEW k \in Keys, NEW x \in Vals,
           NEW old \in rows[t], Target(old, owner[c]),
           \/ /\ rows' = [rows EXCEPT ![t] = Supersede(rows[t], old, owner[c])]
              /\ ops' = [ops EXCEPT ![c] = ops[c] \o <<DeleteOp(t, old)>>]
           \/ /\ rows' = [rows EXCEPT ![t] = Supersede(rows[t], old, owner[c])
                                               \cup {NewVersion(t, k, x, owner[c])}]
              /\ ops' = [ops EXCEPT ![c] = ops[c] \o <<DeleteOp(t, old), InsertOp(t, k, x)>>],
           UNCHANGED <<committed, pc, snap, owner, nextOwner, saves, queue, flush, wal>>
    PROVE  ReplayInv'
<1> DEFINE me == owner[c]
           n == NewVersion(t, k, x, me)
           i == InsertOp(t, k, x)
           d == DeleteOp(t, old)
           S == Supersede(rows[t], old, me)
           rw == [rows EXCEPT ![t] = S]
           op == [ops EXCEPT ![c] = Append(ops[c], d)]
<1>0. /\ PENDING # 0 /\ PENDING \in Nat /\ rows \in [Tables -> SUBSET Version]
      /\ committed \in Nat /\ committed < PENDING /\ committed <= Len(wal) /\ committed \in 0..Len(wal)
      /\ wal \in Seq(Seq(Op)) /\ ops \in [Conns -> Seq(Op)] /\ QueueInv
      /\ nextVid[t] \in Nat /\ ops[c] \in Seq(Op) /\ me \in Nat /\ old \in Version
      /\ InsOk(rows, ops) /\ DelOk(rows, ops)
      /\ \A v \in rows[t] : v.vid = old.vid => v = old
  <2>1. OpsInv
    BY DEF ReplayInv
  <2> HIDE DEF PENDING
  <2> QED BY <2>1, ReplayTypes DEF ReplayInv
<1>1. n.create = PENDING /\ n.del = 0
  BY DEF NewVersion
<1>2. /\ i \in Op /\ i.op = "insert" /\ i.tab = t /\ d \in Op
  BY <1>0, VersionFields DEF InsertOp, DeleteOp, Op
<1>3. Logs(i, "insert", t, n) /\ n.owner = me
  BY DEF Logs, InsertOp, NewVersion
<1>4. rw \in [Tables -> SUBSET Version] /\ rw[t] = S
  <2>1. [old EXCEPT !.del = PENDING, !.owner = me] \in Version
    <3>1. PENDING \in 0..PENDING
      <4> HIDE DEF PENDING
      <4> QED BY <1>0
    <3> HIDE DEF PENDING
    <3> QED BY <1>0, <3>1 DEF Version
  <2>2. S \in SUBSET Version
    BY <1>0, <2>1 DEF Supersede
  <2> HIDE DEF S
  <2> QED BY <1>0, <2>2
<1>5. InsOk(rw, op) /\ DelOk(rw, op) /\ op \in [Conns -> Seq(Op)]
  <2> HIDE DEF PENDING
  <2> QED BY <1>0, AddDeleteOp
<1>6. op[c] = Append(ops[c], d) /\ op[c] \in Seq(Op) /\ \A e \in Conns : e # c => op[e] = ops[e]
  BY <1>0, <1>2
<1>7. CASE rows' = rw /\ ops' = [ops EXCEPT ![c] = ops[c] \o <<d>>]
  <2> HIDE DEF d, rw
  <2>1. ops[c] \o <<d>> = Append(ops[c], d)
    BY <1>0, <1>2, AppendIsConcat
  <2>2. ops' = op
    BY <1>7, <2>1
  <2>3. Len(ops[c]) <= Len(op[c]) /\ \A m \in 1..Len(ops[c]) : op[c][m] = ops[c][m]
    BY <1>0, <1>2, <1>6
  <2> HIDE DEF op, PENDING
  <2> QED BY <1>5, <1>6, <1>7, <2>2, <2>3, StatementReplay
<1>8. CASE /\ rows' = [rows EXCEPT ![t] = S \cup {n}]
           /\ ops' = [ops EXCEPT ![c] = ops[c] \o <<d, i>>]
  <2>1. rows' = [rw EXCEPT ![t] = rw[t] \cup {n}]
    <3> HIDE DEF S, n
    <3> QED BY <1>0, <1>8
  <2> HIDE DEF n, i, d, rw, S, PENDING
  <2>2. InsOk(rows', op) /\ DelOk(rows', op)
    <3> HIDE DEF op
    <3> QED BY <1>0, <1>1, <1>4, <1>5, <2>1, AddRow
  <2>3. n \in rows'[t]
    BY <1>4, <2>1
  <2>4. Inserted(rows', i, PENDING, owner[c])
    BY <1>1, <1>2, <1>3, <2>3 DEF Inserted
  <2>5. ops[c] \o <<d, i>> = Append(op[c], i)
    <3>1. /\ Len(ops[c] \o <<d, i>>) = Len(ops[c]) + 2 /\ Len(Append(op[c], i)) = Len(ops[c]) + 2
          /\ ops[c] \o <<d, i>> \in Seq(Op) /\ Append(op[c], i) \in Seq(Op) /\ Len(ops[c]) \in Nat
      BY <1>0, <1>2, <1>6
    <3>2. \A m \in 1..(Len(ops[c]) + 2) : (ops[c] \o <<d, i>>)[m] = Append(op[c], i)[m]
      BY <1>0, <1>2, <1>6
    <3> QED BY <3>1, <3>2
  <2>6. ops' = [op EXCEPT ![c] = Append(op[c], i)]
    <3>1. ops' = [ops EXCEPT ![c] = Append(op[c], i)]
      BY <1>8, <2>5
    <3> QED BY <1>0, <3>1 DEF op
  <2>7. ops'[c] = Append(op[c], i) /\ \A e \in Conns : e # c => ops'[e] = ops[e]
    BY <1>5, <1>6, <2>6
  <2>8. Len(ops[c]) <= Len(ops'[c]) /\ \A m \in 1..Len(ops[c]) : ops'[c][m] = ops[c][m]
    BY <1>0, <1>2, <1>6, <2>7
  <2> HIDE DEF op
  <2>9. InsOk(rows', ops') /\ DelOk(rows', ops') /\ ops' \in [Conns -> Seq(Op)]
    BY <1>2, <1>5, <2>2, <2>4, <2>6, AddInsertOp
  <2> QED BY <2>7, <2>8, <2>9, StatementReplay
<1> QED BY <1>7, <1>8

\* DML.
LEMMA DmlReplay ==
    ASSUME "rekey" \notin OnConflicts, "supersede" \notin Midway, KeyInv, ReplayInv,
           NEW c \in Conns, Dml(c)
    PROVE  ReplayInv'
<1> DEFINE me == owner[c]
<1>0. /\ PENDING \in Nat /\ PENDING # 0 /\ committed \in Nat /\ committed < PENDING
      /\ \A t \in Tables : StampsOk(rows[t], committed)
      /\ PipeInv /\ KeyOk(rows, nextVid)
  <2>1. OpsInv
    BY DEF ReplayInv
  <2> HIDE DEF PENDING
  <2> QED BY <2>1, ReplayTypes DEF KeyInv
<1> HIDE DEF PENDING
<1>1. ASSUME NEW t \in Tables, NEW k \in Keys, NEW x \in Vals, InsertNew(c, t, k, x)
      PROVE  ReplayInv'
  <2>1. /\ pc[c] = "writing"
        /\ rows' = [rows EXCEPT ![t] = rows[t] \cup {NewVersion(t, k, x, me)}]
        /\ ops' = ops \/ ops' = [ops EXCEPT ![c] = ops[c] \o <<InsertOp(t, k, x)>>]
        /\ UNCHANGED <<committed, pc, snap, owner, nextOwner, saves, queue, flush, wal>>
    BY <1>1 DEF InsertNew, Statement, pipeVars
  <2> QED BY <2>1, InsertReplay
<1>2. ASSUME NEW t \in Tables, NEW k \in Keys, NEW x \in Vals, Upsert(c, t, k, k, x)
      PROVE  ReplayInv'
  <2>1. PICK old \in Live(t, me) :
          Statement(c, t, Supersede(rows[t], old, me) \cup {NewVersion(t, k, x, me)},
                    <<DeleteOp(t, old), InsertOp(t, k, x)>>, 1)
    BY <1>2 DEF Upsert
  <2>2. /\ pc[c] = "writing"
        /\ rows' = [rows EXCEPT ![t] = Supersede(rows[t], old, me) \cup {NewVersion(t, k, x, me)}]
        /\ ops' = [ops EXCEPT ![c] = ops[c] \o <<DeleteOp(t, old), InsertOp(t, k, x)>>]
        /\ UNCHANGED <<committed, pc, snap, owner, nextOwner, saves, queue, flush, wal>>
    BY <2>1 DEF Statement, Leftover, DeleteOp, pipeVars
  <2>3. old \in rows[t] /\ Target(old, me)
    BY <1>0, LiveRow DEF Target
  <2> QED BY <2>2, <2>3, SupersedeReplay
<1>3. ASSUME NEW t \in Tables, NEW k \in Keys, NEW y \in Keys, NEW x \in Vals, Update(c, t, k, y, x)
      PROVE  ReplayInv'
  <2>1. PICK old \in rows[t] :
          /\ visible_to_writer(old, snap[c], me) /\ NoConflict(old, snap[c], me)
          /\ Statement(c, t, Supersede(rows[t], old, me) \cup {NewVersion(t, y, x, me)},
                       <<DeleteOp(t, old), InsertOp(t, y, x)>>, 1)
    BY <1>3 DEF Update
  <2>2. /\ pc[c] = "writing"
        /\ rows' = [rows EXCEPT ![t] = Supersede(rows[t], old, me) \cup {NewVersion(t, y, x, me)}]
        /\ ops' = [ops EXCEPT ![c] = ops[c] \o <<DeleteOp(t, old), InsertOp(t, y, x)>>]
        /\ UNCHANGED <<committed, pc, snap, owner, nextOwner, saves, queue, flush, wal>>
    BY <2>1 DEF Statement, Leftover, DeleteOp, pipeVars
  <2>3. Target(old, me)
    BY <1>0, <2>1, UnsupersededTarget
  <2> QED BY <2>2, <2>3, SupersedeReplay
<1>4. ASSUME NEW t \in Tables, NEW k \in Keys, Delete(c, t, k)
      PROVE  ReplayInv'
  <2>1. PICK old \in rows[t] :
          /\ visible_to_writer(old, snap[c], me) /\ NoConflict(old, snap[c], me)
          /\ Statement(c, t, Supersede(rows[t], old, me), <<DeleteOp(t, old)>>, 0)
    BY <1>4 DEF Delete
  <2>2. /\ pc[c] = "writing"
        /\ rows' = [rows EXCEPT ![t] = Supersede(rows[t], old, me)]
        /\ ops' = [ops EXCEPT ![c] = ops[c] \o <<DeleteOp(t, old)>>]
        /\ UNCHANGED <<committed, pc, snap, owner, nextOwner, saves, queue, flush, wal>>
    BY <2>1 DEF Statement, Leftover, DeleteOp, pipeVars
  <2>3. Target(old, me) /\ old.val \in Vals
    <3>1. old \in Version
      BY <1>0 DEF StampsOk
    <3> QED BY <1>0, <2>1, <3>1, VersionFields, UnsupersededTarget
  <2> QED BY <2>2, <2>3, SupersedeReplay
<1>5. ASSUME NEW t \in Tables, NEW k \in Keys, NEW y \in Keys, NEW x \in Vals,
             InsertDoUpdate(c, t, k, y, x)
      PROVE  Upsert(c, t, k, k, x)
  BY <1>5 DEF InsertDoUpdate
<1>6. ASSUME NEW t \in Tables, NEW k \in Keys, NEW x \in Vals, InsertReplace(c, t, k, x)
      PROVE  Upsert(c, t, k, k, x)
  BY <1>6 DEF InsertReplace
<1> QED BY <1>1, <1>2, <1>3, <1>4, <1>5, <1>6 DEF Dml

\* A step after which the ops are some of those before: deletions stay or are undone.
LEMMA DelStay ==
    ASSUME DelOk(rows, ops), committed' = committed, \A l \in 1..committed : wal'[l] = wal[l],
           PENDING # 0, PENDING \notin 1..committed,
           \A t \in Tables : \A u \in rows'[t] : \E v \in rows[t] :
              /\ u.vid = v.vid /\ u.create = v.create
              /\ u.del # 0 => u.del = v.del
              /\ u.del = PENDING =>
                   /\ u.owner = v.owner
                   /\ \A c \in Conns : owner[c] = v.owner /\ Drops(ops[c], t, v.vid) =>
                         owner'[c] = owner[c] /\ Drops(ops'[c], t, v.vid),
           \A c \in Conns : \A t, x : Drops(ops'[c], t, x) => Drops(ops[c], t, x),
           \A c, d \in Conns : ops'[d] # <<>> /\ Behind(c, d)' => Behind(c, d)
    PROVE  DelOk(rows, ops)'
<1> HIDE DEF PENDING
<1> SUFFICES ASSUME NEW t \in Tables, NEW u \in rows'[t]
             PROVE  /\ u.del # 0 => u.create <= u.del
                    /\ u.del \in 1..committed => Settled(ops, t, u)'
                    /\ u.del = PENDING => \E c \in Conns : Deleter(ops, c, t, u)'
  <2>1. PENDING' = PENDING
    BY DEF PENDING
  <2> QED BY <2>1 DEF DelOk
<1>1. PICK v \in rows[t] :
              /\ u.vid = v.vid /\ u.create = v.create
              /\ u.del # 0 => u.del = v.del
              /\ u.del = PENDING =>
                   /\ u.owner = v.owner
                   /\ \A c \in Conns : owner[c] = v.owner /\ Drops(ops[c], t, v.vid) =>
                         owner'[c] = owner[c] /\ Drops(ops'[c], t, v.vid)
  OBVIOUS
<1>2. /\ v.del # 0 => v.create <= v.del
      /\ v.del \in 1..committed => Settled(ops, t, v)
      /\ v.del = PENDING => \E c \in Conns : Deleter(ops, c, t, v)
  BY DEF DelOk
<1>3. ASSUME u.del \in 1..committed PROVE Settled(ops, t, u)'
  <2>1. u.del = v.del /\ u.vid = v.vid
    BY <1>1, <1>3
  <2>2. /\ Drops(wal[v.del], t, v.vid)
        /\ \A l \in 1..committed : Drops(wal[l], t, v.vid) => l <= v.del
        /\ \A d \in Conns : ~Drops(ops[d], t, v.vid)
    BY <1>2, <1>3, <2>1 DEF Settled
  <2>3. /\ Drops(wal'[u.del], t, u.vid)
        /\ \A l \in 1..committed : Drops(wal'[l], t, u.vid) => l <= u.del
        /\ \A d \in Conns : ~Drops(ops'[d], t, u.vid)
    BY <1>3, <2>1, <2>2
  <2> QED BY <2>3 DEF Settled, Drops
<1>4. ASSUME u.del = PENDING PROVE \E c \in Conns : Deleter(ops, c, t, u)'
  <2>1. u.del = v.del /\ u.vid = v.vid /\ u.owner = v.owner
    BY <1>1, <1>4
  <2>2. PICK c \in Conns : Deleter(ops, c, t, v)
    BY <1>2, <1>4, <2>1
  <2>3. /\ owner[c] = v.owner /\ Drops(ops[c], t, v.vid)
        /\ \A d \in Conns : Drops(ops[d], t, v.vid) => ~Behind(c, d)
    BY <2>2 DEF Deleter
  <2>4. owner'[c] = u.owner /\ Drops(ops'[c], t, u.vid)
    BY <1>1, <1>4, <2>1, <2>3
  <2>5. ASSUME NEW d \in Conns, Drops(ops'[d], t, u.vid) PROVE ~Behind(c, d)'
    <3>1. Drops(ops[d], t, v.vid)
      BY <2>1, <2>5
    <3>2. ops'[d] # <<>>
      BY <2>5 DEF Drops
    <3> QED BY <2>3, <3>1, <3>2
  <2> QED BY <2>4, <2>5 DEF Deleter, Drops
<1> QED BY <1>1, <1>2, <1>3, <1>4

\* The inserts stay, too.
LEMMA InsStay ==
    ASSUME InsOk(rows, ops), committed' = committed, \A l \in 1..committed : wal'[l] = wal[l],
           PENDING \notin 1..committed,
           \A i \in 1..committed : \A m \in 1..Len(wal[i]) : wal[i][m].tab \in Tables,
           \A t \in Tables : \A v \in rows[t] : v.create # PENDING =>
              \E u \in rows'[t] : /\ u.vid = v.vid /\ u.key = v.key /\ u.val = v.val
                                  /\ u.create = v.create,
           \A c \in Conns : \A m \in 1..Len(ops'[c]) :
              /\ owner'[c] = owner[c] /\ m \in 1..Len(ops[c]) /\ ops'[c][m] = ops[c][m]
              /\ ops[c][m].op = "insert" =>
                   \A v \in rows[ops[c][m].tab] :
                      v.vid = ops[c][m].vid /\ v.create = PENDING /\ v.owner = owner[c] =>
                         \E u \in rows'[ops[c][m].tab] :
                            /\ u.vid = v.vid /\ u.key = v.key /\ u.val = v.val
                            /\ u.create = v.create /\ u.owner = v.owner
    PROVE  InsOk(rows, ops)'
<1> HIDE DEF PENDING
<1>1. ASSUME NEW i \in 1..committed, NEW m \in 1..Len(wal[i]), wal[i][m].op = "insert"
      PROVE  Inserted(rows', wal[i][m], i, 0)
  <2>1. PICK v \in rows[wal[i][m].tab] :
           Logs(wal[i][m], "insert", wal[i][m].tab, v) /\ v.create = i
    BY <1>1 DEF InsOk, Inserted
  <2>2. PICK u \in rows'[wal[i][m].tab] :
           u.vid = v.vid /\ u.key = v.key /\ u.val = v.val /\ u.create = v.create
    BY <2>1
  <2>3. Logs(wal[i][m], "insert", wal[i][m].tab, u) /\ u.create = i /\ i # PENDING
    BY <2>1, <2>2 DEF Logs
  <2> QED BY <2>3 DEF Inserted
<1>2. ASSUME NEW c \in Conns, NEW m \in 1..Len(ops'[c]), ops'[c][m].op = "insert"
      PROVE  Inserted(rows', ops'[c][m], PENDING, owner'[c])
  <2>1. /\ owner'[c] = owner[c] /\ m \in 1..Len(ops[c]) /\ ops'[c][m] = ops[c][m]
        /\ ops[c][m].op = "insert"
    BY <1>2
  <2>2. PICK v \in rows[ops[c][m].tab] :
           Logs(ops[c][m], "insert", ops[c][m].tab, v) /\ v.create = PENDING /\ v.owner = owner[c]
    BY <2>1 DEF InsOk, Inserted
  <2>3. v.vid = ops[c][m].vid
    BY <2>2 DEF Logs
  <2>4. PICK u \in rows'[ops[c][m].tab] :
           /\ u.vid = v.vid /\ u.key = v.key /\ u.val = v.val
           /\ u.create = v.create /\ u.owner = v.owner
    BY <1>2, <2>1, <2>2, <2>3
  <2>5. Logs(ops[c][m], "insert", ops[c][m].tab, u)
    BY <2>2, <2>4 DEF Logs
  <2> QED BY <2>1, <2>2, <2>4, <2>5 DEF Inserted
<1>3. PENDING' = PENDING
  BY DEF PENDING
<1>4. /\ \A i \in 1..committed' : \A m \in 1..Len(wal'[i]) :
            wal'[i][m].op = "insert" => Inserted(rows', wal'[i][m], i, 0)
      /\ \A c \in Conns : \A m \in 1..Len(ops'[c]) :
            ops'[c][m].op = "insert" => Inserted(rows', ops'[c][m], PENDING, owner'[c])
  BY <1>1, <1>2
<1> QED BY <1>3, <1>4 DEF InsOk, Inserted

\* A step that leaves the rows and the ops alone.
LEMMA StayReplay ==
    ASSUME KeyInv, ReplayInv, rows' = rows, \A d \in Conns : ops'[d] = ops[d],
           committed' = committed, \A l \in 1..committed : wal'[l] = wal[l],
           \A d \in Conns : ops[d] # <<>> => owner'[d] = owner[d],
           \A a, d \in Conns : ops[d] # <<>> /\ Behind(a, d)' => Behind(a, d)
    PROVE  InsOk(rows, ops)' /\ DelOk(rows, ops)'
<1>0. /\ OpsInv /\ InsOk(rows, ops) /\ DelOk(rows, ops)
      /\ PENDING \in Nat /\ PENDING # 0 /\ committed \in Nat /\ committed < PENDING
      /\ Len(wal) \in Nat /\ committed <= Len(wal)
      /\ wal \in Seq(Seq(Op)) /\ ops \in [Conns -> Seq(Op)]
  BY ReplayTypes DEF ReplayInv
<1> HIDE DEF PENDING
<1>1. PENDING # 0 /\ PENDING \notin 1..committed
  BY <1>0
<1>2. \A i \in 1..committed : \A m \in 1..Len(wal[i]) : wal[i][m].tab \in Tables
  <2> TAKE i \in 1..committed
  <2>1. i \in 1..Len(wal)
    BY <1>0
  <2>2. wal[i] \in Seq(Op)
    BY <1>0, <2>1
  <2>3. \A m \in 1..Len(wal[i]) : wal[i][m] \in Op
    BY <2>2
  <2> QED BY <2>3, OpFields
<1>3. \A c \in Conns : \A t, x : Drops(ops[c], t, x) => ops[c] # <<>>
  BY DEF Drops
<1>4. DelOk(rows, ops)'
  <2>1. \A t \in Tables : \A u \in rows'[t] : \E v \in rows[t] :
              /\ u.vid = v.vid /\ u.create = v.create
              /\ u.del # 0 => u.del = v.del
              /\ u.del = PENDING =>
                   /\ u.owner = v.owner
                   /\ \A c \in Conns : owner[c] = v.owner /\ Drops(ops[c], t, v.vid) =>
                         owner'[c] = owner[c] /\ Drops(ops'[c], t, v.vid)
    BY <1>3
  <2> QED BY <1>0, <1>1, <2>1, DelStay
<1>5. InsOk(rows, ops)'
  <2>1. \A c \in Conns : \A m \in 1..Len(ops'[c]) : ops[c] # <<>>
    <3>1. \A c \in Conns : ops[c] = <<>> => Len(ops[c]) = 0
      OBVIOUS
    <3> QED BY <3>1
  <2> QED BY <1>0, <1>1, <1>2, <2>1, InsStay
<1> QED BY <1>4, <1>5

\* The savepoints stay.
LEMMA MarksStay ==
    ASSUME MarksOk(ops, saves), \A d \in Conns : ops'[d] = ops[d],
           saves' \in [Conns -> Seq(Save)],
           \A d \in Conns : saves'[d] = saves[d] \/ saves'[d] = <<>>
    PROVE  MarksOk(ops, saves)'
<1>1. ASSUME NEW d \in Conns
      PROVE  Len(saves'[d]) <= MaxSaves /\ \A a \in 1..Len(saves'[d]) :
                /\ Marks(ops'[d], saves'[d][a])
                /\ \A b \in 1..Len(saves'[d]) : a <= b => saves'[d][a].len <= saves'[d][b].len
  <2>1. CASE saves'[d] = saves[d]
    BY <2>1 DEF MarksOk
  <2>2. CASE saves'[d] = <<>>
    BY <2>2, StoreAssumption
  <2> QED BY <1>1, <2>1, <2>2
<1> QED BY <1>1 DEF MarksOk, Marks

\* Transactions without ops begin, start to write or end.
LEMMA NoOpsReplay ==
    ASSUME KeyInv, ReplayInv, NEW c \in Conns, ops[c] = <<>>, pc[c] # "queued",
           \/ Begin(c) \/ EnsureWriter(c)
           \/ EndTxns({c}) /\ UNCHANGED <<rows, nextVid, committed, queue, flush, wal>>
    PROVE  ReplayInv'
<1>0. /\ OpsInv /\ InsOk(rows, ops) /\ DelOk(rows, ops) /\ MarksOk(ops, saves) /\ OwnerInv
      /\ ops \in [Conns -> Seq(Op)] /\ saves \in [Conns -> Seq(Save)]
  BY ReplayTypes DEF ReplayInv, MarksOk
<1>1. /\ UNCHANGED <<rows, nextVid, committed, queue, flush, wal>>
      /\ \A d \in Conns : d # c => pc'[d] = pc[d] /\ owner'[d] = owner[d] /\ saves'[d] = saves[d]
      /\ \A d \in Conns : ops'[d] = ops[d]
      /\ ops' \in [Conns -> Seq(Op)] /\ saves' \in [Conns -> Seq(Save)]
      /\ pc'[c] # "queued" /\ (saves'[c] = saves[c] \/ saves'[c] = <<>>)
      /\ pc'[c] \in {"idle", "open", "writing"}
  <2>1. CASE Begin(c)
    BY <1>0, <2>1 DEF Begin, Goto, storeVars, pipeVars, OwnerInv
  <2>2. CASE EnsureWriter(c)
    BY <1>0, <2>2 DEF EnsureWriter, Goto, storeVars, pipeVars, OwnerInv
  <2>3. CASE EndTxns({c}) /\ UNCHANGED <<rows, nextVid, committed, queue, flush, wal>>
    BY <1>0, <2>3 DEF EndTxns
  <2> QED BY <2>1, <2>2, <2>3
<1>2. \A a, d \in Conns : ops[d] # <<>> /\ Behind(a, d)' => Behind(a, d)
  <2>1. \A a \in Conns : pc'[a] = "queued" => pc[a] = "queued"
    BY <1>1
  <2>2. \A d \in Conns : ops[d] # <<>> /\ pc'[d] = "writing" => pc[d] = "writing"
    BY <1>1
  <2> QED BY <1>1, <2>1, <2>2 DEF Behind
<1>3. InsOk(rows, ops)' /\ DelOk(rows, ops)'
  <2>1. \A d \in Conns : ops[d] # <<>> => owner'[d] = owner[d]
    BY <1>1
  <2> QED BY <1>1, <1>2, <2>1, StayReplay
<1>4. MarksOk(ops, saves)'
  BY <1>0, <1>1, MarksStay
<1>5. OpsInv'
  <2>1. \A i \in 1..Len(flush.batch) : flush.batch[i] \in Conns
    BY ReplayTypes, <1>0 DEF QueueInv
  <2>2. \A i \in 1..Len(flush.batch) : ops'[flush.batch[i]] = ops[flush.batch[i]]
    BY <1>1, <2>1
  <2>3. \A d \in Conns : pc'[d] \in {"idle", "open"} => ops'[d] = <<>>
    BY <1>0, <1>1 DEF OpsInv
  <2>4. \A d \in Conns : pc'[d] = "queued" => pc[d] = "queued"
    BY <1>1
  <2> QED BY ZenonT(30), <1>0, <1>1, <2>2, <2>3, <2>4 DEF OpsInv
<1> QED BY <1>3, <1>4, <1>5 DEF ReplayInv

\* Which they are.
LEMMA BeginReplay ==
    ASSUME KeyInv, ReplayInv, NEW c \in Conns, Begin(c) \/ EnsureWriter(c) \/ CommitEmpty(c)
    PROVE  ReplayInv'
<1>1. ops[c] = <<>> /\ pc[c] # "queued"
  BY DEF Begin, EnsureWriter, CommitEmpty, ReplayInv, OpsInv
<1>2. \/ Begin(c) \/ EnsureWriter(c)
      \/ EndTxns({c}) /\ UNCHANGED <<rows, nextVid, committed, queue, flush, wal>>
  BY DEF CommitEmpty, storeVars, pipeVars
<1> QED BY <1>1, <1>2, NoOpsReplay

\* A commit is queued.
LEMMA CommitReplay == ASSUME KeyInv, ReplayInv, NEW c \in Conns, Commit(c) PROVE ReplayInv'
<1>0. /\ OpsInv /\ MarksOk(ops, saves) /\ OwnerInv /\ QueueInv
      /\ saves \in [Conns -> Seq(Save)]
  BY ReplayTypes DEF ReplayInv, MarksOk
<1>1. /\ UNCHANGED <<rows, committed, flush, wal, ops, saves, owner>>
      /\ pc[c] = "writing" /\ pc' = [pc EXCEPT ![c] = "queued"]
      /\ queue' = Append(queue, c)
  BY DEF Commit, Goto, storeVars
<1>2. /\ pc'[c] = "queued" /\ \A d \in Conns : d # c => pc'[d] = pc[d] /\ pc'[d] # "writing"
  BY <1>0, <1>1 DEF OwnerInv
<1>3. /\ queue \in Seq(Conns) /\ Len(queue) \in Nat /\ Len(queue') = Len(queue) + 1
      /\ queue'[Len(queue) + 1] = c
      /\ \A i \in 1..Len(queue) : queue'[i] = queue[i]
  BY <1>0, <1>1 DEF QueueInv
<1>4. \A a, d \in Conns : Behind(a, d)' => Behind(a, d)
  <2> SUFFICES ASSUME NEW a \in Conns, NEW d \in Conns, Behind(a, d)' PROVE Behind(a, d)
    OBVIOUS
  <2>1. ~(pc'[a] = "queued" /\ pc'[d] = "writing")
    BY <1>2
  <2>2. ASSUME NEW i \in 1..Len(queue'), NEW j \in 1..Len(queue'), i < j, queue'[i] = a, queue'[j] = d
        PROVE  Behind(a, d)
    <3>1. i \in 1..Len(queue) /\ queue[i] = a
      BY <1>3, <2>2
    <3>2. CASE j = Len(queue) + 1
      <4>1. pc[a] = "queued" /\ d = c
        BY <1>0, <1>3, <2>2, <3>1, <3>2 DEF QueueInv
      <4> QED BY <1>1, <4>1 DEF Behind
    <3>3. CASE j # Len(queue) + 1
      <4>1. j \in 1..Len(queue) /\ queue[j] = d
        BY <1>3, <2>2, <3>3
      <4> QED BY <2>2, <3>1, <4>1 DEF Behind
    <3> QED BY <3>2, <3>3
  <2>3. ASSUME NEW i \in 1..Len(flush.batch), NEW j \in 1..Len(queue'), flush.batch[i] = a, queue'[j] = d
        PROVE  Behind(a, d)
    <3>2. CASE j = Len(queue) + 1
      <4>1. pc[a] = "queued" /\ d = c
        BY <1>0, <1>3, <2>3, <3>2 DEF QueueInv
      <4> QED BY <1>1, <4>1 DEF Behind
    <3>3. CASE j # Len(queue) + 1
      <4>1. j \in 1..Len(queue) /\ queue[j] = d
        BY <1>3, <2>3, <3>3
      <4> QED BY <2>3, <4>1 DEF Behind
    <3> QED BY <3>2, <3>3
  <2> QED BY <1>1, <2>1, <2>2, <2>3 DEF Behind
<1>5. InsOk(rows, ops)' /\ DelOk(rows, ops)'
  BY <1>1, <1>4, StayReplay
<1>6. MarksOk(ops, saves)'
  BY <1>0, <1>1, MarksStay
<1>7. OpsInv'
  <2>1. ASSUME NEW d \in Conns, pc'[d] = "queued"
        PROVE  \/ \E i \in 1..Len(queue') : queue'[i] = d
               \/ \E i \in 1..Len(flush.batch) : flush.batch[i] = d
    <3>1. CASE d = c
      <4>1. Len(queue) + 1 \in 1..Len(queue')
        BY <1>3
      <4> QED BY <1>3, <3>1, <4>1
    <3>2. CASE d # c
      <4>1. \A i \in 1..Len(queue) : i \in 1..Len(queue')
        BY <1>3
      <4>2. \/ \E i \in 1..Len(queue) : queue[i] = d
            \/ \E i \in 1..Len(flush.batch) : flush.batch[i] = d
        BY <1>0, <1>2, <2>1, <3>2 DEF OpsInv
      <4> QED BY <1>3, <4>1, <4>2
    <3> QED BY <3>1, <3>2
  <2>2. \A d \in Conns : pc'[d] \in {"idle", "open"} => pc[d] \in {"idle", "open"}
    BY <1>2
  <2> QED BY <1>0, <1>1, <2>1, <2>2 DEF OpsInv
<1> QED BY <1>5, <1>6, <1>7 DEF ReplayInv

\* A queue cut in two.
LEMMA CutQueue ==
    ASSUME NEW S, NEW q \in Seq(S), NEW n \in 1..Len(q)
    PROVE  LET b == SubSeq(q, 1, n)
               r == SubSeq(q, n + 1, Len(q))
           IN  /\ Len(b) = n /\ \A i \in 1..n : b[i] = q[i] /\ b[i] \in S /\ i \in 1..Len(q)
               /\ \A i \in 1..Len(r) : r[i] = q[n + i] /\ n + i \in 1..Len(q) /\ n < n + i
               /\ \A i \in 1..Len(q) : i > n => i - n \in 1..Len(r) /\ r[i - n] = q[i]
<1>1. Len(q) \in Nat /\ n \in Nat /\ n <= Len(q)
  OBVIOUS
<1>2. Len(SubSeq(q, 1, n)) = n /\ Len(SubSeq(q, n + 1, Len(q))) = Len(q) - n
  BY <1>1
<1>3. \A i \in 1..n : SubSeq(q, 1, n)[i] = q[i] /\ i \in 1..Len(q) /\ q[i] \in S
  BY <1>1
<1>4. \A i \in 1..(Len(q) - n) :
         SubSeq(q, n + 1, Len(q))[i] = q[n + i] /\ n + i \in 1..Len(q) /\ n < n + i
  BY <1>1
<1>5. \A i \in 1..Len(q) : i > n => i - n \in 1..(Len(q) - n) /\ n + (i - n) = i
  BY <1>1
<1> QED BY <1>2, <1>3, <1>4, <1>5

\* A batch is drained and its append succeeds or fails.
LEMMA FlushReplay == ASSUME KeyInv, ReplayInv, FlushBatch PROVE ReplayInv'
<1>0. /\ OpsInv /\ MarksOk(ops, saves) /\ QueueInv /\ MarkInv
      /\ ops \in [Conns -> Seq(Op)] /\ saves \in [Conns -> Seq(Save)] /\ wal \in Seq(Seq(Op))
      /\ committed \in Nat /\ queue \in Seq(Conns) /\ Len(queue) \in Nat
  BY ReplayTypes DEF ReplayInv, MarksOk, PipeInv, QueueInv, MarkInv
<1>1. /\ flush = NoFlush
      /\ UNCHANGED <<rows, pc, owner, ops, saves, committed>>
  BY DEF FlushBatch, storeVars, txnVars
<1>2. PICK n \in 1..Len(queue) :
        LET b == SubSeq(queue, 1, n) IN
        /\ queue' = SubSeq(queue, n + 1, Len(queue))
        /\ \/ /\ flush' = [ok |-> TRUE, batch |-> b]
              /\ wal' = wal \o [i \in 1..n |-> ops[b[i]]]
           \/ /\ flush' = [ok |-> FALSE, batch |-> b]
              /\ UNCHANGED wal
  BY DEF FlushBatch
<1> DEFINE b == SubSeq(queue, 1, n)
           f == [i \in 1..n |-> ops[b[i]]]
<1>3. /\ queue' = SubSeq(queue, n + 1, Len(queue)) /\ flush'.batch = b
      /\ \/ flush'.ok = TRUE /\ wal' = wal \o f
         \/ flush'.ok = FALSE /\ wal' = wal
  <2>1. /\ queue' = SubSeq(queue, n + 1, Len(queue))
        /\ \/ flush' = [ok |-> TRUE, batch |-> b] /\ wal' = wal \o f
           \/ flush' = [ok |-> FALSE, batch |-> b] /\ wal' = wal
    BY <1>2
  <2> HIDE DEF b, f
  <2> QED BY <2>1
<1>4. /\ Len(b) = n /\ \A i \in 1..n : b[i] = queue[i] /\ b[i] \in Conns /\ i \in 1..Len(queue)
      /\ \A i \in 1..Len(queue') : queue'[i] = queue[n + i] /\ n + i \in 1..Len(queue) /\ n < n + i
      /\ \A i \in 1..Len(queue) : i > n => i - n \in 1..Len(queue') /\ queue'[i - n] = queue[i]
  <2>1. queue' = SubSeq(queue, n + 1, Len(queue))
    BY <1>3
  <2>2. queue \in Seq(Conns)
    BY <1>0
  <2> QED BY <2>1, <2>2, CutQueue
<1>5. f \in Seq(Seq(Op)) /\ Len(f) = n /\ \A i \in 1..n : f[i] = ops[b[i]]
  <2>1. \A i \in 1..n : ops[b[i]] \in Seq(Op)
    BY <1>0, <1>4
  <2>2. n \in Nat
    OBVIOUS
  <2> HIDE DEF b
  <2> QED BY <2>1, <2>2
<1>6. Len(wal) = committed
  <2>1. flush.ok = TRUE /\ Len(flush.batch) = 0
    BY <1>1 DEF NoFlush
  <2> QED BY <1>0, <2>1 DEF MarkInv
<1>6a. n \in Nat /\ n <= Len(queue)
  BY <1>0
<1> HIDE DEF f, b
<1>7. /\ wal' \in Seq(Seq(Op)) /\ \A l \in 1..committed : wal'[l] = wal[l]
      /\ flush'.ok => \A i \in 1..n : wal'[committed + i] = ops[flush'.batch[i]]
  <2>1. CASE flush'.ok = TRUE /\ wal' = wal \o f
    <3>0. /\ wal \o f \in Seq(Seq(Op)) /\ \A l \in 1..Len(wal) : (wal \o f)[l] = wal[l]
          /\ \A i \in 1..Len(f) : (wal \o f)[Len(wal) + i] = f[i]
      <4>1. wal \in Seq(Seq(Op)) /\ f \in Seq(Seq(Op)) /\ Len(wal) \in Nat /\ Len(f) \in Nat
        BY <1>0, <1>5
      <4> QED BY <4>1
    <3>1. /\ wal \o f \in Seq(Seq(Op)) /\ \A l \in 1..committed : (wal \o f)[l] = wal[l]
          /\ \A i \in 1..n : (wal \o f)[committed + i] = f[i]
      BY <1>5, <1>6, <3>0
    <3> QED BY <1>3, <1>5, <2>1, <3>1
  <2>2. CASE flush'.ok = FALSE /\ wal' = wal
    BY <1>0, <2>2
  <2> QED BY <1>3, <2>1, <2>2
<1>8. ASSUME NEW a \in Conns, NEW d \in Conns, Behind(a, d)' PROVE Behind(a, d)
  <2>1. CASE \E i, j \in 1..Len(queue') : i < j /\ queue'[i] = a /\ queue'[j] = d
    <3>1. PICK i, j \in 1..Len(queue') : i < j /\ queue'[i] = a /\ queue'[j] = d
      BY <2>1
    <3>2. n + i < n + j
      BY <1>6a, <3>1
    <3> QED BY <1>4, <3>1, <3>2 DEF Behind
  <2>2. CASE \E i \in 1..Len(flush'.batch), j \in 1..Len(queue') : flush'.batch[i] = a /\ queue'[j] = d
    <3>1. PICK i \in 1..n, j \in 1..Len(queue') : b[i] = a /\ queue'[j] = d
      BY ZenonT(30), <1>3, <1>4, <2>2
    <3>2. i < n + j
      BY <1>6a, <3>1
    <3> QED BY <1>4, <3>1, <3>2 DEF Behind
  <2>3. CASE \E i, j \in 1..Len(flush'.batch) : i < j /\ flush'.batch[i] = a /\ flush'.batch[j] = d
    <3>1. PICK i, j \in 1..n : i < j /\ b[i] = a /\ b[j] = d
      BY <1>3, <1>4, <2>3
    <3> QED BY <1>4, <3>1 DEF Behind
  <2>4. CASE pc'[a] = "queued" /\ pc'[d] = "writing"
    BY <1>1, <2>4 DEF Behind
  <2> QED BY <1>8, <2>1, <2>2, <2>3, <2>4 DEF Behind
<1>9. InsOk(rows, ops)' /\ DelOk(rows, ops)'
  BY <1>1, <1>7, <1>8, StayReplay
<1>10. MarksOk(ops, saves)'
  BY <1>0, <1>1, MarksStay
<1>11. OpsInv'
  <2>1. ASSUME NEW d \in Conns, pc'[d] = "queued"
        PROVE  \/ \E i \in 1..Len(queue') : queue'[i] = d
               \/ \E i \in 1..Len(flush'.batch) : flush'.batch[i] = d
    <3>0. Len(flush.batch) = 0
      BY <1>1 DEF NoFlush
    <3>1. PICK i \in 1..Len(queue) : queue[i] = d
      BY <1>0, <1>1, <2>1, <3>0 DEF OpsInv
    <3>2. CASE i <= n
      <4>1. i \in 1..n
        BY <3>2
      <4> QED BY <1>3, <1>4, <3>1, <4>1
    <3>3. CASE ~(i <= n)
      <4>1. i > n
        BY <1>6a, <3>3
      <4> QED BY <1>4, <3>1, <4>1
    <3> QED BY <3>2, <3>3
  <2>2. flush'.ok => \A i \in 1..Len(flush'.batch) : wal'[committed' + i] = ops'[flush'.batch[i]]
    BY <1>1, <1>3, <1>4, <1>7
  <2> QED BY <1>0, <1>1, <1>7, <2>1, <2>2 DEF OpsInv
<1> QED BY <1>9, <1>10, <1>11 DEF ReplayInv

\* Only the savepoints change.
LEMMA OnlySaves ==
    ASSUME KeyInv, ReplayInv, MarksOk(ops, saves'),
           UNCHANGED <<rows, committed, pc, owner, ops, queue, flush, wal>>
    PROVE  ReplayInv'
<1>1. \A a, d \in Conns : Behind(a, d)' => Behind(a, d)
  BY DEF Behind
<1>2. InsOk(rows, ops)' /\ DelOk(rows, ops)'
  BY <1>1, StayReplay
<1>3. OpsInv'
  BY DEF ReplayInv, OpsInv
<1>4. MarksOk(ops, saves)'
  BY DEF MarksOk, Marks
<1> QED BY <1>2, <1>3, <1>4 DEF ReplayInv

\* RELEASE.
LEMMA ReleaseReplay ==
    ASSUME KeyInv, ReplayInv, NEW c \in Conns, ReleaseSavepoint(c) PROVE ReplayInv'
<1>0. MarksOk(ops, saves) /\ saves \in [Conns -> Seq(Save)] /\ MaxSaves \in Nat
  BY StoreAssumption DEF ReplayInv, MarksOk
<1>1. PICK at \in 1..Len(saves[c]) : saves' = [saves EXCEPT ![c] = SubSeq(saves[c], 1, at - 1)]
  BY DEF ReleaseSavepoint
<1>2. UNCHANGED <<rows, committed, pc, owner, ops, queue, flush, wal>>
  BY DEF ReleaseSavepoint, storeVars, pipeVars
<1>3. saves[c] \in Seq(Save) /\ Len(saves[c]) \in Nat
  BY <1>0
<1> DEFINE s == SubSeq(saves[c], 1, at - 1)
<1>4. /\ s \in Seq(Save) /\ Len(s) = at - 1 /\ Len(s) <= Len(saves[c])
      /\ \A a \in 1..Len(s) : a \in 1..Len(saves[c]) /\ s[a] = saves[c][a]
  BY <1>3
<1> HIDE DEF s
<1>5. saves'[c] = s /\ \A d \in Conns : d # c => saves'[d] = saves[d]
  BY <1>0, <1>1 DEF s
<1>6. saves' \in [Conns -> Seq(Save)]
  BY <1>0, <1>1, <1>4 DEF s
<1>7. ASSUME NEW d \in Conns
      PROVE  Len(saves'[d]) <= MaxSaves
  <2>1. Len(saves[d]) <= MaxSaves /\ Len(saves[d]) \in Nat
    BY <1>0 DEF MarksOk
  <2>2. CASE d = c
    <3>1. Len(s) \in Nat
      BY <1>4
    <3> QED BY <1>0, <1>4, <1>5, <2>1, <2>2, <3>1
  <2>3. CASE d # c
    BY <1>5, <2>1, <2>3
  <2> QED BY <2>2, <2>3
<1>8. ASSUME NEW d \in Conns, NEW a \in 1..Len(saves'[d])
      PROVE  a \in 1..Len(saves[d]) /\ saves'[d][a] = saves[d][a]
  BY <1>4, <1>5, <1>8
<1>9. MarksOk(ops, saves')
  BY <1>0, <1>6, <1>7, <1>8 DEF MarksOk
<1> QED BY <1>2, <1>9, OnlySaves

\* SAVEPOINT: it names all that its transaction has pending.
LEMMA SavepointReplay == ASSUME KeyInv, ReplayInv, NEW c \in Conns, Savepoint(c) PROVE ReplayInv'
<1> DEFINE me == owner[c]
           all == UNION {rows[t] : t \in Tables}
           sp == [ins |-> {v.vid : v \in {w \in all : Mine(w, me) /\ w.create = PENDING}},
                  del |-> {v.vid : v \in {w \in all : Mine(w, me) /\ w.del = PENDING}},
                  len |-> Len(ops[c])]
<1>0. /\ MarksOk(ops, saves) /\ saves \in [Conns -> Seq(Save)] /\ OwnerInv
      /\ InsOk(rows, ops) /\ DelOk(rows, ops)
      /\ rows \in [Tables -> SUBSET Version] /\ ops[c] \in Seq(Op) /\ Len(ops[c]) \in Nat
      /\ saves[c] \in Seq(Save) /\ Len(saves[c]) \in Nat /\ MaxSaves \in Nat
  BY SMTT(30), ReplayTypes, StoreAssumption DEF ReplayInv, MarksOk
<1>1. /\ saves' = [saves EXCEPT ![c] = Append(saves[c], sp)]
      /\ pc[c] \in {"open", "writing"} /\ Len(saves[c]) < MaxSaves
      /\ UNCHANGED <<rows, committed, pc, owner, ops, queue, flush, wal>>
  BY DEF Savepoint, storeVars, pipeVars
<1>2. me # 0 /\ \A d \in Conns : owner[d] = me => d = c
  BY <1>0, <1>1 DEF OwnerInv
<1>3. sp \in Save /\ sp.len = Len(ops[c])
  <2>1. all \subseteq Version
    BY <1>0
  <2>2. \A v \in all : v.vid \in Nat
    BY <2>1, VersionFields
  <2> HIDE DEF all, PENDING, me
  <2> QED BY <1>0, <2>2 DEF Save
<1>4. \A i \in 1..Len(ops[c]) : ops[c][i].op = "insert" => ops[c][i].vid \in sp.ins
  <2> SUFFICES ASSUME NEW i \in 1..Len(ops[c]), ops[c][i].op = "insert" PROVE ops[c][i].vid \in sp.ins
    OBVIOUS
  <2>1. Inserted(rows, ops[c][i], PENDING, me) /\ ops[c][i].tab \in Tables
    <3>1. ops[c][i] \in Op
      BY <1>0
    <3> HIDE DEF PENDING
    <3> QED BY <1>0, <3>1, OpFields DEF InsOk
  <2>2. PICK v \in rows[ops[c][i].tab] : v.vid = ops[c][i].vid /\ v.create = PENDING /\ v.owner = me
    <3> HIDE DEF PENDING
    <3> QED BY <2>1 DEF Inserted, Logs
  <2>3. v \in all
    BY <2>1
  <2> HIDE DEF all, PENDING
  <2> QED BY <2>2, <2>3 DEF Mine
<1>5. \A x \in sp.del : \E i \in 1..Len(ops[c]) : ops[c][i].op = "delete" /\ ops[c][i].vid = x
  <2> SUFFICES ASSUME NEW x \in sp.del
               PROVE  \E i \in 1..Len(ops[c]) : ops[c][i].op = "delete" /\ ops[c][i].vid = x
    OBVIOUS
  <2>1. PICK t \in Tables : \E v \in rows[t] : v.vid = x /\ v.owner = me /\ v.del = PENDING
    <3> HIDE DEF PENDING, me
    <3> QED BY DEF Mine
  <2>1a. PICK v \in rows[t] : v.vid = x /\ v.owner = me /\ v.del = PENDING
    BY <2>1
  <2>2. PICK d \in Conns : Deleter(ops, d, t, v)
    <3> HIDE DEF PENDING
    <3> QED BY <1>0, <2>1a DEF DelOk
  <2>3. Drops(ops[c], t, v.vid)
    BY <1>2, <2>1a, <2>2 DEF Deleter
  <2> QED BY <2>1a, <2>3 DEF Drops
<1> HIDE DEF sp
<1>6. Marks(ops[c], sp)
  BY <1>0, <1>3, <1>4, <1>5 DEF Marks
<1>7. /\ saves'[c] = Append(saves[c], sp) /\ Len(saves'[c]) = Len(saves[c]) + 1
      /\ saves'[c][Len(saves[c]) + 1] = sp
      /\ \A a \in 1..Len(saves[c]) : saves'[c][a] = saves[c][a]
      /\ \A d \in Conns : d # c => saves'[d] = saves[d]
      /\ saves' \in [Conns -> Seq(Save)]
  BY <1>0, <1>1, <1>3
<1>8. ASSUME NEW d \in Conns
      PROVE  Len(saves'[d]) <= MaxSaves /\ \A a \in 1..Len(saves'[d]) :
                /\ Marks(ops[d], saves'[d][a])
                /\ \A e \in 1..Len(saves'[d]) : a <= e => saves'[d][a].len <= saves'[d][e].len
  <2>1. CASE d # c
    BY <1>0, <1>7, <2>1 DEF MarksOk
  <2>2. CASE d = c
    <3>1. Len(saves'[c]) <= MaxSaves
      BY <1>0, <1>1, <1>7
    <3>2. ASSUME NEW a \in 1..Len(saves'[c])
          PROVE  /\ Marks(ops[c], saves'[c][a])
                 /\ \A e \in 1..Len(saves'[c]) : a <= e => saves'[c][a].len <= saves'[c][e].len
      <4>1. CASE a = Len(saves[c]) + 1
        <5>1. \A e \in 1..Len(saves'[c]) : a <= e => e = a
          BY <1>0, <1>7, <4>1
        <5>2. saves'[c][a].len <= saves'[c][a].len
          BY <1>0, <1>3, <1>7, <4>1
        <5> QED BY <1>6, <1>7, <4>1, <5>1, <5>2
      <4>2. CASE a # Len(saves[c]) + 1
        <5>1. a \in 1..Len(saves[c])
          BY <1>0, <1>7, <4>2
        <5>2. /\ Marks(ops[c], saves[c][a])
              /\ \A e \in 1..Len(saves[c]) : a <= e => saves[c][a].len <= saves[c][e].len
          BY <1>0, <5>1 DEF MarksOk
        <5>3. saves[c][a].len <= sp.len
          BY <1>3, <5>2 DEF Marks
        <5>4. \A e \in 1..Len(saves'[c]) : e \in 1..Len(saves[c]) \/ e = Len(saves[c]) + 1
          BY <1>0, <1>7
        <5> QED BY <1>7, <5>1, <5>2, <5>3, <5>4
      <4> QED BY <4>1, <4>2
    <3> QED BY <2>2, <3>1, <3>2
  <2> QED BY <2>1, <2>2
<1>9. MarksOk(ops, saves')
  BY <1>7, <1>8 DEF MarksOk
<1> QED BY <1>1, <1>9, OnlySaves

\* What the discard of a batch does to the rows.
LEMMA DiscardRows ==
    ASSUME QueueInv, Discard
    PROVE  /\ Range(flush.batch) \in SUBSET Conns /\ \A c \in Range(flush.batch) : pc[c] = "queued"
           /\ rows' = AllReverted({owner[c] : c \in Range(flush.batch)}, {}, {})
<1> DEFINE b == flush.batch
           C == Range(b)
           D == {owner[c] : c \in C}
<1>1. rows' = [t \in Tables |->
                  {v \in rows[t] : ~(\E i \in 1..Len(b) : owner[b[i]] = v.owner)} \cup
                  UNION {RolledBack({v \in rows[t] : Mine(v, owner[b[i]])},
                                    owner[b[i]]) : i \in 1..Len(b)}]
  BY DEF Discard
<1>2. /\ C \in SUBSET Conns /\ \A c \in C : pc[c] = "queued"
      /\ \A x : x \in D <=> \E i \in 1..Len(b) : owner[b[i]] = x
  <2>1. /\ \A d : d \in C <=> \E i \in 1..Len(b) : b[i] = d
        /\ C \in SUBSET Conns /\ \A c \in C : pc[c] = "queued"
    BY QueueApart
  <2> HIDE DEF C, b
  <2>2. \A x : x \in D <=> \E i \in 1..Len(b) : owner[b[i]] = x
    BY <2>1
  <2> QED BY <2>1, <2>2
<1> HIDE DEF D, C
<1>4. ASSUME NEW t \in Tables PROVE rows'[t] = Reverted(rows[t], D, {}, {})
  <2> DEFINE M(i) == {v \in rows[t] : Mine(v, owner[b[i]])}
             U(i) == RolledBack(M(i), owner[b[i]])
             A == {v \in rows[t] : ~(\E i \in 1..Len(b) : owner[b[i]] = v.owner)}
  <2>1. rows'[t] = A \cup UNION {U(i) : i \in 1..Len(b)}
    BY <1>1
  <2>2. ASSUME NEW i \in 1..Len(b), NEW v \in M(i)
        PROVE  /\ v \in rows[t]
               /\ Dropped(v, D, {}) <=> Dropped(v, {owner[b[i]]}, {})
               /\ Revive(v, D, {}) = Revive(v, {owner[b[i]]}, {})
    <3>1. v \in rows[t] /\ v.owner = owner[b[i]] /\ v.owner \in D
      BY <1>2, <2>2 DEF Mine
    <3> QED BY <3>1 DEF Dropped, Revive
  <2>3. ASSUME NEW i \in 1..Len(b) PROVE U(i) = Reverted(M(i), {owner[b[i]]}, {}, {})
    BY RolledBackIs
  <2>4. ASSUME NEW u \in rows'[t] PROVE u \in Reverted(rows[t], D, {}, {})
    <3>1. CASE u \in A
      <4>1. u \in rows[t] /\ u.owner \notin D
        BY <1>2, <3>1
      <4>2. ~Dropped(u, D, {}) /\ Revive(u, D, {}) = u
        BY <4>1 DEF Dropped, Revive
      <4>3. Revive(u, D, {}) \in Reverted(rows[t], D, {}, {})
        BY <4>1, <4>2, RevertedTo
      <4> QED BY <4>2, <4>3
    <3>2. ASSUME NEW i \in 1..Len(b), u \in U(i) PROVE u \in Reverted(rows[t], D, {}, {})
      <4> HIDE DEF M, U
      <4>1. PICK v \in M(i) : ~Dropped(v, {owner[b[i]]}, {}) /\ u = Revive(v, {owner[b[i]]}, {})
        <5>1. u \in Reverted(M(i), {owner[b[i]]}, {}, {})
          BY <2>3, <3>2
        <5> QED BY <5>1, RevertedFrom
      <4>2. v \in rows[t] /\ ~Dropped(v, D, {}) /\ u = Revive(v, D, {})
        BY <2>2, <4>1
      <4>3. Revive(v, D, {}) \in Reverted(rows[t], D, {}, {})
        BY <4>2, RevertedTo
      <4> QED BY <4>2, <4>3
    <3> HIDE DEF U, A
    <3> QED BY <2>1, <2>4, <3>1, <3>2
  <2>5. ASSUME NEW u \in Reverted(rows[t], D, {}, {}) PROVE u \in rows'[t]
    <3>1. PICK v \in rows[t] : ~Dropped(v, D, {}) /\ u = Revive(v, D, {})
      BY RevertedFrom
    <3>2. CASE v.owner \notin D
      <4>1. u = v
        BY <3>1, <3>2 DEF Revive
      <4>2. v \in A
        BY <1>2, <3>2
      <4> HIDE DEF U, A
      <4> QED BY <2>1, <4>1, <4>2
    <3>3. CASE v.owner \in D
      <4>1. PICK i \in 1..Len(b) : owner[b[i]] = v.owner
        BY <1>2, <3>3
      <4>2. v \in M(i)
        BY <4>1 DEF Mine
      <4> HIDE DEF M, U, A
      <4>3. ~Dropped(v, {owner[b[i]]}, {}) /\ u = Revive(v, {owner[b[i]]}, {})
        BY <2>2, <3>1, <4>2
      <4>4. u \in U(i)
        BY <2>3, <4>2, <4>3, RevertedTo
      <4> QED BY <2>1, <4>4
    <3> QED BY <3>2, <3>3
  <2> QED BY <2>4, <2>5
<1>5. rows' = AllReverted(D, {}, {})
  <2>1. rows' = [t \in Tables |-> rows'[t]]
    BY <1>1
  <2> QED BY <1>4, <2>1 DEF AllReverted
<1> QED BY <1>2, <1>5 DEF D, C

\* A step that reverts versions and truncates ops.
LEMMA RevertReplay ==
    ASSUME KeyInv, ReplayInv, NEW D, NEW ins, NEW del, rows' = AllReverted(D, ins, del),
           committed' = committed, wal' = wal,
           \A c \in Conns : \A m \in 1..Len(ops'[c]) :
              /\ owner'[c] = owner[c] /\ m \in 1..Len(ops[c]) /\ ops'[c][m] = ops[c][m]
              /\ ops[c][m].op = "insert" => owner[c] \notin D \/ ops[c][m].vid \in ins,
           \A c \in Conns : \A t \in Tables : \A v \in rows[t] :
              owner[c] = v.owner /\ v.del = PENDING /\ Drops(ops[c], t, v.vid)
                /\ (v.owner \notin D \/ v.vid \in del)
              => owner'[c] = owner[c] /\ Drops(ops'[c], t, v.vid),
           \A a, d \in Conns : ops'[d] # <<>> /\ Behind(a, d)' => Behind(a, d)
    PROVE  InsOk(rows, ops)' /\ DelOk(rows, ops)'
<1>0. /\ OpsInv /\ InsOk(rows, ops) /\ DelOk(rows, ops)
      /\ PENDING \in Nat /\ PENDING # 0 /\ committed \in Nat /\ committed < PENDING
      /\ Len(wal) \in Nat /\ committed <= Len(wal) /\ rows \in [Tables -> SUBSET Version]
      /\ wal \in Seq(Seq(Op)) /\ ops \in [Conns -> Seq(Op)]
  BY ReplayTypes DEF ReplayInv
<1> HIDE DEF PENDING
<1>1. PENDING \notin 1..committed /\ \A l \in 1..committed : wal'[l] = wal[l]
  BY <1>0
<1>2. \A i \in 1..committed : \A m \in 1..Len(wal[i]) : wal[i][m].tab \in Tables
  <2> TAKE i \in 1..committed
  <2>1. i \in 1..Len(wal)
    BY <1>0
  <2>2. wal[i] \in Seq(Op)
    BY <1>0, <2>1
  <2>3. \A m \in 1..Len(wal[i]) : wal[i][m] \in Op
    BY <2>2
  <2> QED BY <2>3, OpFields
<1>3. \A t \in Tables : rows'[t] = Reverted(rows[t], D, ins, del)
  BY DEF AllReverted
<1>4. ASSUME NEW t \in Tables, NEW v \in rows[t], ~Dropped(v, D, ins)
      PROVE  \E u \in rows'[t] :
                /\ u.vid = v.vid /\ u.key = v.key /\ u.val = v.val /\ u.create = v.create
                /\ v.create = PENDING => u.owner = v.owner
  <2>1. v \in Version
    BY <1>0
  <2>2. Revive(v, D, del) \in rows'[t]
    BY <1>3, <1>4, RevertedTo
  <2> QED BY SMTT(30), <1>0, <2>1, <2>2, ReviveFields
<1>5. DelOk(rows, ops)'
  <2>1. ASSUME NEW t \in Tables, NEW u \in rows'[t]
        PROVE  \E v \in rows[t] :
                  /\ u.vid = v.vid /\ u.create = v.create
                  /\ u.del # 0 => u.del = v.del
                  /\ u.del = PENDING =>
                       /\ u.owner = v.owner
                       /\ \A c \in Conns : owner[c] = v.owner /\ Drops(ops[c], t, v.vid) =>
                             owner'[c] = owner[c] /\ Drops(ops'[c], t, v.vid)
    <3>1. PICK v \in rows[t] : u = Revive(v, D, del)
      BY <1>3, RevertedFrom
    <3>2. v \in Version
      BY <1>0
    <3>3. /\ u.vid = v.vid /\ u.create = v.create
          /\ u.del # 0 => u = v /\ (v.del = PENDING => v.owner \notin D \/ v.vid \in del)
      BY <1>0, <3>1, <3>2, ReviveFields
    <3>4. ASSUME u.del = PENDING, NEW c \in Conns, owner[c] = v.owner, Drops(ops[c], t, v.vid)
          PROVE  owner'[c] = owner[c] /\ Drops(ops'[c], t, v.vid)
      <4>1. v.del = PENDING /\ (v.owner \notin D \/ v.vid \in del)
        BY <1>0, <3>3, <3>4
      <4> QED BY <3>4, <4>1
    <3> QED BY <1>0, <3>3, <3>4
  <2>2. \A c \in Conns : \A t, x : Drops(ops'[c], t, x) => Drops(ops[c], t, x)
    <3>1. \A c \in Conns : \A m \in 1..Len(ops'[c]) : m \in 1..Len(ops[c]) /\ ops'[c][m] = ops[c][m]
      OBVIOUS
    <3> QED BY <3>1 DEF Drops
  <2> QED BY <1>0, <1>1, <2>1, <2>2, DelStay
<1>6. InsOk(rows, ops)'
  <2>1. \A t \in Tables : \A v \in rows[t] : v.create # PENDING =>
              \E u \in rows'[t] : /\ u.vid = v.vid /\ u.key = v.key /\ u.val = v.val
                                  /\ u.create = v.create
    <3>1. \A v : v.create # PENDING => ~Dropped(v, D, ins)
      BY DEF Dropped
    <3> QED BY <1>4, <3>1
  <2>2. ASSUME NEW c \in Conns, NEW m \in 1..Len(ops'[c])
        PROVE  /\ owner'[c] = owner[c] /\ m \in 1..Len(ops[c]) /\ ops'[c][m] = ops[c][m]
               /\ ops[c][m].op = "insert" =>
                    \A v \in rows[ops[c][m].tab] :
                       v.vid = ops[c][m].vid /\ v.create = PENDING /\ v.owner = owner[c] =>
                          \E u \in rows'[ops[c][m].tab] :
                             /\ u.vid = v.vid /\ u.key = v.key /\ u.val = v.val
                             /\ u.create = v.create /\ u.owner = v.owner
    <3>1. /\ owner'[c] = owner[c] /\ m \in 1..Len(ops[c]) /\ ops'[c][m] = ops[c][m]
          /\ ops[c][m].op = "insert" => owner[c] \notin D \/ ops[c][m].vid \in ins
      BY <2>2
    <3>2. ops[c][m].tab \in Tables
      <4>1. ops[c] \in Seq(Op)
        BY <1>0
      <4>2. ops[c][m] \in Op
        BY <3>1, <4>1
      <4> QED BY <4>2, OpFields
    <3>3. ASSUME ops[c][m].op = "insert", NEW v \in rows[ops[c][m].tab],
                 v.vid = ops[c][m].vid, v.create = PENDING, v.owner = owner[c]
          PROVE  ~Dropped(v, D, ins)
      BY <3>1, <3>3 DEF Dropped
    <3> QED BY <1>4, <3>1, <3>2, <3>3
  <2> QED BY <1>0, <1>1, <1>2, <2>1, <2>2, InsStay
<1> QED BY <1>5, <1>6

\* Transactions end.
LEMMA EndedFields ==
    ASSUME OpsInv, MarksOk(ops, saves), NEW C \in SUBSET Conns, EndTxns(C), OwnerInv
    PROVE  /\ \A d \in Conns :
                /\ d \in C => pc'[d] = "idle" /\ ops'[d] = <<>> /\ saves'[d] = <<>>
                /\ d \notin C => /\ pc'[d] = pc[d] /\ ops'[d] = ops[d] /\ saves'[d] = saves[d]
                                 /\ owner'[d] = owner[d]
           /\ ops' \in [Conns -> Seq(Op)] /\ saves' \in [Conns -> Seq(Save)]
           /\ MarksOk(ops, saves)'
<1>1. /\ \A d \in Conns :
           /\ d \in C => pc'[d] = "idle" /\ ops'[d] = <<>> /\ saves'[d] = <<>>
           /\ d \notin C => /\ pc'[d] = pc[d] /\ ops'[d] = ops[d] /\ saves'[d] = saves[d]
                            /\ owner'[d] = owner[d]
      /\ ops' \in [Conns -> Seq(Op)] /\ saves' \in [Conns -> Seq(Save)]
  BY DEF EndTxns, OpsInv, MarksOk
<1>2. ASSUME NEW d \in Conns
      PROVE  Len(saves'[d]) <= MaxSaves /\ \A a \in 1..Len(saves'[d]) :
                /\ Marks(ops'[d], saves'[d][a])
                /\ \A e \in 1..Len(saves'[d]) : a <= e => saves'[d][a].len <= saves'[d][e].len
  <2>1. CASE d \notin C
    BY <1>1, <2>1 DEF MarksOk
  <2>2. CASE d \in C
    <3>1. saves'[d] = <<>> /\ MaxSaves \in Nat
      BY <1>1, <2>2, StoreAssumption
    <3> QED BY <3>1
  <2> QED BY <2>1, <2>2
<1> QED BY <1>1, <1>2 DEF MarksOk, Marks

\* Transactions roll back and end.
LEMMA EndedReplay ==
    ASSUME KeyInv, ReplayInv, NEW C \in SUBSET Conns, \A c \in C : pc[c] # "idle", EndTxns(C),
           rows' = AllReverted({owner[c] : c \in C}, {}, {}), committed' = committed, wal' = wal,
           \A a, d \in Conns : d \notin C /\ Behind(a, d)' => Behind(a, d)
    PROVE  InsOk(rows, ops)' /\ DelOk(rows, ops)' /\ MarksOk(ops, saves)'
<1> DEFINE D == {owner[c] : c \in C}
<1>0. OpsInv /\ MarksOk(ops, saves) /\ OwnerInv /\ ops \in [Conns -> Seq(Op)]
  BY ReplayTypes DEF ReplayInv
<1>1. /\ \A d \in Conns :
           /\ d \in C => ops'[d] = <<>>
           /\ d \notin C => ops'[d] = ops[d] /\ owner'[d] = owner[d]
      /\ MarksOk(ops, saves)'
  BY <1>0, EndedFields
<1>2. ASSUME NEW d \in Conns, d \notin C, ops[d] # <<>> PROVE owner[d] \notin D
  <2>1. owner[d] # 0
    BY <1>0, <1>2 DEF OwnerInv, OpsInv
  <2> QED BY <1>0, <1>2, <2>1 DEF OwnerInv
<1>3. \A s, t, x : Drops(s, t, x) => s # <<>>
  BY DEF Drops
<1>4. \A d \in Conns : owner[d] \notin D => d \notin C
  OBVIOUS
<1> HIDE DEF D
<1>5. ASSUME NEW d \in Conns, NEW m \in 1..Len(ops'[d])
      PROVE  /\ owner'[d] = owner[d] /\ m \in 1..Len(ops[d]) /\ ops'[d][m] = ops[d][m]
             /\ owner[d] \notin D
  <2>1. d \notin C
    <3>1. d \in C => Len(ops'[d]) = 0
      BY <1>1
    <3> QED BY <1>5, <3>1
  <2>2. ops'[d] = ops[d] /\ owner'[d] = owner[d]
    BY <1>1, <2>1
  <2>3. ops[d] # <<>>
    <3>1. ops[d] = <<>> => Len(ops[d]) = 0
      OBVIOUS
    <3> QED BY <1>5, <2>2, <3>1
  <2> QED BY <1>2, <1>5, <2>1, <2>2, <2>3
<1>6. ASSUME NEW c \in Conns, NEW t \in Tables, NEW v \in rows[t], owner[c] = v.owner,
             Drops(ops[c], t, v.vid), v.owner \notin D \/ v.vid \in {}
      PROVE  owner'[c] = owner[c] /\ Drops(ops'[c], t, v.vid)
  BY <1>1, <1>4, <1>6
<1>7. \A a, d \in Conns : ops'[d] # <<>> /\ Behind(a, d)' => Behind(a, d)
  BY <1>1
<1>8. rows' = AllReverted(D, {}, {})
  BY DEF D
<1>9. InsOk(rows, ops)' /\ DelOk(rows, ops)'
  <2>1. \A d \in Conns : \A m \in 1..Len(ops'[d]) :
           /\ owner'[d] = owner[d] /\ m \in 1..Len(ops[d]) /\ ops'[d][m] = ops[d][m]
           /\ ops[d][m].op = "insert" => owner[d] \notin D \/ ops[d][m].vid \in {}
    BY <1>5
  <2>2. \A c \in Conns : \A t \in Tables : \A v \in rows[t] :
           owner[c] = v.owner /\ v.del = PENDING /\ Drops(ops[c], t, v.vid)
             /\ (v.owner \notin D \/ v.vid \in {})
           => owner'[c] = owner[c] /\ Drops(ops'[c], t, v.vid)
    <3> HIDE DEF PENDING
    <3> QED BY <1>6
  <2> HIDE DEF PENDING
  <2> QED BY <1>7, <1>8, <2>1, <2>2, RevertReplay
<1> QED BY <1>1, <1>9

\* ROLLBACK.
LEMMA RollbackReplay == ASSUME KeyInv, ReplayInv, NEW c \in Conns, Rollback(c) PROVE ReplayInv'
<1>0. /\ OpsInv /\ MarksOk(ops, saves) /\ OwnerInv /\ QueueInv
  BY ReplayTypes DEF ReplayInv
<1>1. /\ pc[c] \in {"open", "writing"} /\ EndTxns({c})
      /\ UNCHANGED <<nextVid, committed, nextOwner, queue, flush, wal>>
      /\ \/ pc[c] = "open" /\ rows' = rows
         \/ pc[c] = "writing" /\ rows' = [t \in Tables |-> RolledBack(rows[t], owner[c])]
  BY DEF Rollback, pipeVars
<1>2. CASE pc[c] = "open" /\ rows' = rows
  <2>1. ops[c] = <<>>
    BY <1>0, <1>2 DEF OpsInv
  <2> QED BY <1>1, <1>2, <2>1, NoOpsReplay
<1>3. CASE pc[c] = "writing" /\ rows' = [t \in Tables |-> RolledBack(rows[t], owner[c])]
  <2>1. \A R : RolledBack(R, owner[c]) = Reverted(R, {owner[c]}, {}, {})
    BY RolledBackIs
  <2>2. {owner[d] : d \in {c}} = {owner[c]}
    OBVIOUS
  <2>3. rows' = AllReverted({owner[d] : d \in {c}}, {}, {})
    BY <1>3, <2>1, <2>2 DEF AllReverted
  <2>4. /\ \A d \in Conns :
             /\ d = c => pc'[d] = "idle" /\ ops'[d] = <<>>
             /\ d # c => pc'[d] = pc[d] /\ ops'[d] = ops[d]
        /\ ops' \in [Conns -> Seq(Op)] /\ {c} \in SUBSET Conns /\ \A d \in {c} : pc[d] # "idle"
    BY <1>0, <1>1, EndedFields
  <2>5. \A a, d \in Conns : d \notin {c} /\ Behind(a, d)' => Behind(a, d)
    BY <1>1, <2>4 DEF Behind
  <2>6. InsOk(rows, ops)' /\ DelOk(rows, ops)' /\ MarksOk(ops, saves)'
    BY <1>1, <2>3, <2>4, <2>5, EndedReplay
  <2>7. OpsInv'
    <3>1. \A i \in 1..Len(flush.batch) : flush.batch[i] \in Conns /\ flush.batch[i] # c
      BY <1>0, <1>1 DEF QueueInv
    <3>2. \A i \in 1..Len(flush.batch) : ops'[flush.batch[i]] = ops[flush.batch[i]]
      BY <2>4, <3>1
    <3>3. /\ wal' = wal /\ queue' = queue /\ flush' = flush /\ committed' = committed
          /\ \A d \in Conns : pc'[d] \in {"idle", "open"} => ops'[d] = <<>>
          /\ \A d \in Conns : pc'[d] = "queued" => pc[d] = "queued"
      BY <1>0, <1>1, <2>4 DEF OpsInv
    <3>4. flush'.ok => \A i \in 1..Len(flush'.batch) : wal'[committed' + i] = ops'[flush'.batch[i]]
      BY <1>0, <3>2, <3>3 DEF OpsInv
    <3> QED BY <1>0, <2>4, <3>3, <3>4 DEF OpsInv
  <2> QED BY <2>6, <2>7 DEF ReplayInv
<1> QED BY <1>1, <1>2, <1>3

\* What is left when the batch is over.
LEMMA OpsOver ==
    ASSUME OpsInv, MarksOk(ops, saves), OwnerInv, QueueInv, EndTxns(Range(flush.batch)),
           flush' = NoFlush, UNCHANGED <<queue, wal>>
    PROVE  /\ OpsInv'
           /\ \A a, d \in Conns : d \notin Range(flush.batch) /\ Behind(a, d)' => Behind(a, d)
<1> DEFINE C == Range(flush.batch)
<1>0. C \in SUBSET Conns /\ \A d : d \in C <=> \E i \in 1..Len(flush.batch) : flush.batch[i] = d
  BY QueueApart
<1> HIDE DEF C
<1>1. /\ \A d \in Conns :
           /\ d \in C => pc'[d] = "idle" /\ ops'[d] = <<>>
           /\ d \notin C => pc'[d] = pc[d] /\ ops'[d] = ops[d]
      /\ ops' \in [Conns -> Seq(Op)]
  <2>1. EndTxns(C)
    BY DEF C
  <2> QED BY <1>0, <2>1, EndedFields
<1>2. Len(flush'.batch) = 0
  BY DEF NoFlush
<1>3. ASSUME NEW d \in Conns, pc'[d] = "queued"
      PROVE  \E i \in 1..Len(queue) : queue[i] = d
  <2>1. d \notin C /\ pc[d] = "queued"
    BY <1>1, <1>3
  <2> QED BY <1>0, <2>1 DEF OpsInv
<1>4. OpsInv'
  <2>1. \A d \in Conns : pc'[d] \in {"idle", "open"} => ops'[d] = <<>>
    BY <1>1 DEF OpsInv
  <2>2. \A i \in 1..Len(flush'.batch) : FALSE
    BY <1>2
  <2> QED BY <1>1, <1>3, <2>1, <2>2 DEF OpsInv
<1>5. \A a, d \in Conns : d \notin C /\ Behind(a, d)' => Behind(a, d)
  BY <1>1, <1>2 DEF Behind
<1> QED BY <1>4, <1>5 DEF C

\* The append of a batch failed.
LEMMA DiscardReplay == ASSUME KeyInv, ReplayInv, Discard PROVE ReplayInv'
<1>0. /\ OpsInv /\ MarksOk(ops, saves) /\ OwnerInv /\ QueueInv
  BY ReplayTypes DEF ReplayInv
<1>1. /\ EndTxns(Range(flush.batch)) /\ flush' = NoFlush
      /\ UNCHANGED <<nextVid, committed, nextOwner, queue, wal>>
  BY DEF Discard
<1>2. /\ Range(flush.batch) \in SUBSET Conns /\ \A c \in Range(flush.batch) : pc[c] # "idle"
      /\ rows' = AllReverted({owner[c] : c \in Range(flush.batch)}, {}, {})
  BY <1>0, DiscardRows
<1>3. /\ OpsInv'
      /\ \A a, d \in Conns : d \notin Range(flush.batch) /\ Behind(a, d)' => Behind(a, d)
  BY <1>0, <1>1, OpsOver
<1>4. InsOk(rows, ops)' /\ DelOk(rows, ops)' /\ MarksOk(ops, saves)'
  BY <1>1, <1>2, <1>3, EndedReplay
<1> QED BY <1>3, <1>4 DEF ReplayInv

\* ROLLBACK TO.
LEMMA RollbackToReplay ==
    ASSUME OneTable, KeyInv, ReplayInv, NEW c \in Conns, RollbackTo(c) PROVE ReplayInv'
<1> DEFINE me == owner[c]
<1>0. /\ OpsInv /\ MarksOk(ops, saves) /\ OwnerInv /\ QueueInv /\ MaxSaves \in Nat
      /\ ops \in [Conns -> Seq(Op)] /\ saves \in [Conns -> Seq(Save)]
      /\ ops[c] \in Seq(Op) /\ Len(ops[c]) \in Nat /\ saves[c] \in Seq(Save) /\ Len(saves[c]) \in Nat
  BY SMTT(30), ReplayTypes, StoreAssumption DEF ReplayInv, MarksOk
<1>1. PICK at \in 1..Len(saves[c]) :
         /\ rows' = [t \in Tables |-> RolledBackTo(rows[t], owner[c], saves[c][at])]
         /\ ops' = [ops EXCEPT ![c] = SubSeq(ops[c], 1, saves[c][at].len)]
         /\ saves' = [saves EXCEPT ![c] = SubSeq(saves[c], 1, at)]
  BY DEF RollbackTo
<1>2. /\ pc[c] \in {"open", "writing"}
      /\ UNCHANGED <<nextVid, committed, pc, snap, owner, nextOwner, queue, flush, wal>>
  BY DEF RollbackTo, pipeVars
<1> DEFINE sp == saves[c][at]
           s == SubSeq(saves[c], 1, at)
           o == SubSeq(ops[c], 1, sp.len)
<1>3. rows' = AllReverted({me}, sp.ins, sp.del)
  <2>1. \A R : RolledBackTo(R, me, sp) = Reverted(R, {me}, sp.ins, sp.del)
    BY RolledBackToIs
  <2> QED BY <1>1, <2>1 DEF AllReverted
<1>4. /\ sp \in Save /\ sp.len \in Nat /\ sp.len <= Len(ops[c]) /\ Marks(ops[c], sp)
  <2>1. sp \in Save
    BY <1>0
  <2>2. Marks(ops[c], sp)
    BY <1>0 DEF MarksOk
  <2> QED BY <2>1, <2>2 DEF Marks, Save
<1>5. /\ s \in Seq(Save) /\ Len(s) = at /\ at <= Len(saves[c]) /\ at \in Nat
      /\ \A a \in 1..Len(s) : a \in 1..Len(saves[c]) /\ a <= at /\ s[a] = saves[c][a]
  BY <1>0
<1> HIDE DEF sp
<1>6. /\ o \in Seq(Op) /\ Len(o) = sp.len
      /\ \A i \in 1..sp.len : i \in 1..Len(ops[c]) /\ o[i] = ops[c][i]
  BY <1>0, <1>4
<1> HIDE DEF s, o
<1>7. /\ ops'[c] = o /\ saves'[c] = s
      /\ \A d \in Conns : d # c => ops'[d] = ops[d] /\ saves'[d] = saves[d]
      /\ ops' \in [Conns -> Seq(Op)] /\ saves' \in [Conns -> Seq(Save)]
  BY <1>0, <1>1, <1>5, <1>6 DEF s, o, sp
<1>8. me # 0 /\ \A d \in Conns : owner[d] = me => d = c
  BY <1>0, <1>2 DEF OwnerInv
<1>9. \A t, u \in Tables : t = u
  <2>1. 1 <= Len(saves[c]) /\ Len(saves[c]) <= MaxSaves
    BY <1>0 DEF MarksOk
  <2>2. MaxSaves # 0
    BY <1>0, <2>1
  <2> QED BY <2>2 DEF OneTable
<1>10. \A d \in Conns : \A m \in 1..Len(ops'[d]) :
          /\ owner'[d] = owner[d] /\ m \in 1..Len(ops[d]) /\ ops'[d][m] = ops[d][m]
          /\ ops[d][m].op = "insert" => owner[d] \notin {me} \/ ops[d][m].vid \in sp.ins
  <2> SUFFICES ASSUME NEW d \in Conns, NEW m \in 1..Len(ops'[d])
               PROVE  /\ m \in 1..Len(ops[d]) /\ ops'[d][m] = ops[d][m]
                      /\ ops[d][m].op = "insert" => owner[d] # me \/ ops[d][m].vid \in sp.ins
    BY <1>2
  <2>1. CASE d = c
    <3>1. m \in 1..sp.len
      BY <1>6, <1>7, <2>1
    <3> QED BY <1>4, <1>6, <1>7, <2>1, <3>1 DEF Marks
  <2>2. CASE d # c
    BY <1>7, <1>8, <2>2
  <2> QED BY <2>1, <2>2
<1>11. ASSUME NEW d \in Conns, NEW t \in Tables, NEW v \in rows[t], owner[d] = v.owner,
              Drops(ops[d], t, v.vid), v.owner \notin {me} \/ v.vid \in sp.del
       PROVE  owner'[d] = owner[d] /\ Drops(ops'[d], t, v.vid)
  <2>1. CASE d = c
    <3>1. PICK i \in 1..sp.len : ops[c][i].op = "delete" /\ ops[c][i].vid = v.vid
      BY <1>4, <1>11, <2>1 DEF Marks
    <3>2. i \in 1..Len(o) /\ o[i] = ops[c][i] /\ i \in 1..Len(ops[c])
      BY <1>6, <3>1
    <3>3. o[i].tab = t
      <4>1. o[i] \in Op
        BY <1>6, <3>2
      <4> QED BY <1>9, <4>1, OpFields
    <3> QED BY <1>2, <1>7, <2>1, <3>1, <3>2, <3>3 DEF Drops
  <2>2. CASE d # c
    BY <1>2, <1>7, <1>11, <2>2
  <2> QED BY <2>1, <2>2
<1>12. \A a, d \in Conns : ops'[d] # <<>> /\ Behind(a, d)' => Behind(a, d)
  BY <1>2 DEF Behind
<1>13. InsOk(rows, ops)' /\ DelOk(rows, ops)'
  <2>1. \A d \in Conns : \A t \in Tables : \A v \in rows[t] :
           owner[d] = v.owner /\ v.del = PENDING /\ Drops(ops[d], t, v.vid)
             /\ (v.owner \notin {me} \/ v.vid \in sp.del)
           => owner'[d] = owner[d] /\ Drops(ops'[d], t, v.vid)
    <3> HIDE DEF PENDING, me
    <3> QED BY <1>11
  <2> DEFINE D == {me}
  <2>2. rows' = AllReverted(D, sp.ins, sp.del)
    BY <1>3
  <2>3. \A d \in Conns : \A m \in 1..Len(ops'[d]) :
           /\ owner'[d] = owner[d] /\ m \in 1..Len(ops[d]) /\ ops'[d][m] = ops[d][m]
           /\ ops[d][m].op = "insert" => owner[d] \notin D \/ ops[d][m].vid \in sp.ins
    BY <1>10
  <2>4. \A d \in Conns : \A t \in Tables : \A v \in rows[t] :
           owner[d] = v.owner /\ v.del = PENDING /\ Drops(ops[d], t, v.vid)
             /\ (v.owner \notin D \/ v.vid \in sp.del)
           => owner'[d] = owner[d] /\ Drops(ops'[d], t, v.vid)
    BY <2>1
  <2> HIDE DEF PENDING, D
  <2> QED BY <1>2, <1>12, <2>2, <2>3, <2>4, RevertReplay
<1>14. MarksOk(ops, saves)'
  <2>1. ASSUME NEW d \in Conns
        PROVE  Len(saves'[d]) <= MaxSaves /\ \A a \in 1..Len(saves'[d]) :
                  /\ Marks(ops'[d], saves'[d][a])
                  /\ \A e \in 1..Len(saves'[d]) : a <= e => saves'[d][a].len <= saves'[d][e].len
    <3>1. CASE d # c
      BY <1>0, <1>7, <3>1 DEF MarksOk
    <3>2. CASE d = c
      <4>1. Len(saves[c]) <= MaxSaves /\ \A a \in 1..Len(saves[c]) :
                  /\ Marks(ops[c], saves[c][a])
                  /\ \A e \in 1..Len(saves[c]) : a <= e => saves[c][a].len <= saves[c][e].len
        BY <1>0 DEF MarksOk
      <4>2. Len(s) <= MaxSaves
        BY <1>0, <1>5, <4>1
      <4>3. ASSUME NEW a \in 1..Len(s) PROVE Marks(o, s[a])
        <5>1. a \in 1..Len(saves[c]) /\ a <= at /\ s[a] = saves[c][a]
          BY <1>5
        <5>2. Marks(ops[c], s[a]) /\ s[a].len <= sp.len
          BY <4>1, <5>1 DEF sp
        <5>3. s[a].len \in Nat
          <6>1. s[a] \in Save
            BY <1>5
          <6> QED BY <6>1 DEF Save
        <5>4. \A i \in 1..s[a].len : i \in 1..sp.len
          BY <1>4, <5>2, <5>3
        <5>5. \A i \in 1..s[a].len : o[i] = ops[c][i]
          BY <1>6, <5>4
        <5> QED BY <1>6, <5>2, <5>5 DEF Marks
      <4>4. \A a, e \in 1..Len(s) : a <= e => s[a].len <= s[e].len
        BY <1>5, <4>1
      <4> QED BY <1>7, <3>2, <4>2, <4>3, <4>4
    <3> QED BY <3>1, <3>2
  <2> QED BY <1>7, <2>1 DEF MarksOk, Marks
<1>15. OpsInv'
  <2>1. \A i \in 1..Len(flush.batch) : flush.batch[i] \in Conns /\ flush.batch[i] # c
    BY <1>0, <1>2 DEF QueueInv
  <2>2. \A i \in 1..Len(flush.batch) : ops'[flush.batch[i]] = ops[flush.batch[i]]
    BY <1>7, <2>1
  <2>3. ASSUME pc[c] = "open" PROVE ops'[c] = <<>>
    <3>1. Len(ops[c]) = 0
      BY <1>0, <2>3 DEF OpsInv
    <3>2. sp.len = 0
      BY <1>4, <3>1
    <3> QED BY <1>6, <1>7, <3>2
  <2>4. \A d \in Conns : pc'[d] \in {"idle", "open"} => ops'[d] = <<>>
    BY <1>0, <1>2, <1>7, <2>3 DEF OpsInv
  <2> QED BY <1>0, <1>2, <1>7, <2>2, <2>4 DEF OpsInv
<1> QED BY <1>13, <1>14, <1>15 DEF ReplayInv

\* What publishing does to the rows.
LEMMA PublishedRows ==
    ASSUME Publish
    PROVE  \A t \in Tables : rows'[t] = PubAll(flush.batch, rows[t])
<1> DEFINE b == flush.batch
<1>1. rows' = [t \in Tables |->
                 {IF {i \in 1..Len(b) : owner[b[i]] = v.owner} = {} THEN v
                  ELSE Finalized(v, CommitLsn(b, Max({i \in 1..Len(b) : owner[b[i]] = v.owner}))) :
                     v \in rows[t]}]
  BY DEF Publish
<1>2. \A v : Pub(b, v) = IF {i \in 1..Len(b) : owner[b[i]] = v.owner} = {} THEN v
               ELSE Finalized(v, CommitLsn(b, Max({i \in 1..Len(b) : owner[b[i]] = v.owner})))
  <2> TAKE v
  <2>1. InBatch(b, v.owner) <=> {i \in 1..Len(b) : owner[b[i]] = v.owner} # {}
    BY DEF InBatch
  <2> QED BY <2>1 DEF Pub, LsnFor
<1> QED BY <1>1, <1>2 DEF PubAll

\* The LSN of a member of the batch.
LEMMA MemberLsn ==
    ASSUME PipeInv, flush.ok, NEW k \in 1..Len(flush.batch)
    PROVE  /\ InBatch(flush.batch, owner[flush.batch[k]])
           /\ LsnFor(flush.batch, owner[flush.batch[k]]) = committed + k
<1> DEFINE b == flush.batch
           x == owner[b[k]]
           I == {i \in 1..Len(b) : owner[b[i]] = x}
<1>1. /\ committed \in Nat /\ Len(wal) = committed + Len(b) /\ Len(b) \in Nat /\ b \in Seq(Conns)
  BY PipeNumbers
<1>2. I = {k}
  <2>1. ASSUME NEW i \in I PROVE i = k
    <3>1. i \in 1..Len(b) /\ b[i] \in Conns /\ b[k] \in Conns /\ pc[b[k]] = "queued"
      BY <1>1 DEF PipeInv, QueueInv
    <3>2. b[i] = b[k]
      BY <2>1, <3>1 DEF PipeInv, OwnerInv
    <3> QED BY <3>1, <3>2 DEF PipeInv, QueueInv
  <2> QED BY <2>1
<1>3. InBatch(b, x)
  BY DEF InBatch
<1> HIDE DEF I
<1>4. Max(I) \in I
  <2>1. I \subseteq Nat /\ I # {} /\ \A i \in I : i <= Len(b)
    BY <1>1, <1>2
  <2> QED BY <1>1, <2>1, MaxOfBounded
<1>5. Max(I) = k
  BY <1>2, <1>4
<1>6. LsnFor(b, x) = Len(wal) - Len(b) + Max(I)
  BY DEF LsnFor, CommitLsn, I
<1> HIDE DEF b, x
<1>7. LsnFor(b, x) = committed + k
  BY <1>1, <1>5, <1>6 DEF b
<1> QED BY <1>3, <1>7 DEF b, x

\* The log up to its end: below the mark, or a member of the batch.
LEMMA LogPosition ==
    ASSUME PipeInv, OpsInv, NEW i \in 1..Len(wal)
    PROVE  \/ i \in 1..committed
           \/ \E k \in 1..Len(flush.batch) :
                 /\ flush.ok /\ i = committed + k /\ wal[i] = ops[flush.batch[k]]
                 /\ flush.batch[k] \in Conns /\ pc[flush.batch[k]] = "queued"
<1>1. /\ committed \in Nat /\ Len(wal) \in Nat /\ flush.batch \in Seq(Conns)
      /\ Len(wal) = committed + (IF flush.ok THEN Len(flush.batch) ELSE 0)
  BY PipeNumbers DEF PipeInv, MarkInv
<1>2. CASE i <= committed
  BY <1>1, <1>2
<1>3. CASE ~(i <= committed)
  <2>1. Len(flush.batch) \in Nat
    BY <1>1
  <2>2. flush.ok
    <3>1. CASE ~flush.ok
      BY <1>1, <1>3, <3>1
    <3> QED BY <3>1
  <2>3. Len(wal) = committed + Len(flush.batch)
    BY <1>1, <2>2
  <2>4. i - committed \in 1..Len(flush.batch) /\ committed + (i - committed) = i
    BY <1>1, <1>3, <2>1, <2>3
  <2> DEFINE k == i - committed
  <2> HIDE DEF k
  <2>5. k \in 1..Len(flush.batch) /\ committed + k = i
    BY <2>4 DEF k
  <2>6. wal[i] = ops[flush.batch[k]]
    BY <2>2, <2>5 DEF OpsInv
  <2>7. flush.batch[k] \in Conns /\ pc[flush.batch[k]] = "queued"
    BY <1>1, <2>5 DEF PipeInv, QueueInv
  <2> QED BY <2>2, <2>5, <2>6, <2>7
<1> QED BY <1>2, <1>3

\* The last deletion of a version in the whole log: a published one,
LEMMA SettledLast ==
    ASSUME PipeInv, OpsInv, NEW t, NEW v, Settled(ops, t, v)
    PROVE  \A l \in 1..Len(wal) : Drops(wal[l], t, v.vid) => l <= v.del
<1> SUFFICES ASSUME NEW l \in 1..Len(wal), Drops(wal[l], t, v.vid) PROVE l <= v.del
  OBVIOUS
<1>1. CASE l \in 1..committed
  BY <1>1 DEF Settled
<1>2. CASE \E k \in 1..Len(flush.batch) : wal[l] = ops[flush.batch[k]] /\ flush.batch[k] \in Conns
  BY <1>2 DEF Settled
<1> QED BY <1>1, <1>2, LogPosition

\* or that of the member of the batch who supersedes it.
LEMMA DeleterLast ==
    ASSUME PipeInv, OpsInv, flush.ok, NEW t, NEW v, NEW k \in 1..Len(flush.batch),
           Deleter(ops, flush.batch[k], t, v)
    PROVE  /\ Drops(wal[committed + k], t, v.vid)
           /\ \A l \in 1..Len(wal) : Drops(wal[l], t, v.vid) => l <= committed + k
<1>0. k \in Nat /\ k >= 1 /\ committed \in Nat
  BY PipeNumbers
<1>1. Drops(wal[committed + k], t, v.vid)
  BY DEF Deleter, OpsInv
<1>2. ASSUME NEW l \in 1..Len(wal), Drops(wal[l], t, v.vid) PROVE l <= committed + k
  <2>1. CASE l \in 1..committed
    BY <1>0, <2>1
  <2>2. ASSUME NEW m \in 1..Len(flush.batch), l = committed + m, wal[l] = ops[flush.batch[m]],
               flush.batch[m] \in Conns
        PROVE  l <= committed + k
    <3>1. ~Behind(flush.batch[k], flush.batch[m])
      BY <1>2, <2>2 DEF Deleter
    <3>2. ~(k < m)
      BY <3>1 DEF Behind
    <3>3. m \in Nat
      BY <2>2
    <3> QED BY <1>0, <2>2, <3>2, <3>3
  <2> QED BY <2>1, <2>2, LogPosition
<1> QED BY <1>1, <1>2

\* The batch is published.
LEMMA PublishReplay == ASSUME KeyInv, ReplayInv, Publish PROVE ReplayInv'
<1> DEFINE b == flush.batch
           C == Range(b)
<1>0. /\ PipeInv /\ OpsInv /\ MarksOk(ops, saves) /\ OwnerInv /\ QueueInv
      /\ InsOk(rows, ops) /\ DelOk(rows, ops)
      /\ PENDING \in Nat /\ PENDING # 0 /\ committed \in Nat /\ committed < PENDING
      /\ Len(wal) \in Nat /\ committed <= Len(wal) /\ Len(wal) < PENDING
      /\ rows \in [Tables -> SUBSET Version] /\ wal \in Seq(Seq(Op)) /\ ops \in [Conns -> Seq(Op)]
      /\ \A t \in Tables : StampsOk(rows[t], committed)
  BY ReplayTypes DEF ReplayInv
<1>1. /\ flush.ok /\ EndTxns(C) /\ flush' = NoFlush /\ committed' = Len(wal)
      /\ UNCHANGED <<nextVid, nextOwner, queue, wal>>
  BY DEF Publish
<1>2. /\ C \in SUBSET Conns /\ \A c \in C : pc[c] = "queued"
      /\ \A x : InBatch(b, x) <=> \E c \in C : owner[c] = x
      /\ \A c \in C : \E k \in 1..Len(b) : b[k] = c
  <2>1. /\ \A d : d \in C <=> \E i \in 1..Len(b) : b[i] = d
        /\ C \in SUBSET Conns /\ \A c \in C : pc[c] = "queued"
    BY <1>0, QueueApart
  <2> HIDE DEF C, b
  <2> QED BY <2>1 DEF InBatch
<1>3. \A t \in Tables : rows'[t] = PubAll(b, rows[t])
  BY PublishedRows
<1>4. \A x : InBatch(b, x) => LsnFor(b, x) \in (committed + 1)..Len(wal)
  BY <1>0, <1>1, BatchLsnRange
<1>5. \A k \in 1..Len(b) : InBatch(b, owner[b[k]]) /\ LsnFor(b, owner[b[k]]) = committed + k
  BY <1>0, <1>1, MemberLsn
<1>6. /\ OpsInv' /\ MarksOk(ops, saves)'
      /\ \A a, d \in Conns : d \notin C /\ Behind(a, d)' => Behind(a, d)
      /\ \A d \in Conns :
           /\ d \in C => ops'[d] = <<>>
           /\ d \notin C => ops'[d] = ops[d] /\ owner'[d] = owner[d]
  BY <1>0, <1>1, <1>2, OpsOver, EndedFields
<1>6a. \A i \in 1..Len(wal) : \/ i \in 1..committed
           \/ \E k \in 1..Len(b) : i = committed + k /\ wal[i] = ops[b[k]] /\ b[k] \in Conns
  BY <1>0, LogPosition
<1>6b. ASSUME NEW t, NEW v, NEW k \in 1..Len(b), Deleter(ops, b[k], t, v)
       PROVE  /\ Drops(wal[committed + k], t, v.vid)
              /\ \A l \in 1..Len(wal) : Drops(wal[l], t, v.vid) => l <= committed + k
  BY <1>0, <1>1, <1>6b, DeleterLast
<1>6c. \A d \in Conns : pc[d] = "queued" /\ d \notin C => \E j \in 1..Len(queue) : queue[j] = d
  BY <1>0, QueueApart DEF OpsInv
<1>6d. \A k \in 1..Len(b), j \in 1..Len(queue) : Behind(b[k], queue[j])
  BY DEF Behind
<1>6e. \A k \in 1..Len(b) : b[k] \in C
  BY <1>0, QueueApart
<1> HIDE DEF b, C, PENDING
<1>7. BatchLsns(b, committed)
  BY <1>0, <1>4 DEF BatchLsns
<1>8. \A d \in Conns : ops[d] # <<>> /\ d \notin C => ~InBatch(b, owner[d])
  BY <1>0, <1>2 DEF OwnerInv, OpsInv
<1>9. ASSUME NEW t \in Tables, NEW v \in rows[t]
      PROVE  LET u == Pub(b, v)
                 l == LsnFor(b, v.owner)
             IN  /\ u \in rows'[t] /\ u.vid = v.vid /\ u.key = v.key /\ u.val = v.val
                 /\ ~InBatch(b, v.owner) => u = v
                 /\ InBatch(b, v.owner) =>
                      /\ l \in (committed + 1)..Len(wal)
                      /\ u.create = IF v.create = PENDING THEN l ELSE v.create
                      /\ u.del = IF v.del = PENDING THEN l ELSE v.del
  <2>1. v \in Version /\ Pub(b, v) \in rows'[t]
    BY <1>0, <1>3 DEF PubAll
  <2> QED BY <1>0, <1>4, <1>7, <2>1, PubFields
<1>10. /\ \A i \in 1..Len(wal) : \A m \in 1..Len(wal[i]) : wal[i][m].tab \in Tables
       /\ \A c \in Conns : \A m \in 1..Len(ops[c]) : ops[c][m].tab \in Tables
  <2>1. /\ \A i \in 1..Len(wal) : wal[i] \in Seq(Op)
        /\ \A c \in Conns : ops[c] \in Seq(Op)
    BY <1>0
  <2>2. /\ \A i \in 1..Len(wal) : \A m \in 1..Len(wal[i]) : wal[i][m] \in Op
        /\ \A c \in Conns : \A m \in 1..Len(ops[c]) : ops[c][m] \in Op
    BY <2>1
  <2> QED BY <2>2, OpFields
<1>11. ASSUME NEW i \in 1..Len(wal), NEW m \in 1..Len(wal[i]), wal[i][m].op = "insert"
       PROVE  Inserted(rows', wal[i][m], i, 0)
  <2> DEFINE o == wal[i][m]
  <2>0. o.tab \in Tables
    BY <1>10
  <2>1. PICK v \in rows[o.tab] : Logs(o, "insert", o.tab, v) /\ Pub(b, v).create = i
    <3>1. CASE i \in 1..committed
      <4>1. PICK v \in rows[o.tab] : Logs(o, "insert", o.tab, v) /\ v.create = i
        BY <1>0, <1>11, <3>1 DEF InsOk, Inserted
      <4>2. v.create # PENDING
        BY <1>0, <3>1, <4>1
      <4>3. Pub(b, v).create = i
        BY <1>9, <2>0, <4>1, <4>2
      <4> QED BY <4>1, <4>3
    <3>2. ASSUME NEW k \in 1..Len(b), i = committed + k, wal[i] = ops[b[k]], b[k] \in Conns
          PROVE  \E v \in rows[o.tab] : Logs(o, "insert", o.tab, v) /\ Pub(b, v).create = i
      <4>1. Inserted(rows, o, PENDING, owner[b[k]])
        BY <1>0, <1>11, <3>2 DEF InsOk
      <4>2. PICK v \in rows[o.tab] :
               Logs(o, "insert", o.tab, v) /\ v.create = PENDING /\ v.owner = owner[b[k]]
        BY <4>1 DEF Inserted
      <4>3. Pub(b, v).create = i
        BY <1>5, <1>9, <2>0, <3>2, <4>2
      <4> QED BY <4>2, <4>3
    <3> QED BY <1>6a, <3>1, <3>2
  <2> HIDE DEF o
  <2>2. Pub(b, v) \in rows'[o.tab] /\ Logs(o, "insert", o.tab, Pub(b, v))
    BY <1>9, <2>0, <2>1 DEF Logs
  <2>3. i # PENDING
    BY <1>0
  <2>4. Inserted(rows', o, i, 0)
    BY <2>1, <2>2, <2>3 DEF Inserted
  <2> QED BY <2>4 DEF o
<1>12. ASSUME NEW c \in Conns, NEW m \in 1..Len(ops'[c]), ops'[c][m].op = "insert"
       PROVE  Inserted(rows', ops'[c][m], PENDING, owner'[c])
  <2>1. c \notin C
    <3>1. c \in C => Len(ops'[c]) = 0
      BY <1>6
    <3> QED BY <1>12, <3>1
  <2>2. ops'[c] = ops[c] /\ owner'[c] = owner[c]
    BY <1>6, <2>1
  <2>3. ops[c] # <<>>
    <3>1. ops[c] = <<>> => Len(ops[c]) = 0
      OBVIOUS
    <3> QED BY <1>12, <2>2, <3>1
  <2>4. PICK v \in rows[ops[c][m].tab] :
           Logs(ops[c][m], "insert", ops[c][m].tab, v) /\ v.create = PENDING /\ v.owner = owner[c]
    BY <1>0, <1>12, <2>2 DEF InsOk, Inserted
  <2>5. Pub(b, v) = v /\ Pub(b, v) \in rows'[ops[c][m].tab]
    BY <1>8, <1>9, <1>10, <1>12, <2>1, <2>2, <2>3, <2>4
  <2> QED BY <2>2, <2>4, <2>5 DEF Inserted
<1>13. PENDING' = PENDING
  BY DEF PENDING
<1>14. InsOk(rows, ops)'
  <2>1. /\ \A i \in 1..committed' : \A m \in 1..Len(wal'[i]) :
              wal'[i][m].op = "insert" => Inserted(rows', wal'[i][m], i, 0)
        /\ \A c \in Conns : \A m \in 1..Len(ops'[c]) :
              ops'[c][m].op = "insert" => Inserted(rows', ops'[c][m], PENDING, owner'[c])
    BY <1>1, <1>11, <1>12
  <2> QED BY <1>13, <2>1 DEF InsOk, Inserted
<1>15. \A d \in Conns : \A t, x : Drops(ops'[d], t, x) => Drops(ops[d], t, x) /\ d \notin C /\ ops[d] # <<>>
  <2>1. \A d \in Conns : d \in C => Len(ops'[d]) = 0
    BY <1>6
  <2>2. \A s, t, x : Drops(s, t, x) => s # <<>> /\ Len(s) # 0
    BY DEF Drops
  <2> QED BY <1>6, <2>1, <2>2
<1>16. ASSUME NEW t \in Tables, NEW u \in rows'[t]
       PROVE  /\ u.del # 0 => u.create <= u.del
              /\ u.del \in 1..Len(wal) => Settled(ops, t, u)'
              /\ u.del = PENDING => \E c \in Conns : Deleter(ops, c, t, u)'
  <2>1. PICK v \in rows[t] : u = Pub(b, v)
    BY <1>3, <1>16 DEF PubAll
  <2> DEFINE l == LsnFor(b, v.owner)
  <2>2. /\ u.vid = v.vid
        /\ ~InBatch(b, v.owner) => u = v
        /\ InBatch(b, v.owner) =>
             /\ l \in (committed + 1)..Len(wal)
             /\ u.create = IF v.create = PENDING THEN l ELSE v.create
             /\ u.del = IF v.del = PENDING THEN l ELSE v.del
    BY <1>9, <2>1
  <2> HIDE DEF l
  <2>3. /\ v.create \in (1..committed) \cup {PENDING} /\ v.del \in (0..committed) \cup {PENDING}
        /\ v.del # 0 => v.create <= v.del
        /\ v.del \in 1..committed => Settled(ops, t, v)
        /\ v.del = PENDING => \E c \in Conns : Deleter(ops, c, t, v)
    BY <1>0 DEF StampsOk, DelOk
  <2>4. CASE v.del = 0
    <3>1. u.del = 0
      BY <1>0, <2>2, <2>4
    <3> QED BY <1>0, <3>1
  <2>5. CASE v.del \in 1..committed
    <3>1. u.del = v.del /\ u.create = v.create /\ u.del # PENDING
      BY <1>0, <2>2, <2>3, <2>5
    <3>2. /\ Drops(wal[v.del], t, v.vid)
          /\ \A i \in 1..Len(wal) : Drops(wal[i], t, v.vid) => i <= v.del
          /\ \A d \in Conns : ~Drops(ops[d], t, v.vid)
      BY <1>0, <2>3, <2>5, SettledLast DEF Settled
    <3>3. Settled(ops, t, u)'
      <4>1. /\ Drops(wal'[u.del], t, u.vid)
            /\ \A i \in 1..committed' : Drops(wal'[i], t, u.vid) => i <= u.del
            /\ \A d \in Conns : ~Drops(ops'[d], t, u.vid)
        BY <1>1, <1>15, <2>2, <3>1, <3>2
      <4> QED BY <4>1 DEF Settled, Drops
    <3> QED BY <2>3, <2>5, <3>1, <3>3
  <2>6. CASE v.del = PENDING
    <3>1. PICK c \in Conns : Deleter(ops, c, t, v)
      BY <2>3, <2>6
    <3>2. /\ owner[c] = v.owner /\ Drops(ops[c], t, v.vid)
          /\ \A d \in Conns : Drops(ops[d], t, v.vid) => ~Behind(c, d)
      BY <3>1 DEF Deleter
    <3>3. ops[c] # <<>> /\ owner[c] # 0
      <4>1. ops[c] # <<>>
        BY <3>2 DEF Drops
      <4> QED BY <1>0, <4>1 DEF OwnerInv, OpsInv
    <3>4. CASE InBatch(b, v.owner)
      <4>1. PICK d \in C : owner[d] = v.owner
        BY <1>2, <3>4
      <4>2. d = c
        BY <1>0, <1>2, <3>2, <3>3, <4>1 DEF OwnerInv
      <4>3. PICK k \in 1..Len(b) : b[k] = c
        BY <1>2, <4>1, <4>2
      <4>4. l = committed + k /\ u.del = l
        BY <1>5, <2>2, <2>6, <3>2, <3>4, <4>3 DEF l
      <4>5. /\ Drops(wal[committed + k], t, v.vid)
            /\ \A i \in 1..Len(wal) : Drops(wal[i], t, v.vid) => i <= committed + k
        BY <1>6b, <3>1, <4>3
      <4>6. ASSUME NEW e \in Conns, Drops(ops'[e], t, v.vid) PROVE FALSE
        <5>1. Drops(ops[e], t, v.vid) /\ e \notin C /\ ops[e] # <<>>
          BY <1>15, <4>6
        <5>2. pc[e] \in {"writing", "queued"}
          BY <1>0, <5>1 DEF OpsInv, OwnerInv
        <5>3. pc[c] = "queued"
          BY <1>2, <4>1, <4>2
        <5>4. Behind(c, e)
          <6>1. CASE pc[e] = "writing"
            BY <5>3, <6>1 DEF Behind
          <6>2. CASE pc[e] = "queued"
            BY <1>6c, <1>6d, <4>3, <5>1, <6>2
          <6> QED BY <5>2, <6>1, <6>2
        <5> QED BY <3>2, <5>1, <5>4
      <4>7. Settled(ops, t, u)'
        <5>1. /\ Drops(wal'[u.del], t, u.vid)
              /\ \A i \in 1..committed' : Drops(wal'[i], t, u.vid) => i <= u.del
              /\ \A e \in Conns : ~Drops(ops'[e], t, u.vid)
          BY <1>1, <2>2, <4>4, <4>5, <4>6
        <5> QED BY <5>1 DEF Settled, Drops
      <4>8. u.create <= u.del /\ u.del # PENDING
        BY <1>0, <2>2, <2>3, <3>4, <4>4
      <4> QED BY <4>7, <4>8
    <3>5. CASE ~InBatch(b, v.owner)
      <4>1. u = v
        BY <2>2, <3>5
      <4>2. c \notin C
        BY <1>2, <3>2, <3>5
      <4>3. owner'[c] = u.owner /\ Drops(ops'[c], t, u.vid)
        BY <1>6, <3>2, <4>1, <4>2
      <4>4. \A e \in Conns : Drops(ops'[e], t, u.vid) => ~Behind(c, e)'
        BY <1>6, <1>15, <3>2, <4>1
      <4>5. Deleter(ops, c, t, u)'
        BY <4>3, <4>4 DEF Deleter, Drops
      <4>6. PENDING \notin 1..Len(wal)
        BY <1>0
      <4> QED BY <2>3, <2>6, <4>1, <4>5, <4>6
    <3> QED BY <3>4, <3>5
  <2> QED BY <2>3, <2>4, <2>5, <2>6
<1>17. DelOk(rows, ops)'
  <2>1. \A t \in Tables : \A u \in rows'[t] :
           /\ u.del # 0 => u.create <= u.del
           /\ u.del \in 1..committed' => Settled(ops, t, u)'
           /\ u.del = PENDING => \E c \in Conns : Deleter(ops, c, t, u)'
    BY <1>1, <1>16
  <2> QED BY <1>13, <2>1 DEF DelOk
<1> QED BY <1>6, <1>14, <1>17 DEF ReplayInv

-----------------------------------------------------------------------------
(* Recovery keeps keys unique.                                              *)

\* Version r is the one that replay restores from the j-th op of the i-th transaction.
RestoredAs(w, t, i, j, r) ==
    /\ i \in 1..Len(w) /\ j \in 1..Len(w[i]) /\ w[i][j].op = "insert" /\ w[i][j].tab = t
    /\ r = Restored(w, t, i, j) /\ r \in Version
    /\ Logs(w[i][j], "insert", t, r) /\ r.create = i /\ r.owner = 0 /\ r.del \in 0..Len(w)
    /\ r.del # 0 => i <= r.del /\ Drops(w[r.del], t, r.vid)
    /\ \A l \in 1..Len(w) : i <= l /\ Drops(w[l], t, r.vid) => l <= r.del

\* The fields of a version that replay restores.
LEMMA RestoredFields ==
    ASSUME NEW w \in Seq(Seq(Op)), Len(w) < PENDING, NEW t \in Tables,
           NEW i, NEW j, Inserts(w, t, i, j)
    PROVE  RestoredAs(w, t, i, j, Restored(w, t, i, j))
<1>1. i \in 1..Len(w) /\ j \in 1..Len(w[i]) /\ w[i][j].op = "insert" /\ w[i][j].tab = t
  BY DEF Inserts
<1>2. w[i][j] \in Op /\ Len(w) \in Nat /\ PENDING \in Nat
  BY <1>1, StoreAssumption DEF PENDING
<1> DEFINE D == Deletes(w, t, w[i][j].vid, i)
           m == Max({0} \cup D)
<1>3. \A l : l \in D <=> l \in 1..Len(w) /\ i <= l /\ Drops(w[l], t, w[i][j].vid)
  BY <1>1 DEF Deletes, LsnsOf, Drops
<1>4. D \subseteq 1..Len(w)
  BY <1>3
<1> HIDE DEF D, PENDING
<1>5. m \in {0} \cup D /\ \A y \in {0} \cup D : y <= m
  <2> DEFINE T == {0} \cup D
  <2>1. T \subseteq Nat /\ T # {} /\ \A x \in T : x <= Len(w)
    BY <1>2, <1>4
  <2> QED BY <1>2, <2>1, MaxOfBounded
<1> DEFINE r == Restored(w, t, i, j)
<1>6. r = [vid |-> w[i][j].vid, key |-> w[i][j].key, val |-> w[i][j].val,
           create |-> i, del |-> m, owner |-> 0]
  BY DEF Restored, D
<1> HIDE DEF m
<1>7. m \in 0..Len(w)
  BY <1>2, <1>4, <1>5
<1>8. i \in 0..PENDING /\ m \in 0..PENDING
  BY <1>1, <1>2, <1>7
<1>9. w[i][j].vid \in Nat /\ w[i][j].key \in Keys /\ w[i][j].val \in Vals
  BY <1>2, OpFields
<1>10. /\ r \in Version /\ r.vid = w[i][j].vid /\ r.create = i /\ r.owner = 0
       /\ r.del = m /\ r.key = w[i][j].key /\ r.val = w[i][j].val
  BY <1>6, <1>8, <1>9 DEF Version
<1> HIDE DEF r
<1>11. Logs(w[i][j], "insert", t, r)
  BY <1>1, <1>10 DEF Logs
<1>12. r.del # 0 => i <= r.del /\ Drops(w[r.del], t, r.vid)
  BY <1>3, <1>5, <1>10
<1>13. \A l \in 1..Len(w) : i <= l /\ Drops(w[l], t, r.vid) => l <= r.del
  BY <1>3, <1>5, <1>10
<1> QED BY <1>1, <1>7, <1>10, <1>11, <1>12, <1>13 DEF RestoredAs, r

\* Every version that replay restores comes from an insert of the log.
LEMMA RestoredFrom ==
    ASSUME NEW w \in Seq(Seq(Op)), Len(w) < PENDING, NEW t \in Tables, NEW r \in Replay(w, t)
    PROVE  \E i, j : RestoredAs(w, t, i, j, r)
<1>1. PICK i, j : Inserts(w, t, i, j) /\ r = Restored(w, t, i, j)
  BY ReplayRestores
<1>2. RestoredAs(w, t, i, j, r)
  BY <1>1, RestoredFields
<1> QED BY <1>2

\* Recovery gives version v the LSN i: the one below the mark that it has, or, if it is
\* pending, the one that its transaction has in the batch.
CreatedAt(v, i) ==
    \/ v.create \in 1..committed /\ i = v.create
    \/ /\ v.create = PENDING
       /\ \E k \in 1..Len(flush.batch) :
             flush.ok /\ owner[flush.batch[k]] = v.owner /\ i = committed + k

\* Recovery rebuilds version v as r.
Rebuilds(v, r) ==
    /\ v.vid = r.vid /\ v.key = r.key /\ v.val = r.val
    /\ CreatedAt(v, r.create)
    /\ v.del \in 1..committed => r.del = v.del
    /\ v.del = PENDING => \A k \in 1..Len(flush.batch) :
          flush.ok /\ owner[flush.batch[k]] = v.owner => r.del = committed + k

\* A member of the batch is known by its owner.
LEMMA MemberOnce ==
    ASSUME PipeInv, NEW k \in 1..Len(flush.batch), NEW c \in Conns, owner[c] = owner[flush.batch[k]]
    PROVE  /\ c = flush.batch[k]
           /\ \A m \in 1..Len(flush.batch) : owner[flush.batch[m]] = owner[flush.batch[k]] => m = k
<1>1. \A m \in 1..Len(flush.batch) : flush.batch[m] \in Conns /\ pc[flush.batch[m]] = "queued"
  BY PipeNumbers DEF PipeInv, QueueInv
<1>2. owner[flush.batch[k]] # 0
  BY <1>1 DEF PipeInv, OwnerInv
<1>3. c = flush.batch[k]
  BY <1>1, <1>2 DEF PipeInv, OwnerInv
<1>4. ASSUME NEW m \in 1..Len(flush.batch), owner[flush.batch[m]] = owner[flush.batch[k]]
      PROVE  m = k
  <2>1. flush.batch[m] = flush.batch[k]
    BY <1>1, <1>2, <1>4 DEF PipeInv, OwnerInv
  <2> QED BY <2>1 DEF PipeInv, QueueInv
<1> QED BY <1>3, <1>4

\* It gives it one LSN.
LEMMA CreatedOnce ==
    ASSUME PipeInv, NEW v, NEW i, NEW l, CreatedAt(v, i), CreatedAt(v, l)
    PROVE  i = l
<1>1. PENDING \notin 1..committed
  BY PipeNumbers
<1>2. CASE v.create \in 1..committed
  BY <1>1, <1>2 DEF CreatedAt
<1>3. CASE v.create = PENDING
  <2>1. PICK k \in 1..Len(flush.batch) : owner[flush.batch[k]] = v.owner /\ i = committed + k
    BY <1>1, <1>3 DEF CreatedAt
  <2>2. PICK m \in 1..Len(flush.batch) : owner[flush.batch[m]] = v.owner /\ l = committed + m
    BY <1>1, <1>3 DEF CreatedAt
  <2>3. flush.batch[k] \in Conns
    BY <2>1, PipeNumbers
  <2>4. m = k
    BY <2>1, <2>2, <2>3, MemberOnce
  <2> QED BY <2>1, <2>2, <2>4
<1> QED BY <1>2, <1>3 DEF CreatedAt

\* Every insert of the log is of a version in memory.
LEMMA InsertInMemory ==
    ASSUME KeyInv, ReplayInv, NEW t, NEW i \in 1..Len(wal), NEW j \in 1..Len(wal[i]),
           wal[i][j].op = "insert", wal[i][j].tab = t
    PROVE  \E v \in rows[t] : Logs(wal[i][j], "insert", t, v) /\ CreatedAt(v, i)
<1>1. PipeInv /\ OpsInv /\ InsOk(rows, ops)
  BY DEF KeyInv, ReplayInv
<1>2. CASE i \in 1..committed
  <2>1. Inserted(rows, wal[i][j], i, 0)
    BY <1>1, <1>2 DEF InsOk
  <2>2. PICK v \in rows[t] : Logs(wal[i][j], "insert", t, v) /\ v.create = i
    BY <2>1 DEF Inserted
  <2> QED BY <1>2, <2>2 DEF CreatedAt
<1>3. ASSUME NEW k \in 1..Len(flush.batch), flush.ok, i = committed + k,
             wal[i] = ops[flush.batch[k]], flush.batch[k] \in Conns
      PROVE  \E v \in rows[t] : Logs(wal[i][j], "insert", t, v) /\ CreatedAt(v, i)
  <2> DEFINE c == flush.batch[k]
  <2>1. Inserted(rows, wal[i][j], PENDING, owner[c])
    BY <1>1, <1>3 DEF InsOk
  <2>2. PICK v \in rows[t] :
           Logs(wal[i][j], "insert", t, v) /\ v.create = PENDING /\ v.owner = owner[c]
    BY <2>1 DEF Inserted
  <2> QED BY <1>3, <2>2 DEF CreatedAt
<1> QED BY <1>1, <1>2, <1>3, LogPosition

\* Every version that recovery rebuilds was in memory.
LEMMA RebuiltFrom ==
    ASSUME KeyInv, ReplayInv, NEW t \in Tables, NEW r \in Replay(wal, t)
    PROVE  \E v \in rows[t] : Rebuilds(v, r)
<1>0. /\ PipeInv /\ OpsInv /\ DelOk(rows, ops) /\ StampsOk(rows[t], committed)
      /\ PENDING \in Nat /\ PENDING # 0 /\ committed \in Nat /\ committed < PENDING
      /\ Len(wal) \in Nat /\ committed <= Len(wal) /\ Len(wal) < PENDING
      /\ wal \in Seq(Seq(Op)) /\ flush.batch \in Seq(Conns)
      /\ flush.ok => Len(wal) = committed + Len(flush.batch)
  BY ReplayTypes, PipeNumbers DEF ReplayInv
<1> HIDE DEF PENDING
<1>1. PICK i, j : RestoredAs(wal, t, i, j, r)
  BY <1>0, RestoredFrom
<1>2. /\ i \in 1..Len(wal) /\ j \in 1..Len(wal[i]) /\ wal[i][j].op = "insert" /\ wal[i][j].tab = t
      /\ Logs(wal[i][j], "insert", t, r) /\ r.create = i /\ r.del \in 0..Len(wal)
      /\ r.del # 0 => i <= r.del /\ Drops(wal[r.del], t, r.vid)
      /\ \A l \in 1..Len(wal) : i <= l /\ Drops(wal[l], t, r.vid) => l <= r.del
  BY <1>1 DEF RestoredAs
<1>3. PICK v \in rows[t] : Logs(wal[i][j], "insert", t, v) /\ CreatedAt(v, i)
  BY <1>2, InsertInMemory
<1>4. v.vid = r.vid /\ v.key = r.key /\ v.val = r.val /\ CreatedAt(v, r.create)
  BY <1>2, <1>3 DEF Logs
<1>5. ASSUME v.del \in 1..committed PROVE r.del = v.del
  <2>1. Settled(ops, t, v) /\ v.create <= v.del
    BY <1>0, <1>5 DEF DelOk
  <2>2. v.create # PENDING
    BY <1>0, <1>5 DEF StampsOk
  <2>3. i = v.create
    BY <1>3, <2>2 DEF CreatedAt
  <2>4. v.del \in 1..Len(wal) /\ Drops(wal[v.del], t, r.vid)
    BY <1>0, <1>4, <1>5, <2>1 DEF Settled
  <2>5. v.del <= r.del
    BY <1>2, <2>1, <2>3, <2>4
  <2>6. r.del \in 1..Len(wal) /\ Drops(wal[r.del], t, v.vid)
    BY <1>0, <1>2, <1>4, <1>5, <2>5
  <2>7. r.del <= v.del
    BY <1>0, <2>1, <2>6, SettledLast
  <2> QED BY <1>2, <1>5, <2>5, <2>7
<1>6. ASSUME v.del = PENDING, NEW k \in 1..Len(flush.batch), flush.ok, owner[flush.batch[k]] = v.owner
      PROVE  r.del = committed + k
  <2>1. PICK c \in Conns : Deleter(ops, c, t, v)
    BY <1>0, <1>6 DEF DelOk
  <2>2. c = flush.batch[k]
    <3>1. owner[c] = owner[flush.batch[k]]
      BY <1>6, <2>1 DEF Deleter
    <3> QED BY <1>0, <3>1, MemberOnce
  <2>3. /\ Drops(wal[committed + k], t, r.vid)
        /\ \A l \in 1..Len(wal) : Drops(wal[l], t, r.vid) => l <= committed + k
    BY <1>0, <1>4, <1>6, <2>1, <2>2, DeleterLast
  <2>4. i <= committed + k
    <3>1. CASE v.create \in 1..committed /\ i = v.create
      BY <1>0, <3>1
    <3>2. ASSUME NEW m \in 1..Len(flush.batch), owner[flush.batch[m]] = v.owner, i = committed + m
          PROVE  i <= committed + k
      <4>1. flush.batch[m] \in Conns /\ owner[flush.batch[m]] = owner[flush.batch[k]]
        BY <1>0, <1>6, <3>2
      <4>2. m = k
        BY <1>0, <4>1, MemberOnce
      <4> QED BY <1>0, <3>2, <4>2
    <3> QED BY <1>3, <3>1, <3>2 DEF CreatedAt
  <2>5. committed + k \in 1..Len(wal)
    BY <1>0, <1>6
  <2>6. committed + k <= r.del
    BY <1>2, <2>3, <2>4, <2>5
  <2>7. r.del \in 1..Len(wal) /\ Drops(wal[r.del], t, r.vid)
    BY <1>0, <1>2, <2>5, <2>6
  <2>8. r.del <= committed + k
    BY <2>3, <2>7
  <2> QED BY <1>0, <1>2, <2>5, <2>6, <2>8
<1>7. Rebuilds(v, r)
  BY <1>4, <1>5, <1>6 DEF Rebuilds
<1> QED BY <1>7

\* It rebuilds each once.
LEMMA RebuiltOnce ==
    ASSUME KeyInv, ReplayInv, NEW t \in Tables, NEW r \in Replay(wal, t), NEW s \in Replay(wal, t),
           r.vid = s.vid
    PROVE  r = s
<1>0. /\ PipeInv /\ Len(wal) < PENDING /\ wal \in Seq(Seq(Op))
      /\ \A v, w \in rows[t] : v.vid = w.vid => v = w
  BY ReplayTypes DEF ReplayInv
<1>1. PICK i, j : RestoredAs(wal, t, i, j, r)
  BY <1>0, RestoredFrom
<1>2. PICK l, m : RestoredAs(wal, t, l, m, s)
  BY <1>0, RestoredFrom
<1>3. PICK v \in rows[t] : Rebuilds(v, r)
  BY RebuiltFrom
<1>4. PICK w \in rows[t] : Rebuilds(w, s)
  BY RebuiltFrom
<1>5. v = w
  BY <1>0, <1>3, <1>4 DEF Rebuilds
<1>6. r.create = s.create /\ r.key = s.key /\ r.val = s.val
  BY <1>0, <1>3, <1>4, <1>5, CreatedOnce DEF Rebuilds
<1>7. i = l /\ r = Restored(wal, t, i, j) /\ s = Restored(wal, t, l, m)
  BY <1>1, <1>2, <1>6 DEF RestoredAs
<1>8. /\ wal[i][j].vid = wal[l][m].vid /\ wal[i][j].key = wal[l][m].key
      /\ wal[i][j].val = wal[l][m].val
  BY <1>1, <1>2, <1>6 DEF RestoredAs, Logs
<1> QED BY <1>7, <1>8 DEF Restored

\* The next id that recovery gives is above those it restores.
LEMMA RebuiltIds ==
    ASSUME KeyInv, ReplayInv, NEW t \in Tables
    PROVE  LET fresh == 1 + Max({0} \cup {v.vid : v \in Replay(wal, t)})
           IN  fresh \in Nat \ {0} /\ \A r \in Replay(wal, t) : r.vid < fresh
<1> DEFINE T == {0} \cup {v.vid : v \in Replay(wal, t)}
           fresh == 1 + Max(T)
<1>0. nextVid[t] \in Nat /\ \A v \in rows[t] : v.vid < nextVid[t] /\ v.vid \in Nat
  BY VersionFields DEF KeyInv, KeyOk, RowsOk
<1>1. T \subseteq Nat /\ T # {} /\ \A x \in T : x <= nextVid[t]
  <2>1. ASSUME NEW r \in Replay(wal, t) PROVE r.vid \in Nat /\ r.vid < nextVid[t]
    <3>1. PICK v \in rows[t] : Rebuilds(v, r)
      BY RebuiltFrom
    <3> QED BY <1>0, <3>1 DEF Rebuilds
  <2> QED BY <1>0, <2>1
<1>2. Max(T) \in T /\ \A y \in T : y <= Max(T)
  BY <1>0, <1>1, MaxOfBounded
<1>3. \A r \in Replay(wal, t) : r.vid \in T
  OBVIOUS
<1> HIDE DEF T
<1>4. Max(T) \in Nat
  BY <1>1, <1>2
<1>5. ASSUME NEW r \in Replay(wal, t) PROVE r.vid < fresh
  <2>1. r.vid \in Nat /\ r.vid <= Max(T)
    BY <1>1, <1>2, <1>3
  <2> QED BY <1>4, <2>1
<1>6. fresh \in Nat \ {0}
  BY <1>4
<1> QED BY <1>5, <1>6 DEF T

\* The tables that recovery rebuilds.
LEMMA RebuiltRows ==
    ASSUME KeyInv, ReplayInv, CrashAndReopen
    PROVE  /\ RowsOk(rows', nextVid', Len(wal))
           /\ \A t \in Tables : \A r \in rows'[t] : r.owner = 0 /\ r.del # PENDING
<1>0. /\ rows' = [t \in Tables |-> Replay(wal, t)]
      /\ nextVid' = [t \in Tables |-> 1 + Max({0} \cup {v.vid : v \in Replay(wal, t)})]
  BY DEF CrashAndReopen
<1>1. PENDING \in Nat /\ PENDING # 0 /\ Len(wal) \in Nat /\ Len(wal) < PENDING /\ wal \in Seq(Seq(Op))
  BY ReplayTypes DEF ReplayInv
<1> HIDE DEF PENDING
<1>2. ASSUME NEW t \in Tables, NEW r \in Replay(wal, t)
      PROVE  /\ r \in Version /\ r.create \in 1..Len(wal) /\ r.del \in 0..Len(wal) /\ r.owner = 0
             /\ r.create # PENDING /\ r.del # PENDING
             /\ \A s \in Replay(wal, t) : r.vid = s.vid => r = s
  <2>1. PICK i, j : RestoredAs(wal, t, i, j, r)
    BY <1>1, RestoredFrom
  <2>2. r \in Version /\ r.create \in 1..Len(wal) /\ r.del \in 0..Len(wal) /\ r.owner = 0
    BY <2>1 DEF RestoredAs
  <2>3. \A s \in Replay(wal, t) : r.vid = s.vid => r = s
    BY RebuiltOnce
  <2>4. r.create # PENDING /\ r.del # PENDING
    BY <1>1, <2>2
  <2> QED BY <2>2, <2>3, <2>4
<1>3. \A t \in Tables : /\ nextVid'[t] \in Nat \ {0}
                        /\ \A r \in Replay(wal, t) : r.vid < nextVid'[t]
  BY <1>0, RebuiltIds
<1>4. rows' \in [Tables -> SUBSET Version] /\ nextVid' \in [Tables -> Nat \ {0}]
  <2>1. \A t \in Tables : Replay(wal, t) \in SUBSET Version
    BY <1>2
  <2>2. \A t \in Tables : 1 + Max({0} \cup {v.vid : v \in Replay(wal, t)}) \in Nat \ {0}
    BY <1>0, <1>3
  <2> QED BY <1>0, <2>1, <2>2
<1>5. \A t \in Tables : rows'[t] = Replay(wal, t)
  BY <1>0
<1>6. RowsOk(rows', nextVid', Len(wal))
  BY <1>2, <1>3, <1>4, <1>5 DEF RowsOk
<1>7. \A t \in Tables : \A r \in rows'[t] : r.owner = 0 /\ r.del # PENDING
  BY <1>2, <1>5
<1> QED BY <1>6, <1>7

\* What ended before the crash has ended after it.
LEMMA RebuiltEnds ==
    ASSUME KeyInv, ReplayInv,
           NEW t \in Tables, NEW v \in rows[t], NEW w \in rows[t], Ends(v, w),
           NEW r, NEW s, Rebuilds(v, r), Rebuilds(w, s), r.del # PENDING
    PROVE  Ends(r, s)
<1>0. /\ PENDING \in Nat /\ committed \in Nat /\ committed < PENDING
      /\ v.del \in (0..committed) \cup {PENDING} /\ w.create \in (1..committed) \cup {PENDING}
  BY ReplayTypes DEF ReplayInv, StampsOk
<1> HIDE DEF PENDING
<1>1. v.del # 0 /\ v.del <= w.create /\ (v.del = PENDING => v.owner = w.owner)
  BY DEF Ends
<1>2. \/ w.create \in 1..committed /\ s.create = w.create
      \/ /\ w.create = PENDING
         /\ \E k \in 1..Len(flush.batch) :
               flush.ok /\ owner[flush.batch[k]] = w.owner /\ s.create = committed + k
  BY DEF Rebuilds, CreatedAt
<1>3. CASE v.del = PENDING
  <2>1. w.create = PENDING
    BY <1>0, <1>1, <1>3
  <2>2. PICK k \in 1..Len(flush.batch) :
           flush.ok /\ owner[flush.batch[k]] = w.owner /\ s.create = committed + k
    BY <1>0, <1>2, <2>1
  <2>3. r.del = committed + k
    BY <1>1, <1>3, <2>2 DEF Rebuilds
  <2>4. k \in Nat /\ k # 0
    BY <2>2
  <2>5. r.del # 0 /\ r.del <= s.create
    BY <1>0, <2>2, <2>3, <2>4
  <2> QED BY <2>5 DEF Ends
<1>4. CASE v.del # PENDING
  <2>1. v.del \in 1..committed
    BY <1>0, <1>1, <1>4
  <2>2. r.del = v.del
    BY <2>1 DEF Rebuilds
  <2>3. v.del <= s.create
    <3>1. CASE w.create \in 1..committed /\ s.create = w.create
      BY <1>1, <3>1
    <3>2. CASE w.create = PENDING
      <4>1. PICK k \in 1..Len(flush.batch) : s.create = committed + k
        BY <1>0, <1>2, <3>2
      <4>2. k \in Nat
        BY <4>1
      <4> QED BY <1>0, <2>1, <4>1, <4>2
    <3> QED BY <1>2, <3>1, <3>2
  <2> QED BY <1>1, <2>2, <2>3 DEF Ends
<1> QED BY <1>3, <1>4

\* The process crashes and the database is opened again.
LEMMA CrashKey == ASSUME KeyInv, ReplayInv, CrashAndReopen PROVE KeyInv'
<1>0. /\ rows' = [t \in Tables |-> Replay(wal, t)] /\ committed' = Len(wal) /\ wal' = wal
      /\ queue' = <<>> /\ flush' = NoFlush /\ nextOwner' = nextOwner
      /\ pc' = [c \in Conns |-> "idle"] /\ snap' = [c \in Conns |-> 0]
      /\ owner' = [c \in Conns |-> 0] /\ saves' = [c \in Conns |-> <<>>]
  BY DEF CrashAndReopen, EndTxns
<1>1. PipeInv
  BY DEF KeyInv
<1>2. /\ PENDING \in Nat /\ PENDING # 0 /\ Len(wal) \in Nat /\ nextOwner \in Nat
      /\ nextOwner <= PENDING /\ Len(wal) < nextOwner
  <2> DEFINE n == Cardinality(Unqueued)
             q == Len(queue)
  <2>1. /\ PENDING \in Nat /\ PENDING # 0 /\ Len(wal) \in Nat /\ nextOwner \in Nat
        /\ nextOwner <= PENDING /\ queue \in Seq(Conns) /\ Len(wal) + q + n < nextOwner
    BY <1>1, PipeNumbers
  <2>2. q \in Nat
    BY <2>1
  <2>3. n \in Nat
    <3>1. Unqueued \in SUBSET Conns
      BY DEF Unqueued
    <3> QED BY <3>1, FewerConns
  <2> HIDE DEF PENDING, n, q
  <2> QED BY <2>1, <2>2, <2>3
<1>4. PipeInv'
  <2>1. OwnerInv'
    BY <1>0, <1>2 DEF OwnerInv
  <2>2. QueueInv'
    BY <1>0 DEF QueueInv, NoFlush
  <2>3. LsnInv'
    <3>1. Unqueued' = {}
      BY <1>0 DEF Unqueued
    <3>2. Cardinality(Unqueued') = 0
      BY <3>1, NobodyUnqueued
    <3>3. Len(queue') = 0
      BY <1>0
    <3> QED BY <1>0, <1>2, <3>2, <3>3 DEF LsnInv, PENDING
  <2>4. MarkInv'
    <3>1. wal = [i \in 1..Len(wal) |-> wal[i]]
      BY DEF KeyInv, PipeInv, MarkInv
    <3> QED BY <1>0, <1>2, <3>1 DEF MarkInv, NoFlush
  <2> QED BY <2>1, <2>2, <2>3, <2>4 DEF PipeInv
<1>5. SaveTypes'
  <2>1. saves' \in [Conns -> Seq(Saved({}))] /\ \A c \in Conns : saves'[c] = <<>>
    BY <1>0
  <2> QED BY <2>1 DEF SaveTypes
<1>6. /\ RowsOk(rows, nextVid, committed)'
      /\ \A t \in Tables : \A r \in rows'[t] : r.owner = 0 /\ r.del # PENDING
  <2>1. /\ RowsOk(rows', nextVid', Len(wal))
        /\ \A t \in Tables : \A r \in rows'[t] : r.owner = 0 /\ r.del # PENDING
    BY RebuiltRows
  <2>2. PENDING' = PENDING
    BY DEF PENDING
  <2> QED BY <1>0, <2>1, <2>2 DEF RowsOk
<1>8. WroteOk(rows)'
  BY <1>0, <1>2, <1>6 DEF WroteOk
<1>9. ASSUME NEW t \in Tables PROVE Keyed(rows'[t])
  <2> SUFFICES ASSUME NEW r \in rows'[t], NEW s \in rows'[t], r.key = s.key, r # s
               PROVE  Apart(r, s)
    BY DEF Keyed
  <2>1. r \in Replay(wal, t) /\ s \in Replay(wal, t)
    BY <1>0
  <2>2. PICK v \in rows[t] : Rebuilds(v, r)
    BY <2>1, RebuiltFrom
  <2>3. PICK w \in rows[t] : Rebuilds(w, s)
    BY <2>1, RebuiltFrom
  <2>4. v.key = w.key /\ v # w
    BY <2>1, <2>2, <2>3, RebuiltOnce DEF Rebuilds
  <2>5. Apart(v, w)
    BY <2>4 DEF KeyInv, KeyOk, Keyed
  <2>6. r.del # PENDING /\ s.del # PENDING
    BY <1>6
  <2>7. CASE Ends(v, w)
    BY <2>2, <2>3, <2>6, <2>7, RebuiltEnds DEF Apart
  <2>8. CASE Ends(w, v)
    BY <2>2, <2>3, <2>6, <2>8, RebuiltEnds DEF Apart
  <2>9. CASE Ends(v, v)
    BY <2>2, <2>6, <2>9, RebuiltEnds DEF Apart
  <2>10. CASE Ends(w, w)
    BY <2>3, <2>6, <2>10, RebuiltEnds DEF Apart
  <2> QED BY <2>5, <2>7, <2>8, <2>9, <2>10 DEF Apart
<1>10. SavesOk(rows, nextVid)' /\ Nested(rows)'
  <2>1. \A d \in Conns : pc'[d] \notin {"open", "writing"}
    BY <1>0
  <2> QED BY <2>1 DEF SavesOk, Nested
<1>11. KeyOk(rows, nextVid)'
  BY <1>6, <1>8, <1>9, <1>10 DEF KeyOk
<1> QED BY <1>4, <1>5, <1>11 DEF KeyInv

\* And what recovery needs holds again.
LEMMA CrashReplay == ASSUME KeyInv, ReplayInv, CrashAndReopen PROVE ReplayInv'
<1>0. /\ rows' = [t \in Tables |-> Replay(wal, t)] /\ committed' = Len(wal) /\ wal' = wal
      /\ queue' = <<>> /\ flush' = NoFlush
      /\ pc' = [c \in Conns |-> "idle"] /\ ops' = [c \in Conns |-> <<>>]
      /\ saves' = [c \in Conns |-> <<>>]
  BY DEF CrashAndReopen, EndTxns
<1>1. /\ PENDING \in Nat /\ PENDING # 0 /\ Len(wal) \in Nat /\ Len(wal) < PENDING
      /\ wal \in Seq(Seq(Op)) /\ PENDING' = PENDING
  BY ReplayTypes DEF ReplayInv, PENDING
<1> HIDE DEF PENDING
<1>2. OpsInv'
  BY <1>0, <1>1 DEF OpsInv, NoFlush
<1>3. MarksOk(ops, saves)'
  BY <1>0, StoreAssumption DEF MarksOk
<1>4. InsOk(rows, ops)'
  <2>1. ASSUME NEW i \in 1..Len(wal), NEW m \in 1..Len(wal[i]), wal[i][m].op = "insert"
        PROVE  Inserted(rows', wal[i][m], i, 0)
    <3> DEFINE t == wal[i][m].tab
               r == Restored(wal, t, i, m)
    <3>1. wal[i][m] \in Op
      BY <1>1
    <3>2. t \in Tables /\ Inserts(wal, t, i, m)
      BY <2>1, <3>1, OpFields DEF Inserts
    <3>3. r \in rows'[t]
      BY <1>0, <3>2, ReplayRestores
    <3>4. RestoredAs(wal, t, i, m, r)
      BY <1>1, <3>2, RestoredFields
    <3>5. Logs(wal[i][m], "insert", t, r) /\ r.create = i /\ i # PENDING
      BY <1>1, <3>4 DEF RestoredAs
    <3> QED BY <3>3, <3>5 DEF Inserted
  <2>2. \A c \in Conns : Len(ops'[c]) = 0
    BY <1>0
  <2>3. \A i \in 1..committed' : \A m \in 1..Len(wal'[i]) :
           wal'[i][m].op = "insert" => Inserted(rows', wal'[i][m], i, 0)
    BY <1>0, <2>1
  <2> QED BY <1>1, <2>2, <2>3 DEF InsOk, Inserted
<1>5. DelOk(rows, ops)'
  <2>1. ASSUME NEW t \in Tables, NEW r \in rows'[t]
        PROVE  /\ r.del # 0 => r.create <= r.del /\ Settled(ops, t, r)'
               /\ r.del # PENDING
    <3>1. r \in Replay(wal, t)
      BY <1>0
    <3>2. PICK i, j : RestoredAs(wal, t, i, j, r)
      BY <1>1, <3>1, RestoredFrom
    <3>3. /\ i \in 1..Len(wal) /\ r.create = i /\ r.del \in 0..Len(wal)
          /\ r.del # 0 => i <= r.del /\ Drops(wal[r.del], t, r.vid)
          /\ \A l \in 1..Len(wal) : i <= l /\ Drops(wal[l], t, r.vid) => l <= r.del
      BY <3>2 DEF RestoredAs
    <3>4. ASSUME NEW l \in 1..Len(wal), r.del # 0, Drops(wal[l], t, r.vid) PROVE l <= r.del
      <4>1. CASE i <= l
        BY <3>3, <3>4, <4>1
      <4>2. CASE ~(i <= l)
        <5>1. i \in Nat /\ l \in Nat /\ r.del \in Nat /\ i <= r.del
          BY <1>1, <3>3, <3>4
        <5> QED BY <4>2, <5>1
      <4> QED BY <4>1, <4>2
    <3>5. \A d \in Conns : ~Drops(ops'[d], t, r.vid)
      BY <1>0 DEF Drops
    <3>6. r.del # 0 => Settled(ops, t, r)'
      BY <1>0, <3>3, <3>4, <3>5 DEF Settled, Drops
    <3> QED BY <1>1, <3>3, <3>6
  <2> QED BY <1>1, <2>1 DEF DelOk
<1> QED BY <1>2, <1>3, <1>4, <1>5 DEF ReplayInv

-----------------------------------------------------------------------------
(* The theorem.                                                             *)

\* Initially there is nothing.
LEMMA InitKey == Init => KeyInv
<1> SUFFICES ASSUME Init PROVE KeyInv
  OBVIOUS
<1>1. StoreInv
  BY InitInv
<1>2. PipeInv
  <2>1. OwnerInv
    BY DEF Init, OwnerInv
  <2>2. MarkInv
    BY DEF Init, MarkInv, NoFlush
  <2> QED BY <1>1, <2>1, <2>2 DEF StoreInv, PipeInv
<1>3. SaveTypes
  <2>1. saves \in [Conns -> Seq(Saved({}))] /\ \A c \in Conns : saves[c] = <<>>
    BY DEF Init
  <2> QED BY <2>1 DEF SaveTypes
<1>4. KeyOk(rows, nextVid)
  <2>1. RowsOk(rows, nextVid, committed)
    BY <1>1 DEF StoreInv, RowsInv
  <2>2. \A t \in Tables : rows[t] = {}
    BY DEF Init
  <2>3. \A c \in Conns : pc[c] = "idle"
    BY DEF Init
  <2> QED BY <2>1, <2>2, <2>3 DEF KeyOk, WroteOk, Keyed, SavesOk, Nested
<1> QED BY <1>2, <1>3, <1>4 DEF KeyInv

\* And so nothing is to be recovered.
LEMMA InitReplay == Init => ReplayInv
<1> SUFFICES ASSUME Init PROVE ReplayInv
  OBVIOUS
<1>1. OpsInv
  BY DEF Init, OpsInv, NoFlush
<1>2. InsOk(rows, ops)
  BY DEF Init, InsOk
<1>3. DelOk(rows, ops)
  BY DEF Init, DelOk
<1>4. MarksOk(ops, saves)
  BY StoreAssumption DEF Init, MarksOk
<1> QED BY <1>1, <1>2, <1>3, <1>4 DEF ReplayInv

\* Nothing happens.
LEMMA StutterReplay ==
    ASSUME ReplayInv, UNCHANGED <<rows, committed, pc, owner, ops, saves, queue, flush, wal>>
    PROVE  ReplayInv'
<1>1. OpsInv'
  BY DEF ReplayInv, OpsInv
<1>2. InsOk(rows, ops)'
  BY DEF ReplayInv, InsOk, Inserted, PENDING
<1>3. DelOk(rows, ops)'
  BY DEF ReplayInv, DelOk, Settled, Deleter, Behind, Drops, PENDING
<1>4. MarksOk(ops, saves)'
  <2>1. ops' = ops /\ saves' = saves /\ MarksOk(ops, saves)
    BY DEF ReplayInv
  <2>2. MarksOk(ops', saves')
    BY <2>1
  <2> QED BY <2>2 DEF MarksOk, Marks
<1> QED BY <1>1, <1>2, <1>3, <1>4 DEF ReplayInv

\* Every step keeps keys unique; recovery does as long as it agrees with memory.
LEMMA NextKey ==
    ASSUME "rekey" \notin OnConflicts, OneTable, KeyInv, CrashAndReopen => ReplayInv, [Next]_vars
    PROVE  KeyInv'
<1>1. CASE UNCHANGED vars
  <2>1. UNCHANGED <<rows, nextVid, committed, pc, snap, owner, ops, saves, nextOwner, queue, flush, wal>>
    BY <1>1 DEF vars, storeVars, txnVars, pipeVars
  <2>2. PipeInv /\ SaveTypes /\ KeyOk(rows', nextVid')
    BY <2>1 DEF KeyInv
  <2> QED BY <2>1, <2>2, RowsChange
<1>2. ASSUME NEW c \in Conns,
             \/ Begin(c) \/ EnsureWriter(c) \/ Dml(c)
             \/ Savepoint(c) \/ ReleaseSavepoint(c) \/ RollbackTo(c)
             \/ Rollback(c) \/ CommitEmpty(c) \/ Commit(c)
      PROVE  KeyInv'
  BY <1>2, BeginKey, PipeKey, DmlKey, SavepointKey, ReleaseKey, RollbackToKey, RollbackKey
<1>3. CASE FlushBatch \/ Publish \/ Discard
  BY <1>3, PipeKey, PublishKey, DiscardKey
<1>4. CASE CrashAndReopen
  BY <1>4, CrashKey
<1>5. CASE Rest
  BY <1>1, <1>5 DEF Rest
<1> QED BY <1>1, <1>2, <1>3, <1>4, <1>5 DEF Next

\* Memory and log keep agreeing unless a statement leaves rows superseded.
LEMMA NextReplay ==
    ASSUME "rekey" \notin OnConflicts, "supersede" \notin Midway, OneTable, KeyInv, ReplayInv,
           [Next]_vars
    PROVE  ReplayInv'
<1>1. CASE UNCHANGED vars
  <2>1. UNCHANGED <<rows, committed, pc, owner, ops, saves, queue, flush, wal>>
    BY <1>1 DEF vars, storeVars, txnVars, pipeVars
  <2> QED BY <2>1, StutterReplay
<1>2. ASSUME NEW c \in Conns,
             \/ Begin(c) \/ EnsureWriter(c) \/ Dml(c)
             \/ Savepoint(c) \/ ReleaseSavepoint(c) \/ RollbackTo(c)
             \/ Rollback(c) \/ CommitEmpty(c) \/ Commit(c)
      PROVE  ReplayInv'
  BY <1>2, BeginReplay, DmlReplay, SavepointReplay, ReleaseReplay, RollbackToReplay,
     RollbackReplay, CommitReplay
<1>3. CASE FlushBatch \/ Publish \/ Discard
  BY <1>3, FlushReplay, PublishReplay, DiscardReplay
<1>4. CASE CrashAndReopen
  BY <1>4, CrashReplay
<1>5. CASE Rest
  BY <1>1, <1>5 DEF Rest
<1> QED BY <1>1, <1>2, <1>3, <1>4, <1>5 DEF Next

\* Crashes are counted.
LEMMA CrashesCounted == ASSUME crashes \in Nat, [Next]_vars PROVE crashes' \in Nat
<1>1. ASSUME NEW c \in Conns, Dml(c) PROVE crashes' = crashes
  <2>1. ASSUME NEW t \in Tables, NEW k \in Keys, NEW x \in Vals, InsertNew(c, t, k, x)
        PROVE  crashes' = crashes
    BY <2>1 DEF InsertNew, Statement
  <2>2. ASSUME NEW t \in Tables, NEW k \in Keys, NEW l \in Keys, NEW x \in Vals, Upsert(c, t, k, l, x)
        PROVE  crashes' = crashes
    BY <2>2 DEF Upsert, Statement
  <2>3. ASSUME NEW t \in Tables, NEW k \in Keys, NEW l \in Keys, NEW x \in Vals, Update(c, t, k, l, x)
        PROVE  crashes' = crashes
    BY <2>3 DEF Update, Statement
  <2>4. ASSUME NEW t \in Tables, NEW k \in Keys, Delete(c, t, k) PROVE crashes' = crashes
    BY <2>4 DEF Delete, Statement
  <2> QED BY <1>1, <2>1, <2>2, <2>3, <2>4 DEF Dml, InsertReplace, InsertDoUpdate
<1>2. ASSUME NEW c \in Conns,
             \/ Begin(c) \/ EnsureWriter(c)
             \/ Savepoint(c) \/ ReleaseSavepoint(c) \/ RollbackTo(c)
             \/ Rollback(c) \/ CommitEmpty(c) \/ Commit(c)
      PROVE  crashes' = crashes
  BY <1>2 DEF Begin, EnsureWriter, Savepoint, ReleaseSavepoint, RollbackTo, Rollback,
          CommitEmpty, Commit
<1>3. CASE FlushBatch \/ Publish \/ Discard \/ Rest \/ UNCHANGED vars
  BY <1>3 DEF FlushBatch, Publish, Discard, Rest, vars
<1>4. CASE CrashAndReopen
  BY <1>4 DEF CrashAndReopen
<1> QED BY <1>1, <1>2, <1>3, <1>4 DEF Next

\* The primary key is unique at every snapshot, although keys are checked when a
\* statement runs and published when its transaction commits (pk_index, pk_keys):
\* through REPLACE, a DO UPDATE that leaves the key alone, INSERTs that raise after
\* their first rows, savepoints, rollbacks, failed appends, and crashes with replay.
\* Also when statements raise after they have superseded rows, as long as the process
\* lives: a recovery after that may find two rows of a key, hence the last hypothesis.
THEOREM PrimaryKeysAreUnique ==
    ASSUME "rekey" \notin OnConflicts, OneTable,
           MaxCrashes = 0 \/ "supersede" \notin Midway
    PROVE  Spec => []PrimaryKeyUnique
<1> DEFINE I == KeyInv /\ crashes \in Nat /\ ("supersede" \notin Midway => ReplayInv)
<1>1. Init => I
  BY InitKey, InitReplay DEF Init
<1>2. I /\ [Next]_vars => I'
  <2> SUFFICES ASSUME I, [Next]_vars PROVE I'
    OBVIOUS
  <2>1. CrashAndReopen => ReplayInv
    BY DEF CrashAndReopen
  <2>2. KeyInv'
    BY <2>1, NextKey
  <2>3. crashes' \in Nat
    BY CrashesCounted
  <2>4. "supersede" \notin Midway => ReplayInv'
    BY NextReplay
  <2> QED BY <2>2, <2>3, <2>4
<1>3. I => PrimaryKeyUnique
  <2> SUFFICES ASSUME KeyInv, NEW t \in Tables, NEW s \in 0..committed,
                      NEW v \in rows[t], NEW w \in rows[t],
                      visible_to_reader(v, s), visible_to_reader(w, s), v.key = w.key
               PROVE  v = w
    BY DEF PrimaryKeyUnique
  <2>1. PENDING \in Nat /\ s \in Nat /\ rows[t] \in SUBSET Version /\ Keyed(rows[t])
    BY PipeNumbers DEF KeyInv, KeyOk, RowsOk
  <2> QED BY <2>1, KeyedIsUnique
<1> QED BY <1>1, <1>2, <1>3, PTL DEF Spec
=============================================================================
