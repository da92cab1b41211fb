---------------------------- MODULE VectorIndex ----------------------------
(***************************************************************************)
(* The HNSW index of a vector column (engine/src/vector.rs), its upkeep by *)
(* the row store (engine/src/store.rs), its page checkpoint and the cold   *)
(* open that adopts or rebuilds it (engine/src/db.rs), and the kNN access  *)
(* path that reads it (exec.rs knn_select) beside the scan it stands for.  *)
(*                                                                         *)
(* One index name; a row is a vector and a vector is a point on a line     *)
(* (distance is the difference).  Writers take the lane one at a time and  *)
(* queue their commits; one LSN stands for the records of a commit (see    *)
(* GroupCommit and MvccStore for those two).  Record sizes are abstracted  *)
(* to PerPage nodes in a page, and the level drawn for the n-th insertion  *)
(* by the fixed-seed generator to the constant Levels.                     *)
(***************************************************************************)
EXTENDS Integers, Sequences, SequencesExt, FiniteSets, FiniteSetsExt

CONSTANTS
    Tables,         \* tables with a vector column
    Vecs,           \* points stored and queried
    Levels,         \* random_level: the levels drawn after the seed
    M,              \* IndexParams.m
    EfConstruction, EfSearch,
    Overfetch,      \* KNN_OVERFETCH
    MaintMinNodes, MaintDeadPct,
    PerPage,        \* node records in a body page
    MaxLag,         \* bound: commits a writer's snapshot may be behind
    MaxVid,         \* bound: versions of a table
    MaxOwners,      \* bound: writing transactions
    MaxLsn,         \* bound: appends
    MaxCrashes

ASSUME IndexAssumption ==
    /\ Vecs \subseteq Int
    /\ M \in Nat \ {0, 1}
    /\ \A n \in {EfConstruction, EfSearch, Overfetch, PerPage} : n \in Nat \ {0}
    /\ \A n \in {MaintMinNodes, MaintDeadPct, MaxLag, MaxVid, MaxOwners, MaxLsn, MaxCrashes} :
         n \in Nat
    /\ Len(Levels) > 0

PENDING == MaxLsn + 1
None == 0       \* no node (node numbers start at 1), no owner
NoFrames == [at |-> 1, todo |-> <<>>]

VARIABLES
    rows,       \* Table.rows, in insertion order
    nextVid,    \* Table.next_vid
    committed,  \* Store.committed_lsn
    index,      \* Store.indexes: the VectorIndex, or NoIndex
    lane,       \* the transaction in the write lane, its snapshot
    queue,      \* transactions whose commit is queued
    nextOwner,
    wal,        \* durable commits: row ops, or a CREATE/DROP INDEX
    pages,      \* the pages of the index's region
    frames,     \* checkpoint_vector_index: the frames still to be put, from which page
    crashes

vars == <<rows, nextVid, committed, index, lane, queue, nextOwner, wal, pages,
          frames, crashes>>

-----------------------------------------------------------------------------
(* The graph.                                                               *)

Dist(a, b) == IF a < b THEN b - a ELSE a - b
NoIndex == [tab |-> "none", nodes |-> <<>>, entry |-> None, maxLevel |-> 0,
            draws |-> 0, floor |-> 0]
New(t) == [NoIndex EXCEPT !.tab = t]

\* by_vid and the counts kept beside it.
Present(ix) == {i \in DOMAIN ix.nodes : ~ix.nodes[i].removed}
DeadIn(ix) == {i \in Present(ix) : ix.nodes[i].dead}
LiveLen(ix) == Cardinality(Present(ix)) - Cardinality(DeadIn(ix))
ByVid(ix, vid) == {i \in Present(ix) : ix.nodes[i].vid = vid}

Neighbors(ix, i, lvl) ==
    IF lvl < Len(ix.nodes[i].nbrs) THEN ix.nodes[i].nbrs[lvl + 1] ELSE <<>>

\* Scored: nearer first, ties by node number.
Nearer(ix, q, i, j) ==
    LET d == Dist(q, ix.nodes[i].vec)  e == Dist(q, ix.nodes[j].vec)
    IN d < e \/ (d = e /\ i < j)
Sorted(ix, q, S) ==
    [n \in 1..Cardinality(S) |->
       CHOOSE i \in S : Cardinality({j \in S : Nearer(ix, q, j, i)}) = n - 1]
Farthest(ix, q, S) == CHOOSE i \in S : \A j \in S \ {i} : Nearer(ix, q, j, i)

\* One neighbour met by search_layer.
Meet(ix, q, ef, st, nb) ==
    LET d == Dist(q, ix.nodes[nb].vec)
        far == Dist(q, ix.nodes[Farthest(ix, q, st.result)].vec)
        grown == st.result \cup {nb}
    IN IF nb \in st.visited THEN st
       ELSE IF d < far \/ Cardinality(st.result) < ef
       THEN [visited |-> st.visited \cup {nb},
             cands   |-> st.cands \cup {nb},
             result  |-> IF Cardinality(grown) > ef
                         THEN grown \ {Farthest(ix, q, grown)} ELSE grown]
       ELSE [st EXCEPT !.visited = @ \cup {nb}]

RECURSIVE BestFirst(_, _, _, _, _)
BestFirst(ix, q, ef, lvl, st) ==
    LET c == CHOOSE i \in st.cands : \A j \in st.cands \ {i} : Nearer(ix, q, i, j)
        far == Dist(q, ix.nodes[Farthest(ix, q, st.result)].vec)
        rest == [st EXCEPT !.cands = @ \ {c}]
    IN IF st.cands = {} THEN st.result
       ELSE IF Dist(q, ix.nodes[c].vec) > far /\ Cardinality(st.result) >= ef
       THEN st.result
       ELSE BestFirst(ix, q, ef, lvl,
                FoldLeft(LAMBDA s, nb : Meet(ix, q, ef, s, nb), rest,
                         Neighbors(ix, c, lvl)))

\* search_layer: up to ef nodes, nearest first.
SearchLayer(ix, q, entry, ef, lvl) ==
    Sorted(ix, q, BestFirst(ix, q, ef, lvl,
        [visited |-> {entry}, cands |-> {entry}, result |-> {entry}]))

\* Greedy descent from level `from` to just above level `to`.
RECURSIVE Descend(_, _, _, _, _)
Descend(ix, q, ep, from, to) ==
    IF from <= to THEN ep
    ELSE Descend(ix, q, SearchLayer(ix, q, ep, 1, from)[1], from - 1, to)

\* connect: a link from a to b, the list grown to reach the level.
Connect(ix, a, b, lvl) ==
    LET old == ix.nodes[a].nbrs
        grown == [l \in 1..(IF Len(old) > lvl THEN Len(old) ELSE lvl + 1) |->
                    IF l <= Len(old) THEN old[l] ELSE <<>>]
        linked == [l \in DOMAIN grown |->
                     IF l = lvl + 1 /\ ~Contains(grown[l], b)
                     THEN Append(grown[l], b) ELSE grown[l]]
    IN IF a = b THEN ix ELSE [ix EXCEPT !.nodes[a] = [@ EXCEPT !.nbrs = linked]]

\* prune: the degree capped at m, the nearest links kept.
Prune(ix, a, lvl, m) ==
    LET links == Neighbors(ix, a, lvl)
        near == Sorted(ix, ix.nodes[a].vec, ToSet(links))
        cut == [l \in DOMAIN ix.nodes[a].nbrs |->
                  IF l = lvl + 1 THEN SubSeq(near, 1, m) ELSE ix.nodes[a].nbrs[l]]
    IN IF Len(links) <= m THEN ix
       ELSE [ix EXCEPT !.nodes[a] = [@ EXCEPT !.nbrs = cut]]

Link(ix, new, s, lvl, m) ==
    Prune(Connect(Connect(ix, new, s, lvl), s, new, lvl), s, lvl, m)

\* link_new_node, one level and then the ones below it.
RECURSIVE LinkDown(_, _, _, _)
LinkDown(ix, new, ep, lvl) ==
    LET found == SearchLayer(ix, ix.nodes[new].vec, ep, EfConstruction, lvl)
        m == IF lvl = 0 THEN M * 2 ELSE M
        near == SubSeq(found, 1, IF Len(found) < m THEN Len(found) ELSE m)
        linked == FoldLeft(LAMBDA x, s : Link(x, new, s, lvl, m), ix, near)
    IN IF lvl = 0 THEN linked ELSE LinkDown(linked, new, found[1], lvl - 1)

\* The first node, and one above all others, is where searches start.
Raise(ix, new, level) ==
    IF ix.entry = None \/ level > ix.maxLevel
    THEN [ix EXCEPT !.entry = new, !.maxLevel = level] ELSE ix

\* VectorIndex::insert.
InsertNode(ix, vid, x) ==
    LET level == Levels[(ix.draws % Len(Levels)) + 1]
        new == Len(ix.nodes) + 1
        node == [vid |-> vid, vec |-> x, nbrs |-> [l \in 1..level + 1 |-> <<>>],
                 removed |-> FALSE, dead |-> FALSE]
        pushed == [ix EXCEPT !.nodes = Append(@, node), !.draws = @ + 1]
        top == IF level < ix.maxLevel THEN level ELSE ix.maxLevel
        linked == LinkDown(pushed, new,
                      Descend(pushed, x, ix.entry, ix.maxLevel, level), top)
    IN IF ByVid(ix, vid) # {} THEN ix
       ELSE Raise(IF ix.entry = None THEN pushed ELSE linked, new, level)

\* remove: the tombstone of a rolled-back insert.
RemoveNode(ix, vid) ==
    [ix EXCEPT !.nodes = [i \in DOMAIN @ |->
        IF i \in ByVid(ix, vid) THEN [@[i] EXCEPT !.removed = TRUE] ELSE @[i]]]

MarkDead(ix, vid) ==
    [ix EXCEPT !.nodes = [i \in DOMAIN @ |->
        IF i \in ByVid(ix, vid) THEN [@[i] EXCEPT !.dead = TRUE] ELSE @[i]]]

NeedsMaintenance(ix) ==
    LET n == Cardinality(Present(ix))
    IN n >= MaintMinNodes /\ Cardinality(DeadIn(ix)) * 100 >= n * MaintDeadPct

\* VectorIndex::search: the vids of the k nearest present nodes.
Search(ix, q, k) ==
    LET ep == Descend(ix, q, ix.entry, ix.maxLevel, 0)
        found == SearchLayer(ix, q, ep, IF EfSearch > k THEN EfSearch ELSE k, 0)
        present == SelectSeq(found, LAMBDA i : ~ix.nodes[i].removed)
        near == SubSeq(present, 1, IF Len(present) < k THEN Len(present) ELSE k)
    IN IF ix.entry = None \/ k = 0 THEN <<>>
       ELSE [i \in DOMAIN near |-> ix.nodes[near[i]].vid]

-----------------------------------------------------------------------------
(* The rows.                                                                *)

VisibleToReader(v, s) == v.create <= s /\ (v.del = 0 \/ v.del > s)
VisibleToWriter(v, s, me) ==
    /\ IF v.create = PENDING THEN v.owner = me ELSE v.create <= s
    /\ ~ IF v.del = PENDING THEN v.owner = me ELSE v.del # 0 /\ v.del <= s
RowVisible(v, s, me) ==
    IF me = None THEN VisibleToReader(v, s) ELSE VisibleToWriter(v, s, me)

IsDeadAtHead(v) == v.del # 0 /\ v.del # PENDING

\* populate_index: every version, the head-deleted ones marked.
PopulateIndex(ix, R) ==
    FoldLeft(LAMBDA x, v : LET y == InsertNode(x, v.vid, v.vec)
                           IN IF IsDeadAtHead(v) THEN MarkDead(y, v.vid) ELSE y,
             ix, R)

\* Mutant: the floor is the LSN readers have been shown so far.
CompactAtPublished(ix, R, lsn) ==
    [FoldLeft(LAMBDA x, v : InsertNode(x, v.vid, v.vec), New(ix.tab),
              SelectSeq(R, LAMBDA v : ~IsDeadAtHead(v)))
       EXCEPT !.floor = IF committed > ix.floor THEN committed ELSE ix.floor]

\* compact_index: a graph without the head-deleted versions, for snapshots from
\* lsn on.
CompactIndex(ix, R, lsn) ==
    [FoldLeft(LAMBDA x, v : InsertNode(x, v.vid, v.vec), New(ix.tab),
              SelectSeq(R, LAMBDA v : ~IsDeadAtHead(v)))
       EXCEPT !.floor = IF lsn > ix.floor THEN lsn ELSE ix.floor]

\* apply_index_deletes.
ApplyIndexDeletes(ix, R, vids, lsn) ==
    LET marked == FoldSet(LAMBDA vid, x : MarkDead(x, vid), ix, vids)
    IN IF NeedsMaintenance(marked) THEN CompactIndex(marked, R, lsn) ELSE marked

\* index_row_inserted.
IndexRowInserted(ix, t, vid, x) == IF ix.tab = t THEN InsertNode(ix, vid, x) ELSE ix

\* rebuild_one_index.
RebuildOneIndex(t, R, head) ==
    LET full == PopulateIndex(New(t), R)
    IN IF NeedsMaintenance(full) THEN CompactIndex(full, R, head) ELSE full

-----------------------------------------------------------------------------
(* The page checkpoint.                                                     *)

\* to_page_frames: the header and the node records, PerPage to a page.
ToPageFrames(ix, lsn) ==
    LET n == Len(ix.nodes)
        nbody == (n + PerPage - 1) \div PerPage
        header == [lsn |-> lsn, count |-> n, entry |-> ix.entry,
                   maxLevel |-> ix.maxLevel, dead |-> Cardinality(DeadIn(ix)),
                   floor |-> ix.floor, nbody |-> nbody]
        body(p) == SubSeq(ix.nodes, (p - 1) * PerPage + 1,
                          IF p * PerPage < n THEN p * PerPage ELSE n)
    IN IF n = 0 THEN <<>>
       ELSE [p \in 1..nbody + 1 |-> IF p = 1 THEN header ELSE body(p - 1)]

\* from_page_frames: the graph, or NoIndex for one it refuses.
FromPageFrames(t, header, body) ==
    LET nodes == FlattenSeq(body)
        ix == [tab |-> t, nodes |-> nodes, entry |-> header.entry,
               maxLevel |-> header.maxLevel, draws |-> 0, floor |-> header.floor]
    IN IF Len(nodes) = header.count /\ Cardinality(DeadIn(ix)) = header.dead
       THEN ix ELSE NoIndex


\* load_index_pages: only a checkpoint of exactly this head.
LoadIndexPages(t, P, head) ==
    IF P = <<>> \/ P[1].lsn # head \/ Len(P) < P[1].nbody + 1 THEN NoIndex
    ELSE FromPageFrames(t, P[1], SubSeq(P, 2, P[1].nbody + 1))

-----------------------------------------------------------------------------
(* Writing transactions.                                                    *)

Init ==
    /\ rows = [t \in Tables |-> <<>>]
    /\ nextVid = [t \in Tables |-> 1]
    /\ committed = 0
    /\ index = NoIndex
    /\ lane = [owner |-> None, snap |-> 0]
    /\ queue = <<>>
    /\ nextOwner = 1
    /\ wal = <<>>
    /\ pages = <<>>
    /\ frames = NoFrames
    /\ crashes = 0

LaneFree == lane.owner = None /\ frames = NoFrames
Release == lane' = [owner |-> None, snap |-> 0]

\* The first write of a transaction, begun at an earlier snapshot perhaps.
AcquireLane(s) ==
    /\ LaneFree /\ nextOwner <= MaxOwners /\ committed - s <= MaxLag
    /\ lane' = [owner |-> nextOwner, snap |-> s]
    /\ nextOwner' = nextOwner + 1
    /\ UNCHANGED <<rows, nextVid, committed, index, queue, wal, pages, frames, crashes>>

\* append_version and index_row_inserted.
InsertRow(t, x) ==
    /\ lane.owner # None /\ nextVid[t] <= MaxVid
    /\ rows' = [rows EXCEPT ![t] = Append(@,
          [vid |-> nextVid[t], vec |-> x, create |-> PENDING, del |-> 0,
           owner |-> lane.owner])]
    /\ nextVid' = [nextVid EXCEPT ![t] = @ + 1]
    /\ index' = IndexRowInserted(index, t, nextVid[t], x)
    /\ UNCHANGED <<committed, lane, queue, nextOwner, wal, pages, frames, crashes>>

\* supersede, of a version no later or other writer has superseded.
DeleteRow(t, i) ==
    /\ lane.owner # None
    /\ VisibleToWriter(rows[t][i], lane.snap, lane.owner)
    /\ rows[t][i].del = 0
    /\ rows' = [rows EXCEPT ![t][i].del = PENDING, ![t][i].owner = lane.owner]
    /\ UNCHANGED <<nextVid, committed, index, lane, queue, nextOwner, wal, pages,
                   frames, crashes>>

HasWork(o) == \E t \in Tables : \E i \in DOMAIN rows[t] : rows[t][i].owner = o

\* finish_commit: queued, the lane released.
Commit ==
    /\ lane.owner # None
    /\ queue' = IF HasWork(lane.owner) THEN Append(queue, lane.owner) ELSE queue
    /\ Release
    /\ UNCHANGED <<rows, nextVid, committed, index, nextOwner, wal, pages, frames,
                   crashes>>

\* rollback_owner: pending inserts dropped and, whatever their table,
\* tombstoned in the index; pending deletes cleared.
RollbackOwner(o) ==
    LET mine(v) == v.owner = o /\ v.create = PENDING
        gone == UNION {{rows[t][i].vid : i \in {j \in DOMAIN rows[t] : mine(rows[t][j])}}
                       : t \in Tables}
        kept(t) == SelectSeq(rows[t], LAMBDA v : ~mine(v))
    IN /\ rows' = [t \in Tables |-> [i \in DOMAIN kept(t) |->
             IF kept(t)[i].owner = o
             THEN [kept(t)[i] EXCEPT !.del = 0, !.owner = None] ELSE kept(t)[i]]]
       /\ index' = FoldSet(LAMBDA vid, x : RemoveNode(x, vid), index, gone)

Rollback ==
    /\ lane.owner # None
    /\ RollbackOwner(lane.owner)
    /\ Release
    /\ UNCHANGED <<nextVid, committed, queue, nextOwner, wal, pages, frames, crashes>>

\* What a commit appends.
RecordsOf(o) ==
    [kind |-> "rows",
     ins |-> [t \in Tables |-> SelectSeq(rows[t],
                LAMBDA v : v.owner = o /\ v.create = PENDING)],
     del |-> [t \in Tables |-> {rows[t][i].vid : i \in
                {j \in DOMAIN rows[t] : rows[t][j].owner = o /\ rows[t][j].del = PENDING}}]]

\* append_wal by the leader, then its batch stamped or discarded: two steps,
\* with readers and writers in between.  Len(wal) > committed says which.
Flushed == Len(wal) > committed
AppendWal ==
    /\ queue # <<>> /\ ~Flushed /\ Len(wal) < MaxLsn
    /\ wal' = Append(wal, RecordsOf(Head(queue)))
    /\ UNCHANGED <<rows, nextVid, committed, index, lane, queue, nextOwner, pages,
                   frames, crashes>>
AppendFails ==
    /\ queue # <<>> /\ ~Flushed
    /\ RollbackOwner(Head(queue))
    /\ queue' = Tail(queue)
    /\ UNCHANGED <<nextVid, committed, lane, nextOwner, wal, pages, frames, crashes>>

\* finalize_owner under the store's write lock.
Stamp(v, o, lsn) ==
    IF v.owner # o THEN v
    ELSE [v EXCEPT !.create = IF @ = PENDING THEN lsn ELSE @,
                   !.del = IF @ = PENDING THEN lsn ELSE @, !.owner = None]
FinalizeOwner(o, lsn) ==
    LET R == [t \in Tables |-> [i \in DOMAIN rows[t] |-> Stamp(rows[t][i], o, lsn)]]
        deleted == RecordsOf(o).del
    IN /\ rows' = R
       /\ index' = IF index.tab \in Tables /\ deleted[index.tab] # {}
                   THEN ApplyIndexDeletes(index, R[index.tab], deleted[index.tab], lsn)
                   ELSE index

Finalize ==
    /\ Flushed
    /\ FinalizeOwner(Head(queue), Len(wal))
    /\ committed' = Len(wal)
    /\ queue' = Tail(queue)
    /\ UNCHANGED <<nextVid, lane, nextOwner, wal, pages, frames, crashes>>

-----------------------------------------------------------------------------
(* DDL, the checkpoint and the cold open.                                   *)

\* exec_ddl: the lane held and the commit queue drained (quiesce).
Quiesced == LaneFree /\ queue = <<>>

\* do_create_index: logged, built and published; its frames are then put with
\* the lane still held.
CreateIndex(t) ==
    /\ Quiesced /\ index = NoIndex /\ Len(wal) < MaxLsn
    /\ wal' = Append(wal, [kind |-> "create", tab |-> t])
    /\ index' = PopulateIndex(New(t), rows[t])
    /\ committed' = Len(wal')
    /\ frames' = [at |-> 1, todo |-> ToPageFrames(index', Len(wal'))]
    /\ UNCHANGED <<rows, nextVid, lane, queue, nextOwner, pages, crashes>>

\* put_page of the next frame; the pages of an earlier checkpoint that it does
\* not overwrite stay.
PutPage ==
    /\ frames # NoFrames
    /\ pages' = [p \in 1..Max({Len(pages), frames.at}) |->
                   IF p = frames.at THEN Head(frames.todo) ELSE pages[p]]
    /\ frames' = IF Len(frames.todo) = 1 THEN NoFrames
                 ELSE [at |-> frames.at + 1, todo |-> Tail(frames.todo)]
    /\ UNCHANGED <<rows, nextVid, committed, index, lane, queue, nextOwner, wal, crashes>>

\* A put that fails ends the checkpoint: it is best effort.
PutPageFails ==
    /\ frames # NoFrames
    /\ frames' = NoFrames
    /\ UNCHANGED <<rows, nextVid, committed, index, lane, queue, nextOwner, wal, pages,
                   crashes>>

DropIndex ==
    /\ Quiesced /\ index # NoIndex /\ Len(wal) < MaxLsn
    /\ wal' = Append(wal, [kind |-> "drop"])
    /\ index' = NoIndex
    /\ committed' = Len(wal')
    /\ UNCHANGED <<rows, nextVid, lane, queue, nextOwner, pages, frames, crashes>>

\* replay: the rows the log describes, version ids going on from the highest.
ReplayEntry(R, lsn) ==
    LET e == wal[lsn]
        all(t) == R[t] \o [i \in DOMAIN e.ins[t] |->
                     [e.ins[t][i] EXCEPT !.create = lsn, !.del = 0, !.owner = None]]
    IN IF e.kind # "rows" THEN R
       ELSE [t \in Tables |-> [i \in DOMAIN all(t) |->
               IF all(t)[i].vid \in e.del[t] THEN [all(t)[i] EXCEPT !.del = lsn]
               ELSE all(t)[i]]]
Replayed == FoldLeft(ReplayEntry, [t \in Tables |-> <<>>], [i \in DOMAIN wal |-> i])
ReplayedDef ==
    LET ddl == {i \in DOMAIN wal : wal[i].kind # "rows"}
    IN IF ddl = {} \/ wal[Max(ddl)].kind = "drop" THEN "none" ELSE wal[Max(ddl)].tab

\* warm_vector_indexes: the checkpoint when it is of this head, else a rebuild.
WarmVectorIndex(t, R, head) ==
    LET loaded == LoadIndexPages(t, pages, head)
    IN IF t = "none" THEN NoIndex
       ELSE IF loaded # NoIndex THEN loaded ELSE RebuildOneIndex(t, R[t], head)

\* The process dies and the database is opened again.
Crash ==
    /\ crashes < MaxCrashes
    /\ crashes' = crashes + 1
    /\ rows' = Replayed
    /\ nextVid' = [t \in Tables |->
          1 + Max({0} \cup {rows'[t][i].vid : i \in DOMAIN rows'[t]})]
    /\ committed' = Len(wal)
    /\ index' = WarmVectorIndex(ReplayedDef, rows', Len(wal))
    /\ Release
    /\ queue' = <<>>
    /\ frames' = NoFrames
    /\ UNCHANGED <<nextOwner, wal, pages>>

Next ==
    \/ \E s \in 0..committed : AcquireLane(s)
    \/ \E t \in Tables, x \in Vecs : InsertRow(t, x)
    \/ \E t \in Tables : \E i \in DOMAIN rows[t] : DeleteRow(t, i)
    \/ Commit \/ Rollback
    \/ AppendWal \/ AppendFails \/ Finalize
    \/ \E t \in Tables : CreateIndex(t)
    \/ DropIndex \/ PutPage \/ PutPageFails
    \/ Crash

Spec == Init /\ [][Next]_vars

-----------------------------------------------------------------------------
(* The two access paths of SELECT ... ORDER BY vec <-> q LIMIT k.           *)

\* knn_select takes the index: it has nodes and serves this snapshot.
UsesIndex(t, s) ==
    index.tab = t /\ Present(index) # {} /\ s >= index.floor

\* How many nodes it asks the index for.
Fetch(k) ==
    LET total == Cardinality(Present(index))
        live == Max({1, LiveLen(index)})
        base == Max({k * Overfetch, EfSearch})
    IN Min({(base * total + live - 1) \div live, total})

Version(t, vid) == SelectSeq(rows[t], LAMBDA v : v.vid = vid)

\* The versions the index answers with, nearest first, and of these the first k
\* the reader may see.
Hits(t, q, k) ==
    LET vids == Search(index, q, Fetch(k))
    IN FlattenSeq([i \in DOMAIN vids |-> Version(t, vids[i])])
KnnSelect(hits, k, s, me) ==
    LET seen == SelectSeq(hits, LAMBDA v : RowVisible(v, s, me))
    IN SubSeq(seen, 1, Min({k, Len(seen)}))

\* The scan, sorted by distance.
ScanSelect(t, q, k, s, me) ==
    LET seen == {i \in DOMAIN rows[t] : RowVisible(rows[t][i], s, me)}
        nearer(i, j) == LET d == Dist(q, rows[t][i].vec)  e == Dist(q, rows[t][j].vec)
                        IN d < e \/ (d = e /\ i < j)
    IN [n \in 1..Min({k, Cardinality(seen)}) |->
          rows[t][CHOOSE i \in seen :
                    Cardinality({j \in seen : nearer(j, i)}) = n - 1]]

-----------------------------------------------------------------------------
(* Properties.                                                              *)

\* The page checkpoint a reopen would adopt right now holds a node for every
\* version the log gives the indexed table, with its vector.
AdoptionHoldsTheRows ==
    LET t == ReplayedDef
        ix == LoadIndexPages(t, pages, Len(wal))
        R == Replayed[t]
    IN (t # "none" /\ ix # NoIndex) =>
         {<<ix.nodes[i].vid, ix.nodes[i].vec>> : i \in Present(ix)} =
           {<<R[i].vid, R[i].vec>> : i \in DOMAIN R}

OneTableIndexed ==
    \A i, j \in DOMAIN wal :
      (wal[i].kind = "create" /\ wal[j].kind = "create") => wal[i].tab = wal[j].tab


\* What vector.rs:661-663 says of from_page_frames: a partial checkpoint falls back
\* to a rebuild from the rows, so that the graph adopted is always that of the rows.
\* Violated: behind a new header the body pages of an earlier index of the same
\* name, over another table, count as the missing ones.
TornIsRefused == AdoptionHoldsTheRows

\* Whenever a nearest-neighbour query is answered from the index, by a reader at
\* any snapshot it may still hold or by the writer in the lane, its rows are at
\* the distances the scan would give: through rollbacks that tombstone nodes,
\* deletes that mark them, compactions that drop them, and a reopen that adopts
\* a page checkpoint instead of the rows (exec.rs knn_select).  It is about graphs
\* of up to 2M+1 nodes and a search width that spans them: beyond those the index is
\* approximate (KnnSurfacesLive).
KnnMatchesScan ==
    \A t \in Tables, q \in Vecs, k \in 1..MaxVid :
      index.tab = t =>
        LET hits == Hits(t, q, k)
        IN \A s \in 0..committed :
           \A me \in {None, IF s = lane.snap THEN lane.owner ELSE None} :
             UsesIndex(t, s) =>
               LET got == KnnSelect(hits, k, s, me)  want == ScanSelect(t, q, k, s, me)
               IN /\ Len(got) = Len(want)
                  /\ \A i \in DOMAIN got : Dist(q, got[i].vec) = Dist(q, want[i].vec)

\* What exec.rs:1355-1358 says of the widened fetch: it surfaces k live results, or
\* all there are.  Violated: a node's links are cut to the nearest (prune), so a
\* row far from all the others can lose its last inbound link, and neither the
\* search nor a fallback finds it.
KnnSurfacesLive ==
    \A t \in Tables, q \in Vecs, k \in 1..MaxVid :
      UsesIndex(t, committed) =>
        Len(KnnSelect(Hits(t, q, k), k, committed, None)) =
          Len(ScanSelect(t, q, k, committed, None))
=============================================================================
