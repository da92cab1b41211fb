----------------------------- MODULE PageStore -----------------------------
(***************************************************************************)
(* The page tree of ObjectStorage (storage/src/object/mod.rs): a memtable, *)
(* immutable delta layers, one image layer at the retention floor, flush,  *)
(* compaction, garbage collection and recovery from the bucket.  The       *)
(* commit log, its slots and its fence are module ObjectLog's; here an     *)
(* append is one step that adds one item to the durable log.               *)
(*                                                                         *)
(* flush, compact and recover run under the handle's lock and are one step *)
(* each.  get_page drops the lock before it loads layers, and gc before it *)
(* deletes objects: those go on one object at a time.                      *)
(***************************************************************************)
EXTENDS Naturals, Sequences, FiniteSets, FiniteSetsExt

CONSTANTS
    Pages, Readers,
    Wal, Pending, Failed,     \* values that are neither pages nor LSNs
    flush_threshold,          \* Config.flush_threshold_bytes, in records
    FloorSlack,               \* how far above the durable LSN a floor is set
    ImageFaults,              \* whether the answer to an image put may be lost
    MaxLsn, MaxReads, MaxGc, MaxFaults, MaxCrashes   \* bounds

ASSUME PageStoreBounds ==
    /\ flush_threshold \in Nat \ {0}
    /\ {FloorSlack, MaxLsn, MaxReads, MaxGc, MaxFaults, MaxCrashes} \subseteq Nat
    /\ ImageFaults \in BOOLEAN
    /\ Wal \notin Pages

VARIABLES
    log,        \* durable: the items of the log segments, in LSN order
    bucket,     \* durable: delta and image objects, name -> records
    floorObj,   \* durable: the retention object
    memtable, flushedHw, deltas, image, floor,       \* Inner
    cache,      \* parsed layers, name -> records
    reader,     \* get_page calls
    victims,    \* objects gc has still to delete
    count       \* what the bounds count

durable == <<log, bucket, floorObj>>
inner   == <<memtable, flushedHw, deltas, image, floor>>
vars    == <<durable, inner, cache, reader, victims, count>>

Contract == INSTANCE StorageContract
    WITH hist <- log,
         reads <- [r \in Readers |-> [want |-> reader[r].want, got |-> reader[r].got]]

durable_lsn == Len(log)

\* Layer names: delta_key(lo, hi) and image_key(lsn).
Delta(lo, hi) == [kind |-> "delta", lo |-> lo, hi |-> hi]
Image(l)      == [kind |-> "image", lo |-> 0, hi |-> l]
NoImage       == Image(0)

\* best_in: the version of p at or before q among some records.
Best(recs, p, q) == Max({x.lsn : x \in {y \in recs : y.page = p /\ y.lsn <= q}} \cup {0})

AtRest == [pc |-> "idle", page |-> Wal, query |-> 0, todo |-> {}, image |-> NoImage,
           want |-> 0, got |-> 0]

Init ==
    /\ log = <<>> /\ floorObj = 0 /\ floor = 0
    /\ bucket = [n \in {} |-> {}] /\ cache = [n \in {} |-> {}]
    /\ memtable = {} /\ flushedHw = 0 /\ deltas = {} /\ image = NoImage
    /\ reader = [r \in Readers |-> AtRest]
    /\ victims = {}
    /\ count = [reads |-> 0, gc |-> 0, faults |-> 0, crashes |-> 0]

Count(f, bound) == count[f] < bound /\ count' = [count EXCEPT ![f] = @ + 1]

\* An object written to the bucket.
Put(name, recs) == [n \in DOMAIN bucket \cup {name} |-> IF n = name THEN recs ELSE bucket[n]]

(* ------------------------------- flush --------------------------------- *)

\* flush_locked: the memtable m becomes a delta layer that ends at LSN hi.
FlushLocked(m, hi) ==
    LET name == Delta(flushedHw + 1, hi)
    IN  IF m = {} THEN UNCHANGED <<bucket, memtable, flushedHw, deltas>>
        ELSE /\ name \notin DOMAIN bucket
             /\ bucket' = Put(name, m)
             /\ deltas' = deltas \cup {name}
             /\ flushedHw' = hi
             /\ memtable' = {}

\* The put of the layer is refused (the name is taken), fails, or is applied
\* and its answer lost: the memtable stays as it is.
FlushFails(m, hi) ==
    LET name == Delta(flushedHw + 1, hi)
    IN  /\ m # {}
        /\ \/ name \in DOMAIN bucket /\ UNCHANGED <<bucket, count>>
           \/ Count("faults", MaxFaults) /\ UNCHANGED bucket
           \/ /\ Count("faults", MaxFaults)
              /\ name \notin DOMAIN bucket
              /\ bucket' = Put(name, m)
        /\ memtable' = m
        /\ UNCHANGED <<flushedHw, deltas>>

\* append_segment once its segment is durable: an item takes the next LSN, a
\* page enters the memtable, and a memtable over the threshold is flushed.
\* When that flush fails the call returns an error for a durable item.
AppendSegment(i) ==
    LET lsn == durable_lsn + 1
        m   == IF i = Wal THEN memtable ELSE memtable \cup {[page |-> i, lsn |-> lsn]}
    IN  /\ lsn <= MaxLsn
        /\ log' = Append(log, i)
        /\ IF Cardinality(m) >= flush_threshold
           THEN \/ FlushLocked(m, lsn) /\ UNCHANGED count
                \/ FlushFails(m, lsn)
           ELSE memtable' = m /\ UNCHANGED <<bucket, flushedHw, deltas, count>>
        /\ UNCHANGED <<floorObj, image, floor, cache, reader, victims>>

Flush ==
    /\ memtable # {}
    /\ \/ FlushLocked(memtable, durable_lsn) /\ UNCHANGED count
       \/ FlushFails(memtable, durable_lsn)
    /\ UNCHANGED <<log, floorObj, image, floor, cache, reader, victims>>

(* ----------------------- compaction and collection ---------------------- *)

\* set_retention_floor: never below the handle's floor; the object is written first,
\* and when the answer to that put is lost the handle keeps the floor it has.
SetRetentionFloor(l) ==
    /\ l >= floor /\ l <= durable_lsn + FloorSlack
    /\ floorObj' = l
    /\ \/ floor' = l /\ UNCHANGED count
       \/ Count("faults", MaxFaults) /\ UNCHANGED floor
    /\ UNCHANGED <<log, bucket, memtable, flushedHw, deltas, image, cache, reader,
                   victims>>

\* What load_layer reads: the cache, else the object.
Loaded(n) == IF n \in DOMAIN cache THEN cache[n] ELSE bucket[n]
Present(n) == n \in DOMAIN cache \/ n \in DOMAIN bucket
Cached(ns) == [n \in ns \cup DOMAIN cache |-> Loaded(n)]

\* merge_keep_greatest over the old image and the deltas, up to the floor.
Merged(recs) ==
    {x \in recs : x.lsn <= floor /\ x.lsn = Best(recs, x.page, floor)}

\* Mutant: a layer that starts at or below the floor is dropped whole.
DropsStraddling(ds) == {d \in ds : d.lo > floor}

\* Layers that reach above the floor stay live.
Retained(ds) == {d \in ds : d.hi > floor}

Live == deltas \cup IF image = NoImage THEN {} ELSE {image}

\* compact: everything at or below the floor is folded into an image layer that
\* replaces the deltas it covers.  The flush_locked it begins with is the step
\* Flush before it: the states in between are those after a flush of its own.
Compact ==
    /\ memtable = {} /\ floor # 0
    /\ \A n \in Live : Present(n)
    /\ LET recs == UNION {Loaded(n) : n \in Live}
       IN  /\ bucket' = Put(Image(floor), Merged(recs))
           /\ \/ /\ deltas' = Retained(deltas)
                 /\ image' = Image(floor)
                 /\ UNCHANGED count
              \/ /\ ImageFaults /\ Count("faults", MaxFaults)
                 /\ UNCHANGED <<deltas, image>>
    /\ cache' = Cached(Live)
    /\ UNCHANGED <<log, floorObj, memtable, flushedHw, floor, reader, victims>>

\* gc under the lock: objects that are not in the live set ...
Gc ==
    /\ victims = {}
    /\ DOMAIN bucket \ Live # {}
    /\ Count("gc", MaxGc)
    /\ victims' = DOMAIN bucket \ Live
    /\ UNCHANGED <<durable, inner, cache, reader>>

\* The order list returns names in: deltas by lo and hi, then images.  All
\* bindings sort; the trait ObjectStore does not ask for it.
Before(m, n) ==
    \/ m.kind = "delta" /\ n.kind = "image"
    \/ m.kind = n.kind /\ (m.lo < n.lo \/ (m.lo = n.lo /\ m.hi < n.hi))

\* Mutant: the listing is not sorted.
AnyVictim(n) == n \in victims

NextVictim(n) == n \in victims /\ \A m \in victims \ {n} : Before(n, m)

\* ... which it deletes one by one once the lock is dropped.
GcDelete(n) ==
    /\ NextVictim(n)
    /\ victims' = victims \ {n}
    /\ bucket' = [m \in DOMAIN bucket \ {n} |-> bucket[m]]
    /\ cache' = [m \in DOMAIN cache \ {n} |-> cache[m]]
    /\ UNCHANGED <<log, floorObj, inner, reader, count>>

(* ------------------------------ get_page ------------------------------- *)

Told(r, v) == reader' = [reader EXCEPT ![r] = [AtRest EXCEPT !.want = reader[r].want, !.got = v]]

\* get_page, under the lock: refused below the floor, answered from the
\* memtable if it has a version, else the layers to search are picked.
GetPage(r, p, q) ==
    /\ reader[r].pc = "idle"
    /\ q >= floor /\ q <= durable_lsn + 1
    /\ Count("reads", MaxReads)
    /\ LET want == Contract!AtOrBefore(log, p, q)
           hit  == Best(memtable, p, q)
       IN  reader' = [reader EXCEPT ![r] =
               IF hit # 0 THEN [AtRest EXCEPT !.want = want, !.got = hit]
               ELSE [pc |-> "deltas", page |-> p, query |-> q, image |-> image,
                     todo |-> {d \in deltas : d.lo <= q}, want |-> want, got |-> Pending]]
    /\ UNCHANGED <<durable, inner, cache, victims>>

\* The next delta, newest first.
ReadDelta(r) ==
    LET d == CHOOSE x \in reader[r].todo : \A y \in reader[r].todo : y.hi <= x.hi
        v == Best(Loaded(d), reader[r].page, reader[r].query)
    IN  /\ reader[r].pc = "deltas" /\ reader[r].todo # {}
        /\ IF ~Present(d) THEN Told(r, Failed) /\ UNCHANGED cache
           ELSE /\ cache' = Cached({d})
                /\ IF v # 0 THEN Told(r, v)
                   ELSE reader' = [reader EXCEPT ![r].todo = @ \ {d}]
        /\ UNCHANGED <<durable, inner, victims, count>>

\* No delta has it: the image layer, if it is not above the LSN asked for.
ReadImage(r) ==
    LET n == reader[r].image
        q == reader[r].query
    IN  /\ reader[r].pc = "deltas" /\ reader[r].todo = {}
        /\ IF n = NoImage \/ n.hi > q THEN Told(r, 0) /\ UNCHANGED cache
           ELSE IF ~Present(n) THEN Told(r, Failed) /\ UNCHANGED cache
           ELSE Told(r, Best(Loaded(n), reader[r].page, q)) /\ cache' = Cached({n})
        /\ UNCHANGED <<durable, inner, victims, count>>

(* ------------------------------ recovery ------------------------------- *)

\* discover_layers and replay_log: the state an open rebuilds from the bucket.
Discovered ==
    LET ds  == {n \in DOMAIN bucket : n.kind = "delta"}
        ims == {n \in DOMAIN bucket : n.kind = "image"}
        hw  == Max({n.hi : n \in DOMAIN bucket} \cup {0})
    IN  [deltas    |-> ds,
         image     |-> Image(Max({n.hi : n \in ims} \cup {0})),
         flushedHw |-> hw,
         memtable  |-> {[page |-> log[l], lsn |-> l] :
                           l \in {k \in DOMAIN log : k > hw /\ log[k] # Wal}}]

\* A crash ends every call; the next open recovers.
CrashAndReopen ==
    /\ Count("crashes", MaxCrashes)
    /\ deltas' = Discovered.deltas
    /\ image' = Discovered.image
    /\ flushedHw' = Discovered.flushedHw
    /\ memtable' = Discovered.memtable
    /\ floor' = floorObj
    /\ cache' = [n \in {} |-> {}]
    /\ victims' = {}
    /\ reader' = [r \in Readers |-> AtRest]
    /\ UNCHANGED durable

Rest ==
    /\ durable_lsn = MaxLsn /\ victims = {}
    /\ \A r \in Readers : reader[r].pc = "idle"
    /\ UNCHANGED vars

Next ==
    \/ \E i \in Pages \cup {Wal} : AppendSegment(i)
    \/ Flush \/ Compact \/ Gc \/ CrashAndReopen \/ Rest
    \/ \E l \in 0 .. MaxLsn + FloorSlack : SetRetentionFloor(l)
    \/ \E n \in victims : GcDelete(n)
    \/ \E r \in Readers :
          \/ \E p \in Pages, q \in 0 .. MaxLsn + 1 : GetPage(r, p, q)
          \/ ReadDelta(r) \/ ReadImage(r)

Spec == Init /\ [][Next]_vars

(* ----------------------------- properties ------------------------------ *)

\* The page tree implements the contract of the trait Storage: a read whose
\* lock was dropped while layers were flushed, compacted, collected or lost in
\* a crash returns the version at or before its LSN, or an error.
ImplementsContract == Contract!CSpec

\* The version a search through given layers finds, as get_page does.
Found(m, ds, im, p, q) ==
    LET hits == {d \in ds : d.lo <= q /\ Best(bucket[d], p, q) # 0}
        top  == CHOOSE d \in hits : \A e \in hits : e.hi <= d.hi
    IN  IF Best(m, p, q) # 0 THEN Best(m, p, q)
        ELSE IF hits # {} THEN Best(bucket[top], p, q)
        ELSE IF im = NoImage \/ im.hi > q THEN 0 ELSE Best(bucket[im], p, q)

\* Whatever was flushed, folded, half collected or left behind by a failed
\* put, a crash now loses no page version at or above the retention floor.
CrashLosesNothing ==
    \A p \in Pages, q \in floorObj .. durable_lsn :
        Found(Discovered.memtable, Discovered.deltas, Discovered.image, p, q)
            = Contract!AtOrBefore(log, p, q)

\* gc claims to be safe for every read at or above the floor ("Safe by
\* construction"): no such read fails for a missing layer.
NoReadLosesItsLayer == \A r \in Readers : reader[r].got # Failed
=============================================================================
