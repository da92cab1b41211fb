-------------------------- MODULE PageStoreProofs --------------------------
(***************************************************************************)
(* Proofs about the page tree, for any pages, readers, threshold and       *)
(* bounds: a crash loses no page version at or above the retention floor,  *)
(* and the tree implements the contract of the trait Storage.  Both are    *)
(* about floors not above the durable LSN (FloorSlack = 0) and image puts  *)
(* whose answers arrive (ImageFaults = FALSE), as in the run page_store.   *)
(***************************************************************************)
EXTENDS PageStore, InductionLemmas, TLAPS

Items == Pages \cup {Wal}
Record == [page : Pages, lsn : Nat]

\* The page versions of a history h with LSNs in lo..hi, ...
Version(h, l) == [page |-> h[l], lsn |-> l]
Versions(h, lo, hi) == {Version(h, l) : l \in {k \in lo..hi : h[k] # Wal}}

\* ... and the newest one of each page among the first k.
IsNewest(h, l, k) == h[l] # Wal /\ \A i \in (l + 1)..k : h[i] # h[l]
Folded(h, k) == {Version(h, l) : l \in {j \in 1..k : IsNewest(h, j, k)}}

\* Layers are named for what they hold.
DeltaNames(k) == {d \in [kind : {"delta"}, lo : Nat, hi : Nat] :
                    1 <= d.lo /\ d.lo <= d.hi /\ d.hi <= k}
ImageNames(k) == {i \in [kind : {"image"}, lo : {0}, hi : Nat] : 1 <= i.hi /\ i.hi <= k}
Names == DeltaNames(Len(log)) \cup ImageNames(floor)

Content(h, n) == IF n.kind = "delta" THEN Versions(h, n.lo, n.hi) ELSE Folded(h, n.hi)
Exact(f) == \A n \in DOMAIN f : f[n] = Content(log, n)

\* The delta layers in the bucket, the handle's own and those it has forgotten.
Stored == {n \in DOMAIN bucket : n.kind = "delta"}

Holds(d, l) == d.lo <= l /\ l <= d.hi

ReaderType ==
    [pc : {"idle", "deltas"}, page : Items, query : Nat,
     todo : SUBSET DeltaNames(Len(log)), image : ImageNames(floor) \cup {NoImage},
     want : Nat, got : Nat \cup {Pending, Failed}]

\* Types: the names in the bucket, the cache and the handle are those of layers
\* of this log, and gc has no live layer among its victims.
TypeInv ==
    /\ log \in Seq(Items)
    /\ floor \in Nat /\ floorObj \in Nat /\ floor <= Len(log)
    /\ floor <= floorObj /\ floorObj <= Len(log)
    /\ flushedHw \in Nat /\ flushedHw <= Len(log)
    /\ DOMAIN bucket \subseteq Names /\ DOMAIN cache \subseteq Names
    /\ deltas \subseteq Stored
    /\ image = NoImage \/ image \in DOMAIN bucket \cap ImageNames(floor)
    /\ victims \subseteq DOMAIN bucket /\ victims \cap Live = {}
    /\ reader \in [Readers -> ReaderType]

\* The memtable is the log above the last flush, and a layer of a given name
\* holds the same records wherever and whenever it is read.
ContentInv ==
    /\ memtable = Versions(log, flushedHw + 1, Len(log))
    /\ Exact(bucket) /\ Exact(cache)

\* The live image is the newest; above the last flush it folded only WAL records.
ImageInv ==
    /\ \A n \in DOMAIN bucket : n.kind = "image" => n.hi <= image.hi
    /\ \A l \in (flushedHw + 1)..image.hi : log[l] = Wal

\* Deltas that start at different LSNs do not overlap; one that was put without
\* the handle knowing starts where its next flush does.
OrderInv ==
    /\ \A d \in Stored : d.lo = flushedHw + 1 \/ d.hi <= flushedHw
    /\ \A d, e \in Stored : d.lo < e.lo => d.hi < e.lo

\* A flushed version is in a delta of ds, or it is folded into the image and no
\* delta of ds holds an older one.
Covered(ds) ==
    \A l \in 1..flushedHw :
        log[l] # Wal => \/ \E d \in ds : Holds(d, l)
                        \/ l <= image.hi /\ \A e \in ds : l < e.lo

CoverInv == Covered(deltas) /\ Covered(Stored)

\* Deleting a layer of vs before those of ds uncovers nothing: none of ds comes
\* before it, or one of ds holds all that it holds.
Shielded(vs, ds) ==
    \A n \in vs :
        n.lo <= flushedHw => \/ \A e \in ds : ~Before(e, n)
                             \/ \E d \in ds : d.lo = n.lo /\ n.hi < d.hi

GcInv ==
    /\ Shielded(Stored \ deltas, deltas)
    /\ Shielded(Stored \cap victims, Stored \ victims)

\* What a get_page that has dropped the lock will find in the layers it picked.
VersionIn(h, x, p, q) == \E l \in x.lo..x.hi : h[l] = p /\ l <= q

Searching(h, x) ==
    /\ x.page \in Pages /\ x.got = Pending /\ x.image.hi <= x.query
    /\ \A d \in x.todo : \A l \in d.lo..d.hi : h[l] = x.page /\ l <= x.query => l <= x.want
    /\ \A l \in 1..x.image.hi : h[l] = x.page => l <= x.want
    /\ x.want # 0 => x.want \in DOMAIN h /\ h[x.want] = x.page /\ x.want <= x.query
    /\ \/ x.want # 0 /\ \E d \in x.todo : Holds(d, x.want)
       \/ x.want <= x.image.hi /\ \A d \in x.todo : ~VersionIn(h, d, x.page, x.query)

ReadInv == \A r \in Readers : reader[r].pc = "deltas" => Searching(log, reader[r])

PageInv ==
    /\ TypeInv
    /\ ContentInv
    /\ ImageInv
    /\ OrderInv
    /\ CoverInv
    /\ GcInv
    /\ ReadInv

-----------------------------------------------------------------------------
(* Histories and searches.                                                  *)

\* g continues the history h.
Grown(h, g) == g \in Seq(Items) /\ Len(h) <= Len(g) /\ \A l \in 1..Len(h) : g[l] = h[l]

\* The versions of p at or before q that a history has in lo..hi, and what it
\* means to be the greatest of a set of LSNs, or 0 if there is none.
At(h, p, q, lo, hi) == {l \in lo..hi : h[l] = p /\ l <= q}
IsBest(b, S) == b \in Nat /\ (b = 0 \/ b \in S) /\ \A l \in S : l <= b

\* The greatest is unique.
LEMMA BestUnique ==
    ASSUME NEW S, S \subseteq Nat \ {0}, NEW a, IsBest(a, S), NEW b, IsBest(b, S)
    PROVE  a = b
BY DEF IsBest

\* best_in returns the greatest LSN among the records it is given.
LEMMA BestInRecords ==
    ASSUME NEW recs, NEW p, NEW q \in Nat, NEW k \in Nat,
           \A x \in recs : x.lsn \in Nat /\ x.lsn <= k
    PROVE  IsBest(Best(recs, p, q), {x.lsn : x \in {y \in recs : y.page = p /\ y.lsn <= q}})
<1> DEFINE S == {x.lsn : x \in {y \in recs : y.page = p /\ y.lsn <= q}}
           T == S \cup {0}
<1>1. T \subseteq Nat /\ T # {} /\ \A x \in T : x <= k
  OBVIOUS
<1>2. Best(recs, p, q) = Max(T)
  BY DEF Best
<1> HIDE DEF S
<1>3. \A x \in S : x \in T
  OBVIOUS
<1>4. \A x \in T : x \in S \/ x = 0
  OBVIOUS
<1> HIDE DEF T
<1>5. Max(T) \in T /\ \A y \in T : y <= Max(T)
  BY <1>1, MaxOfBounded
<1>6. IsBest(Max(T), S)
  BY <1>1, <1>3, <1>4, <1>5 DEF IsBest
<1> QED BY <1>2, <1>6 DEF S

\* In a delta layer, which holds every version of its range.
LEMMA BestInDelta ==
    ASSUME NEW h \in Seq(Items), NEW lo \in Nat, NEW hi \in Nat, 1 <= lo, hi <= Len(h),
           NEW p \in Pages, NEW q \in Nat
    PROVE  IsBest(Best(Versions(h, lo, hi), p, q), At(h, p, q, lo, hi))
<1> DEFINE recs == Versions(h, lo, hi)
           S == {x.lsn : x \in {y \in recs : y.page = p /\ y.lsn <= q}}
<1>1. \A x \in recs : x.lsn \in Nat /\ x.lsn <= hi
  BY DEF Versions, Version
<1>2. S = At(h, p, q, lo, hi)
  <2>1. ASSUME NEW l \in At(h, p, q, lo, hi) PROVE l \in S
    <3>1. l \in lo..hi /\ h[l] = p /\ l <= q /\ h[l] # Wal
      BY PageStoreBounds DEF At
    <3>2. Version(h, l) \in recs
      BY <3>1 DEF Versions
    <3>3. Version(h, l).page = p /\ Version(h, l).lsn = l
      BY <3>1 DEF Version
    <3> QED BY <3>1, <3>2, <3>3
  <2>2. ASSUME NEW l \in S PROVE l \in At(h, p, q, lo, hi)
    <3>1. PICK x \in recs : x.page = p /\ x.lsn <= q /\ x.lsn = l
      OBVIOUS
    <3>2. PICK k \in lo..hi : x = Version(h, k)
      BY DEF Versions
    <3> QED BY <3>1, <3>2 DEF Version, At
  <2> QED BY <2>1, <2>2
<1> HIDE DEF recs
<1> QED BY <1>1, <1>2, BestInRecords DEF recs

\* In an image layer, which holds the newest version of each page.
LEMMA BestInImage ==
    ASSUME NEW h \in Seq(Items), NEW k \in Nat, k <= Len(h),
           NEW p \in Pages, NEW q \in Nat, k <= q
    PROVE  IsBest(Best(Folded(h, k), p, q), At(h, p, q, 1, k))
<1> DEFINE recs == Folded(h, k)
           S == {x.lsn : x \in {y \in recs : y.page = p /\ y.lsn <= q}}
           b == Best(recs, p, q)
<1>1. \A x \in recs : x.lsn \in Nat /\ x.lsn <= k
  BY DEF Folded, Version
<1>2. \A l \in S : l \in At(h, p, q, 1, k)
  <2> TAKE l \in S
  <2>1. PICK x \in recs : x.page = p /\ x.lsn <= q /\ x.lsn = l
    OBVIOUS
  <2>2. PICK j \in 1..k : x = Version(h, j)
    BY DEF Folded
  <2> QED BY <2>1, <2>2 DEF Version, At
<1>3. IsBest(b, S)
  <2> HIDE DEF recs
  <2> QED BY <1>1, BestInRecords
<1>4. ASSUME NEW l \in At(h, p, q, 1, k) PROVE l <= b
  <2> DEFINE T == At(h, p, q, 1, k)
  <2>1. T \subseteq Nat /\ T # {} /\ \A x \in T : x <= k
    BY DEF At
  <2>2. PICK j \in T : \A y \in T : y <= j
    <3> HIDE DEF T
    <3> QED BY <2>1, GreatestNat
  <2>3. j \in 1..k /\ h[j] = p /\ j <= q
    BY DEF At
  <2>4. IsNewest(h, j, k)
    <3>1. ASSUME NEW i \in (j + 1)..k, h[i] = p PROVE FALSE
      <4>1. i \in T
        BY <2>3, <3>1 DEF At
      <4> QED BY <2>2, <2>3, <4>1
    <3> QED BY <2>3, <3>1, PageStoreBounds DEF IsNewest
  <2>5. Version(h, j) \in recs
    BY <2>3, <2>4 DEF Folded
  <2>6. j \in S
    BY <2>3, <2>5 DEF Version
  <2>7. j <= b /\ l <= j /\ l \in Nat /\ j \in Nat /\ b \in Nat
    BY <1>3, <2>1, <2>2, <2>6 DEF IsBest
  <2> QED BY <2>7
<1> QED BY <1>2, <1>3, <1>4 DEF IsBest

\* In the whole history: what the contract promises.
LEMMA BestInHistory ==
    ASSUME NEW h \in Seq(Items), NEW p \in Pages, NEW q \in Nat
    PROVE  IsBest(Contract!AtOrBefore(h, p, q), At(h, p, q, 1, Len(h)))
<1> DEFINE S == At(h, p, q, 1, Len(h))
           T == {n \in DOMAIN h : n <= q /\ h[n] = p} \cup {0}
<1>1. T = S \cup {0} /\ Contract!AtOrBefore(h, p, q) = Max(T)
  BY DEF At, Contract!AtOrBefore, Contract!Max, Max
<1>2. S \subseteq Nat /\ \A x \in S : x <= q
  BY DEF At
<1> HIDE DEF S, T
<1>3. T \subseteq Nat /\ T # {} /\ \A x \in T : x <= q
  BY <1>1, <1>2
<1>4. Max(T) \in T /\ \A y \in T : y <= Max(T)
  BY <1>3, MaxOfBounded
<1>5. IsBest(Max(T), S)
  BY <1>1, <1>3, <1>4 DEF IsBest
<1> QED BY <1>1, <1>5 DEF S

\* Layers keep their contents as the log grows.
LEMMA GrownContent ==
    ASSUME NEW h \in Seq(Items), NEW g, Grown(h, g), NEW k \in Nat, k <= Len(h),
           NEW n \in DeltaNames(Len(h)) \cup ImageNames(k)
    PROVE  Content(g, n) = Content(h, n)
<1>0. \A l \in 1..Len(h) : g[l] = h[l]
  BY DEF Grown
<1>1. CASE n \in DeltaNames(Len(h))
  <2>1. n.kind = "delta" /\ n.lo \in Nat /\ n.hi \in Nat /\ 1 <= n.lo /\ n.hi <= Len(h)
    BY <1>1 DEF DeltaNames
  <2>2. \A l \in n.lo..n.hi : l \in 1..Len(h)
    BY <2>1
  <2>3. Versions(g, n.lo, n.hi) = Versions(h, n.lo, n.hi)
    BY <1>0, <2>2 DEF Versions, Version
  <2> QED BY <2>1, <2>3 DEF Content
<1>2. CASE n \in ImageNames(k)
  <2>1. n.kind # "delta" /\ n.hi \in Nat /\ n.hi <= Len(h)
    BY <1>2 DEF ImageNames
  <2>2. \A l \in 1..n.hi : l \in 1..Len(h)
    BY <2>1
  <2>3. \A l \in 1..n.hi : IsNewest(g, l, n.hi) <=> IsNewest(h, l, n.hi)
    <3> TAKE l \in 1..n.hi
    <3>1. \A i \in (l + 1)..n.hi : i \in 1..n.hi
      OBVIOUS
    <3> QED BY <1>0, <2>2, <3>1 DEF IsNewest
  <2>4. Folded(g, n.hi) = Folded(h, n.hi)
    BY <1>0, <2>2, <2>3 DEF Folded, Version
  <2> QED BY <2>1, <2>4 DEF Content
<1> QED BY <1>1, <1>2

-----------------------------------------------------------------------------
(* Appends and flushes.                                                     *)

\* The fields of a layer's name.
LEMMA DeltaFields ==
    ASSUME NEW k, NEW d \in DeltaNames(k)
    PROVE  /\ d.kind = "delta" /\ d.lo \in Nat /\ d.hi \in Nat
           /\ 1 <= d.lo /\ d.lo <= d.hi /\ d.hi <= k
           /\ d = Delta(d.lo, d.hi)
BY DEF DeltaNames, Delta

\* The same for an image.
LEMMA ImageFields ==
    ASSUME NEW k, NEW n \in ImageNames(k)
    PROVE  n.kind = "image" /\ n.hi \in Nat /\ 1 <= n.hi /\ n.hi <= k /\ n = Image(n.hi)
BY DEF ImageNames, Image

\* The names of the two kinds.
LEMMA StoredNames ==
    ASSUME TypeInv
    PROVE  /\ Stored \subseteq DeltaNames(Len(log)) /\ deltas \subseteq DeltaNames(Len(log))
           /\ \A n \in DOMAIN bucket : n.kind = "image" => n \in ImageNames(floor)
           /\ \A n \in DOMAIN bucket : n.kind = "image" \/ n \in Stored
           /\ image.hi \in Nat /\ image.hi <= floor /\ image.kind = "image"
           /\ image = Image(image.hi) /\ (image # NoImage <=> image.hi # 0)
<1>1. \A n \in DOMAIN bucket : n \in DeltaNames(Len(log)) \/ n \in ImageNames(floor)
  BY DEF TypeInv, Names
<1>2. \A n \in DeltaNames(Len(log)) : n.kind = "delta"
  BY DeltaFields
<1>3. \A n \in ImageNames(floor) : n.kind = "image"
  BY ImageFields
<1>4. /\ image.hi \in Nat /\ image.hi <= floor /\ image.kind = "image"
      /\ image = Image(image.hi) /\ (image # NoImage <=> image.hi # 0)
  <2>1. CASE image = NoImage
    BY <2>1 DEF NoImage, Image, TypeInv
  <2>2. CASE image \in ImageNames(floor)
    <3>1. image.hi \in Nat /\ 1 <= image.hi /\ image = Image(image.hi)
      BY <2>2, ImageFields
    <3> QED BY <2>2, <3>1, ImageFields DEF NoImage, Image
  <2> QED BY <2>1, <2>2 DEF TypeInv
<1> QED BY <1>1, <1>2, <1>3, <1>4 DEF Stored, TypeInv

\* What append_segment and flush may do once the log is what it will be: keep the
\* memtable, write it to a layer the handle does not learn of, or flush it.
MemLog == Versions(log', flushedHw + 1, Len(log'))
NewDelta == Delta(flushedHw + 1, Len(log'))

Keeps == memtable' = MemLog /\ UNCHANGED <<bucket, flushedHw, deltas>>

Orphans ==
    /\ MemLog # {} /\ NewDelta \notin DOMAIN bucket
    /\ bucket' = Put(NewDelta, MemLog)
    /\ memtable' = MemLog
    /\ UNCHANGED <<flushedHw, deltas>>

Flushes ==
    /\ MemLog # {} /\ NewDelta \notin DOMAIN bucket
    /\ bucket' = Put(NewDelta, MemLog)
    /\ deltas' = deltas \cup {NewDelta}
    /\ flushedHw' = Len(log')
    /\ memtable' = {}

Writes ==
    /\ Grown(log, log')
    /\ Keeps \/ Orphans \/ Flushes
    /\ UNCHANGED <<floorObj, image, floor, cache, reader, victims>>

\* A flush of m, done or failed.
LEMMA FlushCases ==
    ASSUME MemLog = memtable \/ MemLog # {},
           FlushLocked(MemLog, Len(log')) \/ FlushFails(MemLog, Len(log'))
    PROVE  Keeps \/ Orphans \/ Flushes
<1>1. CASE FlushLocked(MemLog, Len(log'))
  <2>1. CASE MemLog = {}
    BY <1>1, <2>1 DEF FlushLocked, Keeps
  <2>2. CASE MemLog # {}
    BY <1>1, <2>2 DEF FlushLocked, Flushes, NewDelta
  <2> QED BY <2>1, <2>2
<1>2. CASE FlushFails(MemLog, Len(log'))
  BY <1>2 DEF FlushFails, Keeps, Orphans, NewDelta
<1> QED BY <1>1, <1>2

\* append_segment appends one item to the log and to the memtable.
LEMMA AppendWrites ==
    ASSUME TypeInv, ContentInv, NEW i \in Items, AppendSegment(i)
    PROVE  Writes
<1> DEFINE L == Len(log)
           m == IF i = Wal THEN memtable ELSE memtable \cup {[page |-> i, lsn |-> L + 1]}
<1>1. log \in Seq(Items) /\ L \in Nat /\ flushedHw \in Nat /\ flushedHw <= L
  BY DEF TypeInv
<1>2. log' = Append(log, i) /\ UNCHANGED <<floorObj, image, floor, cache, reader, victims>>
  BY DEF AppendSegment
<1>3. log' \in Seq(Items) /\ Len(log') = L + 1 /\ log'[L + 1] = i
      /\ \A l \in 1..L : log'[l] = log[l]
  BY <1>1, <1>2
<1>4. Grown(log, log')
  BY <1>1, <1>3 DEF Grown
<1>5. MemLog = m
  <2>0. MemLog = Versions(log', flushedHw + 1, L + 1) /\ memtable = Versions(log, flushedHw + 1, L)
    BY <1>3 DEF MemLog, ContentInv
  <2>1. \A l \in (flushedHw + 1)..L : l \in 1..L /\ l \in (flushedHw + 1)..(L + 1)
    BY <1>1
  <2>2. \A l \in (flushedHw + 1)..(L + 1) : l \in (flushedHw + 1)..L \/ l = L + 1
    BY <1>1
  <2>3. L + 1 \in (flushedHw + 1)..(L + 1)
    BY <1>1
  <2>4. Version(log', L + 1) = [page |-> i, lsn |-> L + 1]
    BY <1>3 DEF Version
  <2>5. \A l \in (flushedHw + 1)..L : log'[l] = log[l] /\ Version(log', l) = Version(log, l)
    BY <1>3, <2>1 DEF Version
  <2>6. ASSUME NEW x \in MemLog PROVE x \in m
    <3>1. PICK l \in (flushedHw + 1)..(L + 1) : log'[l] # Wal /\ x = Version(log', l)
      BY <2>0 DEF Versions
    <3>2. CASE l = L + 1
      BY <3>1, <3>2, <2>4, <1>3
    <3>3. CASE l \in (flushedHw + 1)..L
      <4>1. x \in memtable
        BY <3>1, <3>3, <2>5, <2>0 DEF Versions
      <4> QED BY <4>1
    <3> QED BY <3>2, <3>3, <2>2
  <2>7. ASSUME NEW x \in m PROVE x \in MemLog
    <3>1. CASE x \in memtable
      <4>1. PICK l \in (flushedHw + 1)..L : log[l] # Wal /\ x = Version(log, l)
        BY <3>1, <2>0 DEF Versions
      <4> QED BY <4>1, <2>0, <2>1, <2>5 DEF Versions
    <3>2. CASE i # Wal /\ x = [page |-> i, lsn |-> L + 1]
      BY <3>2, <2>0, <2>3, <2>4, <1>3 DEF Versions
    <3> QED BY <3>1, <3>2
  <2> QED BY <2>6, <2>7
<1>6. Keeps \/ FlushLocked(MemLog, Len(log')) \/ FlushFails(MemLog, Len(log'))
  BY <1>3, <1>5 DEF AppendSegment, Keeps, durable_lsn
<1>7. MemLog = memtable \/ MemLog # {}
  BY <1>5
<1>8. Keeps \/ Orphans \/ Flushes
  BY <1>6, <1>7, FlushCases
<1> QED BY <1>2, <1>4, <1>8 DEF Writes

\* flush works on the log as it is.
LEMMA FlushWrites ==
    ASSUME TypeInv, ContentInv, Flush
    PROVE  Writes
<1>1. log \in Seq(Items) /\ log' = log /\ UNCHANGED <<floorObj, image, floor, cache, reader, victims>>
  BY DEF TypeInv, Flush
<1>2. Grown(log, log')
  BY <1>1 DEF Grown
<1>3. MemLog = memtable
  BY <1>1 DEF MemLog, ContentInv
<1>4. FlushLocked(MemLog, Len(log')) \/ FlushFails(MemLog, Len(log'))
  BY <1>1, <1>3 DEF Flush, durable_lsn
<1> QED BY <1>1, <1>2, <1>3, <1>4, FlushCases DEF Writes

\* The bucket after a put.
LEMMA PutFields ==
    ASSUME NEW n, NEW recs, bucket' = Put(n, recs)
    PROVE  /\ DOMAIN bucket' = DOMAIN bucket \cup {n} /\ bucket'[n] = recs
           /\ \A m \in DOMAIN bucket \ {n} : bucket'[m] = bucket[m]
BY DEF Put

\* The name an append or a flush gives to its delta.
LEMMA NewDeltaName ==
    ASSUME TypeInv, Writes, ~Keeps
    PROVE  /\ NewDelta \in DeltaNames(Len(log')) /\ NewDelta.kind = "delta"
           /\ NewDelta.lo = flushedHw + 1 /\ NewDelta.hi = Len(log')
           /\ Content(log', NewDelta) = MemLog /\ flushedHw < Len(log')
           /\ bucket' = Put(NewDelta, MemLog) /\ NewDelta \notin DOMAIN bucket
<1>1. MemLog # {} /\ bucket' = Put(NewDelta, MemLog) /\ NewDelta \notin DOMAIN bucket
  BY DEF Writes, Orphans, Flushes
<1>2. flushedHw \in Nat /\ Len(log') \in Nat
  BY DEF TypeInv, Writes, Grown
<1>3. flushedHw + 1 <= Len(log')
  BY <1>1, <1>2 DEF MemLog, Versions
<1>4. /\ NewDelta.lo = flushedHw + 1 /\ NewDelta.hi = Len(log') /\ NewDelta.kind = "delta"
      /\ NewDelta \in [kind : {"delta"}, lo : Nat, hi : Nat]
  BY <1>2 DEF NewDelta, Delta
<1> QED BY <1>1, <1>2, <1>3, <1>4 DEF DeltaNames, Content, MemLog

\* The history grows and what is known of its beginning stays.
LEMMA WritesGrown ==
    ASSUME TypeInv, Writes
    PROVE  /\ log' \in Seq(Items) /\ Len(log) \in Nat /\ Len(log') \in Nat /\ Len(log) <= Len(log')
           /\ \A l \in 1..Len(log) : log'[l] = log[l]
           /\ DeltaNames(Len(log)) \subseteq DeltaNames(Len(log'))
           /\ \A n \in Names : Content(log', n) = Content(log, n)
<1>1. log \in Seq(Items) /\ Grown(log, log') /\ floor \in Nat /\ floor <= Len(log)
  BY DEF TypeInv, Writes
<1>2. /\ log' \in Seq(Items) /\ Len(log) \in Nat /\ Len(log') \in Nat /\ Len(log) <= Len(log')
      /\ \A l \in 1..Len(log) : log'[l] = log[l]
  BY <1>1 DEF Grown
<1>3. DeltaNames(Len(log)) \subseteq DeltaNames(Len(log'))
  BY <1>2 DEF DeltaNames
<1>4. \A n \in Names : Content(log', n) = Content(log, n)
  BY <1>1, GrownContent DEF Names
<1> QED BY <1>2, <1>3, <1>4

\* What an append or a flush does to the layers in the bucket.
LEMMA WritesStored ==
    ASSUME TypeInv, Writes
    PROVE  /\ Keeps => Stored' = Stored
           /\ ~Keeps => Stored' = Stored \cup {NewDelta} /\ NewDelta \notin Stored
           /\ DOMAIN bucket \subseteq DOMAIN bucket'
           /\ \A n \in DOMAIN bucket' \ DOMAIN bucket : ~Keeps /\ n = NewDelta
<1>1. CASE Keeps
  BY <1>1 DEF Keeps, Stored
<1>2. CASE ~Keeps
  <2>1. /\ NewDelta.kind = "delta" /\ NewDelta \notin DOMAIN bucket
        /\ DOMAIN bucket' = DOMAIN bucket \cup {NewDelta}
    BY <1>2, NewDeltaName, PutFields
  <2> QED BY <1>2, <2>1 DEF Stored
<1> QED BY <1>1, <1>2

\* An append or a flush preserves the invariant.
LEMMA WritesInv == ASSUME PageInv, Writes PROVE PageInv'
<1> DEFINE L == Len(log)
           K == Len(log')
<1>1. /\ log' \in Seq(Items) /\ L \in Nat /\ K \in Nat /\ L <= K
      /\ \A l \in 1..L : log'[l] = log[l]
      /\ DeltaNames(L) \subseteq DeltaNames(K)
      /\ \A n \in Names : Content(log', n) = Content(log, n)
  BY WritesGrown DEF PageInv
<1>2. UNCHANGED <<floorObj, image, floor, cache, reader, victims>>
  BY DEF Writes
<1>3. /\ floor \in Nat /\ floor <= L /\ flushedHw \in Nat /\ flushedHw <= L
      /\ floorObj \in Nat /\ floor <= floorObj /\ floorObj <= L
      /\ log \in Seq(Items)
  BY DEF PageInv, TypeInv
<1>4. /\ Keeps => Stored' = Stored
      /\ ~Keeps => Stored' = Stored \cup {NewDelta} /\ NewDelta \notin Stored
      /\ DOMAIN bucket \subseteq DOMAIN bucket'
      /\ \A n \in DOMAIN bucket' \ DOMAIN bucket : ~Keeps /\ n = NewDelta
  BY WritesStored DEF PageInv
<1>5. ~Keeps => /\ NewDelta \in DeltaNames(K) /\ NewDelta.kind = "delta"
                /\ NewDelta.lo = flushedHw + 1 /\ NewDelta.hi = K
                /\ Content(log', NewDelta) = MemLog /\ flushedHw < K
                /\ bucket' = Put(NewDelta, MemLog) /\ NewDelta \notin DOMAIN bucket
  BY NewDeltaName DEF PageInv
<1>6. /\ Keeps \/ Orphans => flushedHw' = flushedHw /\ deltas' = deltas
      /\ Flushes => ~Keeps /\ flushedHw' = K /\ deltas' = deltas \cup {NewDelta}
      /\ Keeps \/ Orphans \/ Flushes
      /\ Orphans => ~Keeps
  <2>1. Orphans \/ Flushes => NewDelta \notin DOMAIN bucket /\ bucket' = Put(NewDelta, MemLog)
    BY DEF Orphans, Flushes
  <2>2. Orphans \/ Flushes => bucket' # bucket
    BY <2>1, PutFields
  <2> QED BY <2>2 DEF Writes, Keeps, Orphans, Flushes
<1>7. /\ Stored \subseteq DeltaNames(L) /\ deltas \subseteq DeltaNames(L) /\ deltas \subseteq Stored
      /\ image.hi \in Nat /\ image.hi <= floor
  BY StoredNames DEF PageInv, TypeInv
<1>8. \A d \in Stored : /\ d.lo \in Nat /\ d.hi \in Nat /\ 1 <= d.lo /\ d.lo <= d.hi /\ d.hi <= L
                        /\ d = Delta(d.lo, d.hi)
  BY <1>7, DeltaFields
<1>9. TypeInv'
  <2>1. DOMAIN bucket' \subseteq Names' /\ DOMAIN cache' \subseteq Names'
    <3>1. Names \subseteq Names'
      BY <1>1, <1>2 DEF Names
    <3>2. DOMAIN bucket \subseteq Names /\ DOMAIN cache \subseteq Names
      BY DEF PageInv, TypeInv
    <3>3. ~Keeps => NewDelta \in Names'
      BY <1>5 DEF Names
    <3> QED BY <1>2, <1>4, <3>1, <3>2, <3>3
  <2>2. deltas' \subseteq Stored'
    BY <1>4, <1>6, <1>7
  <2>3. image' = NoImage \/ image' \in DOMAIN bucket' \cap ImageNames(floor)'
    BY <1>2, <1>4 DEF PageInv, TypeInv
  <2>4. victims' \subseteq DOMAIN bucket' /\ victims' \cap Live' = {}
    <3>1. victims \subseteq DOMAIN bucket /\ victims \cap Live = {}
      BY DEF PageInv, TypeInv
    <3>2. Live' \subseteq Live \cup (IF Flushes THEN {NewDelta} ELSE {})
      BY <1>2, <1>6 DEF Live
    <3> QED BY <1>2, <1>4, <1>5, <1>6, <3>1, <3>2
  <2>5. reader' \in [Readers -> ReaderType']
    <3>1. ReaderType \subseteq ReaderType'
      BY <1>1, <1>2 DEF ReaderType
    <3>2. reader \in [Readers -> ReaderType] /\ reader' = reader
      BY <1>2 DEF PageInv, TypeInv
    <3> HIDE DEF ReaderType
    <3> QED BY <3>1, <3>2
  <2>6. flushedHw' \in Nat /\ flushedHw' <= K
    BY <1>1, <1>3, <1>6
  <2>7. /\ floor' \in Nat /\ floor' <= K
        /\ floorObj' \in Nat /\ floor' <= floorObj' /\ floorObj' <= K
    BY <1>1, <1>2, <1>3
  <2> QED BY <1>1, <2>1, <2>2, <2>3, <2>4, <2>5, <2>6, <2>7 DEF TypeInv
<1>10. ContentInv'
  <2>1. memtable' = Versions(log', flushedHw' + 1, K)
    <3>1. CASE Keeps \/ Orphans
      BY <3>1, <1>6 DEF Keeps, Orphans, MemLog
    <3>2. CASE Flushes
      <4>1. Versions(log', K + 1, K) = {}
        BY <1>1 DEF Versions
      <4> QED BY <3>2, <4>1, <1>6 DEF Flushes
    <3> QED BY <3>1, <3>2, <1>6
  <2>2. Exact(cache)'
    BY <1>1, <1>2 DEF PageInv, ContentInv, TypeInv, Exact
  <2>3. Exact(bucket)'
    <3> SUFFICES ASSUME NEW n \in DOMAIN bucket' PROVE bucket'[n] = Content(log', n)
      BY DEF Exact
    <3>1. CASE n \in DOMAIN bucket
      <4>1. bucket'[n] = bucket[n]
        <5>1. CASE Keeps
          BY <5>1 DEF Keeps
        <5>2. CASE ~Keeps
          BY <3>1, <5>2, <1>5, PutFields
        <5> QED BY <5>1, <5>2
      <4>2. bucket[n] = Content(log, n) /\ n \in Names
        BY <3>1 DEF PageInv, ContentInv, TypeInv, Exact
      <4> QED BY <4>1, <4>2, <1>1
    <3>2. CASE n \notin DOMAIN bucket
      <4>1. ~Keeps /\ n = NewDelta
        BY <1>4, <3>2
      <4>2. bucket'[NewDelta] = MemLog
        BY <4>1, <1>5, PutFields
      <4> QED BY <4>1, <4>2, <1>5
    <3> QED BY <3>1, <3>2
  <2> QED BY <2>1, <2>2, <2>3 DEF ContentInv
<1>11. ImageInv'
  <2>1. ASSUME NEW n \in DOMAIN bucket', n.kind = "image" PROVE n.hi <= image'.hi
    <3>1. n \in DOMAIN bucket
      BY <2>1, <1>4, <1>5
    <3> QED BY <2>1, <3>1, <1>2 DEF PageInv, ImageInv
  <2>2. \A l \in (flushedHw' + 1)..image'.hi : log'[l] = Wal
    <3> DEFINE a == flushedHw
               c == flushedHw'
               m == image.hi
    <3>1. c \in Nat /\ a \in Nat /\ a <= c /\ m \in Nat /\ m <= L /\ L \in Nat
      BY <1>1, <1>3, <1>6, <1>7
    <3> HIDE DEF a, c, m, L
    <3>2. \A l \in (c + 1)..m : l \in (a + 1)..m /\ l \in 1..L
      BY <3>1
    <3>3. \A l \in (c + 1)..m : log'[l] = Wal
      BY <3>2, <1>1 DEF PageInv, ImageInv, a, m
    <3> QED BY <3>3, <1>2 DEF c, m
  <2> QED BY <2>1, <2>2 DEF ImageInv
<1>12. OrderInv'
  <2>0. \A d \in Stored : d.lo = flushedHw + 1 \/ d.hi <= flushedHw
    BY DEF PageInv, OrderInv
  <2>1. ASSUME NEW d \in Stored' PROVE d.lo = flushedHw' + 1 \/ d.hi <= flushedHw'
    <3>1. CASE d \in Stored
      <4>1. d.hi <= K
        BY <3>1, <1>1, <1>8
      <4> QED BY <3>1, <4>1, <2>0, <1>6
    <3>2. CASE d \notin Stored
      <4>1. ~Keeps /\ d = NewDelta
        BY <3>2, <1>4
      <4> QED BY <4>1, <1>1, <1>5, <1>6
    <3> QED BY <3>1, <3>2
  <2>2. ASSUME NEW d \in Stored', NEW e \in Stored', d.lo < e.lo PROVE d.hi < e.lo
    <3>1. CASE d \in Stored /\ e \in Stored
      BY <3>1, <2>2 DEF PageInv, OrderInv
    <3>2. CASE d \in Stored /\ e \notin Stored
      <4>1. e.lo = flushedHw + 1
        BY <3>2, <1>4, <1>5
      <4>2. d.hi <= flushedHw /\ d.hi \in Nat
        BY <4>1, <2>2, <3>2, <2>0, <1>8, <1>3
      <4> QED BY <4>1, <4>2, <1>3
    <3>3. CASE d \notin Stored
      <4>1. d.lo = flushedHw + 1
        BY <3>3, <1>4, <1>5
      <4>2. e \in Stored
        BY <4>1, <3>3, <2>2, <1>3, <1>4, <1>5
      <4>3. e.lo = flushedHw + 1 \/ e.hi <= flushedHw
        BY <4>2, <2>0
      <4>4. FALSE
        BY <4>1, <4>2, <4>3, <2>2, <1>3, <1>8
      <4> QED BY <4>4
    <3> QED BY <3>1, <3>2, <3>3
  <2> QED BY <2>1, <2>2 DEF OrderInv
<1>13. CoverInv'
  <2>1. ASSUME NEW ds, NEW es, ds \subseteq DeltaNames(L), Covered(ds),
               \/ flushedHw' = flushedHw /\ es = ds
               \/ flushedHw' = flushedHw /\ es = ds \cup {NewDelta} /\ ~Keeps
               \/ flushedHw' = K /\ es = ds \cup {NewDelta} /\ ~Keeps
        PROVE  \A l \in 1..flushedHw' :
                 log'[l] # Wal => \/ \E d \in es : Holds(d, l)
                                  \/ l <= image'.hi /\ \A e \in es : l < e.lo
    <3> TAKE l \in 1..flushedHw'
    <3> HAVE log'[l] # Wal
    <3>1. CASE l <= flushedHw
      <4>1. l \in 1..flushedHw /\ l \in 1..L
        BY <3>1, <1>1, <1>3, <2>1
      <4>2. log[l] # Wal
        BY <4>1, <1>1
      <4>3. \/ \E d \in ds : Holds(d, l)
            \/ l <= image.hi /\ \A e \in ds : l < e.lo
        BY <4>1, <4>2, <2>1 DEF Covered
      <4>4. ~Keeps => l < NewDelta.lo
        BY <4>1, <1>3, <1>5
      <4> QED BY <4>3, <4>4, <1>2, <2>1
    <3>2. CASE ~(l <= flushedHw)
      <4>1. flushedHw' = K /\ NewDelta \in es /\ ~Keeps
        BY <3>2, <1>3, <2>1
      <4>2. Holds(NewDelta, l)
        BY <4>1, <3>2, <1>1, <1>3, <1>5 DEF Holds
      <4> QED BY <4>1, <4>2
    <3> QED BY <3>1, <3>2
  <2>2. Covered(deltas)'
    <3>1. Covered(deltas)
      BY DEF PageInv, CoverInv
    <3> QED BY <2>1, <3>1, <1>6, <1>7 DEF Covered
  <2>3. Covered(Stored)'
    <3>1. Covered(Stored)
      BY DEF PageInv, CoverInv
    <3> QED BY <2>1, <3>1, <1>4, <1>6, <1>7 DEF Covered
  <2> QED BY <2>2, <2>3 DEF CoverInv
<1>14. GcInv'
  <2>1. ASSUME NEW vs, NEW ds, vs \subseteq Stored, ds \subseteq Stored, Shielded(vs, ds),
               NEW us, NEW es,
               \/ /\ flushedHw' = flushedHw
                  /\ \A n \in us : n \in vs \/ (~Keeps /\ n = NewDelta)
                  /\ es = ds \/ (~Keeps /\ es = ds \cup {NewDelta})
               \/ flushedHw' = K /\ us = vs /\ es = ds \cup {NewDelta} /\ ~Keeps
        PROVE  \A n \in us :
                 n.lo <= flushedHw' => \/ \A e \in es : ~Before(e, n)
                                       \/ \E d \in es : d.lo = n.lo /\ n.hi < d.hi
    <3> TAKE n \in us
    <3> HAVE n.lo <= flushedHw'
    <3>1. CASE n.lo <= flushedHw
      <4>1. n \in vs /\ n \in Stored
        BY <2>1, <3>1, <1>3, <1>5
      <4>2. \/ \A e \in ds : ~Before(e, n)
            \/ \E d \in ds : d.lo = n.lo /\ n.hi < d.hi
        BY <2>1, <3>1, <4>1 DEF Shielded
      <4>3. ~Keeps => ~Before(NewDelta, n)
        <5>1. n.kind = "delta" /\ n.lo \in Nat
          BY <4>1, <1>7, DeltaFields
        <5> QED BY <5>1, <3>1, <1>3, <1>5 DEF Before
      <4> QED BY <4>2, <4>3, <2>1
    <3>2. CASE ~(n.lo <= flushedHw)
      <4>1. flushedHw' = K /\ n \in vs /\ n \in Stored /\ NewDelta \in es /\ ~Keeps
        BY <2>1, <3>2
      <4>2. n.lo \in Nat /\ n.hi \in Nat /\ n.lo <= n.hi /\ n.hi <= L /\ n = Delta(n.lo, n.hi)
        BY <4>1, <1>8
      <4>3. n.lo = flushedHw + 1
        <5>1. n.lo = flushedHw + 1 \/ n.hi <= flushedHw
          BY <4>1 DEF PageInv, OrderInv
        <5> QED BY <5>1, <4>2, <3>2, <1>3
      <4>4. n.hi # K
        BY <4>1, <4>2, <4>3, <1>4 DEF NewDelta
      <4>5. n.hi < K
        BY <4>2, <4>4, <1>1
      <4> QED BY <4>1, <4>3, <4>5, <1>5
    <3> QED BY <3>1, <3>2
  <2>2. Shielded(Stored \ deltas, deltas)'
    <3>1. Shielded(Stored \ deltas, deltas)
      BY DEF PageInv, GcInv
    <3>3. \A n \in Stored' \ deltas' : n \in Stored \ deltas \/ (~Keeps /\ n = NewDelta)
      BY <1>4, <1>6, <1>7
    <3> DEFINE vs == Stored \ deltas
               us == Stored' \ deltas'
               es == deltas'
    <3>4. vs \subseteq Stored /\ deltas \subseteq Stored /\ Shielded(vs, deltas)
      BY <3>1, <1>7
    <3>5. \/ /\ flushedHw' = flushedHw
             /\ \A n \in us : n \in vs \/ (~Keeps /\ n = NewDelta)
             /\ es = deltas \/ (~Keeps /\ es = deltas \cup {NewDelta})
          \/ flushedHw' = K /\ us = vs /\ es = deltas \cup {NewDelta} /\ ~Keeps
      <4>1. CASE Keeps \/ Orphans
        BY <4>1, <3>3, <1>6
      <4>2. CASE Flushes
        BY <4>2, <1>4, <1>6, <1>7
      <4> QED BY <4>1, <4>2, <1>6
    <3> HIDE DEF vs, us, es
    <3>6. \A n \in us :
             n.lo <= flushedHw' => \/ \A e \in es : ~Before(e, n)
                                   \/ \E d \in es : d.lo = n.lo /\ n.hi < d.hi
      BY <2>1, <3>4, <3>5
    <3> QED BY <3>6 DEF Shielded, us, es
  <2>3. Shielded(Stored \cap victims, Stored \ victims)'
    <3>1. Shielded(Stored \cap victims, Stored \ victims)
      BY DEF PageInv, GcInv
    <3>2. ~Keeps => NewDelta \notin victims
      BY <1>5 DEF PageInv, TypeInv
    <3>3. /\ Stored' \cap victims' = Stored \cap victims
          /\ Keeps => Stored' \ victims' = Stored \ victims
          /\ ~Keeps => Stored' \ victims' = (Stored \ victims) \cup {NewDelta}
      BY <3>2, <1>2, <1>4
    <3> DEFINE vs == Stored \cap victims
               ds == Stored \ victims
               us == Stored' \cap victims'
               es == Stored' \ victims'
    <3>4. vs \subseteq Stored /\ ds \subseteq Stored /\ Shielded(vs, ds)
      BY <3>1
    <3>5. \/ /\ flushedHw' = flushedHw
             /\ \A n \in us : n \in vs \/ (~Keeps /\ n = NewDelta)
             /\ es = ds \/ (~Keeps /\ es = ds \cup {NewDelta})
          \/ flushedHw' = K /\ us = vs /\ es = ds \cup {NewDelta} /\ ~Keeps
      BY <3>3, <1>6
    <3> HIDE DEF vs, us, es, ds
    <3>6. \A n \in us :
             n.lo <= flushedHw' => \/ \A e \in es : ~Before(e, n)
                                   \/ \E d \in es : d.lo = n.lo /\ n.hi < d.hi
      BY <2>1, <3>4, <3>5
    <3> QED BY <3>6 DEF Shielded, us, es
  <2> QED BY <2>2, <2>3 DEF GcInv
<1>15. ReadInv'
  <2> SUFFICES ASSUME NEW r \in Readers, reader[r].pc = "deltas" PROVE Searching(log', reader[r])
    BY <1>2 DEF ReadInv
  <2> DEFINE v == reader[r].want
             p == reader[r].page
             q == reader[r].query
             todo == reader[r].todo
             im == reader[r].image
  <2>1. todo \subseteq DeltaNames(L) /\ v \in Nat /\ im \in ImageNames(floor) \cup {NoImage}
    BY DEF PageInv, TypeInv, ReaderType
  <2>2. im.hi \in Nat /\ im.hi <= L
    <3>1. CASE im = NoImage
      BY <3>1, <1>1 DEF NoImage, Image
    <3>2. CASE im \in ImageNames(floor)
      BY <3>2, <1>1, <1>3, ImageFields
    <3> QED BY <2>1, <3>1, <3>2
  <2>3. \A x \in todo : \A l \in x.lo..x.hi : l \in 1..L
    <3> TAKE x \in todo
    <3>1. x.lo \in Nat /\ x.hi \in Nat /\ 1 <= x.lo /\ x.hi <= L
      BY <2>1, DeltaFields
    <3> QED BY <3>1, <1>1
  <2>4. /\ p \in Pages /\ reader[r].got = Pending /\ im.hi <= q
        /\ \A x \in todo : \A l \in x.lo..x.hi : log[l] = p /\ l <= q => l <= v
        /\ \A l \in 1..im.hi : log[l] = p => l <= v
        /\ v # 0 => v \in DOMAIN log /\ log[v] = p /\ v <= q
        /\ \/ v # 0 /\ \E x \in todo : Holds(x, v)
           \/ v <= im.hi /\ \A x \in todo : ~VersionIn(log, x, p, q)
    BY DEF PageInv, ReadInv, Searching
  <2> HIDE DEF v, p, q, todo, im
  <2>5. \A x \in todo : VersionIn(log', x, p, q) <=> VersionIn(log, x, p, q)
    BY <2>3, <1>1 DEF VersionIn
  <2>6. \A l \in 1..im.hi : l \in 1..L
    BY <2>2, <1>1
  <2>7. v # 0 => v \in DOMAIN log' /\ log'[v] = p /\ v <= q
    <3>1. DOMAIN log = 1..L /\ DOMAIN log' = 1..K
      BY <1>1, <1>3
    <3> QED BY <3>1, <2>4, <1>1
  <2>8. /\ \A x \in todo : \A l \in x.lo..x.hi : log'[l] = p /\ l <= q => l <= v
        /\ \A l \in 1..im.hi : log'[l] = p => l <= v
    BY <2>3, <2>4, <2>6, <1>1
  <2> QED BY <2>4, <2>5, <2>7, <2>8 DEF Searching, v, p, q, todo, im
<1> QED BY <1>9, <1>10, <1>11, <1>12, <1>13, <1>14, <1>15 DEF PageInv

-----------------------------------------------------------------------------
(* The other steps.                                                         *)

\* What the parts of the invariant about layers and readers depend on.
LEMMA LayerFrame ==
    ASSUME ContentInv, ImageInv, OrderInv, CoverInv,
           UNCHANGED <<log, memtable, flushedHw, deltas, image, bucket, cache>>
    PROVE  ContentInv' /\ ImageInv' /\ OrderInv' /\ CoverInv'
<1>1. Stored' = Stored
  BY DEF Stored
<1> QED BY <1>1 DEF ContentInv, Exact, ImageInv, OrderInv, CoverInv, Covered

\* The reads see only the log.
LEMMA ReadFrame ==
    ASSUME ReadInv, UNCHANGED <<log, reader>>
    PROVE  ReadInv'
BY DEF ReadInv

\* SetRetentionFloor preserves the invariant: the floor is moved within the log.
LEMMA SetFloorInv ==
    ASSUME PageInv, FloorSlack = 0, NEW l \in Nat, SetRetentionFloor(l)
    PROVE  PageInv'
<1>1. /\ floorObj' = l /\ floor <= l /\ l <= Len(log) /\ floor' \in {floor, l}
      /\ UNCHANGED <<log, bucket, memtable, flushedHw, deltas, image, cache, reader, victims>>
  <2>1. Len(log) \in Nat
    BY DEF PageInv, TypeInv
  <2> QED BY <2>1 DEF SetRetentionFloor, durable_lsn
<1>2. TypeInv'
  <2>1. floor \in Nat
    BY DEF PageInv, TypeInv
  <2>2. /\ floor' \in Nat /\ floor <= floor' /\ floor' <= l /\ floor' <= Len(log)
        /\ ImageNames(floor) \subseteq ImageNames(floor')
    <3>1. floor' \in Nat /\ floor <= floor' /\ floor' <= l /\ floor' <= Len(log)
      BY <1>1, <2>1 DEF PageInv, TypeInv
    <3> QED BY <2>1, <3>1 DEF ImageNames
  <2>3. Names \subseteq Names' /\ ReaderType \subseteq ReaderType'
    BY <1>1, <2>2 DEF Names, ReaderType
  <2>4. reader' \in [Readers -> ReaderType']
    <3>1. reader \in [Readers -> ReaderType] /\ reader' = reader
      BY <1>1 DEF PageInv, TypeInv
    <3> QED BY <2>3, <3>1
  <2>5. Stored' = Stored /\ Live' = Live
    BY <1>1 DEF Stored, Live
  <2>6. DOMAIN bucket' \subseteq Names' /\ DOMAIN cache' \subseteq Names'
    BY <1>1, <2>3 DEF PageInv, TypeInv
  <2>7. image' = NoImage \/ image' \in DOMAIN bucket' \cap ImageNames(floor)'
    BY <1>1, <2>2 DEF PageInv, TypeInv
  <2> QED BY <1>1, <2>2, <2>4, <2>5, <2>6, <2>7 DEF PageInv, TypeInv
<1>3. ContentInv' /\ ImageInv' /\ OrderInv' /\ CoverInv'
  BY <1>1, LayerFrame DEF PageInv
<1>4. GcInv'
  <2>1. Stored' = Stored
    BY <1>1 DEF Stored
  <2> QED BY <1>1, <2>1 DEF PageInv, GcInv, Shielded
<1>5. ReadInv'
  BY <1>1, ReadFrame DEF PageInv
<1> QED BY <1>2, <1>3, <1>4, <1>5 DEF PageInv

\* Gc preserves the invariant: what the handle has forgotten is what it deletes.
LEMMA GcStepInv == ASSUME PageInv, Gc PROVE PageInv'
<1>1. /\ victims = {} /\ victims' = DOMAIN bucket \ Live
      /\ UNCHANGED <<log, floor, floorObj, bucket, memtable, flushedHw, deltas, image, cache, reader>>
  BY DEF Gc, durable, inner
<1>2. Stored' = Stored /\ Live' = Live
  BY <1>1 DEF Stored, Live
<1>3. TypeInv'
  <2>1. Names' = Names /\ ReaderType' = ReaderType
    BY <1>1 DEF Names, ReaderType
  <2> QED BY <1>1, <1>2, <2>1 DEF PageInv, TypeInv
<1>4. ContentInv' /\ ImageInv' /\ OrderInv' /\ CoverInv'
  BY <1>1, LayerFrame DEF PageInv
<1>5. GcInv'
  <2>1. image.kind = "image" /\ deltas \subseteq Stored
    BY StoredNames DEF PageInv, TypeInv
  <2>2. Stored \cap victims' = Stored \ deltas /\ Stored \ victims' = deltas
    BY <1>1, <2>1 DEF Live, Stored
  <2>3. Shielded(Stored \ deltas, deltas)'
    BY <1>1, <1>2 DEF PageInv, GcInv, Shielded
  <2> QED BY <1>1, <1>2, <2>2, <2>3 DEF GcInv
<1>6. ReadInv'
  BY <1>1, ReadFrame DEF PageInv
<1> QED BY <1>3, <1>4, <1>5, <1>6 DEF PageInv

\* GcDelete preserves the invariant: in the order of the listing, no delta is
\* deleted while an older one that it overrides is still there.
LEMMA GcDeleteInv == ASSUME PageInv, NEW n \in victims, GcDelete(n) PROVE PageInv'
<1>1. /\ NextVictim(n) /\ victims' = victims \ {n}
      /\ bucket' = [m \in DOMAIN bucket \ {n} |-> bucket[m]]
      /\ cache' = [m \in DOMAIN cache \ {n} |-> cache[m]]
      /\ UNCHANGED <<log, floor, floorObj, memtable, flushedHw, deltas, image, reader>>
  BY DEF GcDelete, inner
<1>2. n \in DOMAIN bucket /\ n \notin Live /\ victims \subseteq DOMAIN bucket
  BY DEF PageInv, TypeInv
<1>3. /\ DOMAIN bucket' = DOMAIN bucket \ {n} /\ DOMAIN cache' = DOMAIN cache \ {n}
      /\ \A m \in DOMAIN bucket' : bucket'[m] = bucket[m]
      /\ \A m \in DOMAIN cache' : cache'[m] = cache[m]
  BY <1>1
<1>4. Stored' = Stored \ {n} /\ Live' = Live
  BY <1>1, <1>3 DEF Stored, Live
<1>5a. deltas \subseteq Stored /\ n \notin deltas
  BY <1>2 DEF PageInv, TypeInv, Live
<1>6. TypeInv'
  <2>1. Names' = Names /\ ReaderType' = ReaderType /\ ImageNames(floor)' = ImageNames(floor)
    BY <1>1 DEF Names, ReaderType
  <2>2. image = NoImage \/ (image \in DOMAIN bucket /\ image \in ImageNames(floor) /\ image # n)
    BY <1>2 DEF PageInv, TypeInv, Live
  <2>3. /\ DOMAIN bucket' \subseteq Names' /\ DOMAIN cache' \subseteq Names'
        /\ deltas' \subseteq Stored'
        /\ image' = NoImage \/ image' \in DOMAIN bucket' \cap ImageNames(floor)'
        /\ victims' \subseteq DOMAIN bucket' /\ victims' \cap Live' = {}
    BY <1>1, <1>3, <1>4, <1>5a, <2>1, <2>2 DEF PageInv, TypeInv
  <2> QED BY <1>1, <2>1, <2>3 DEF PageInv, TypeInv
<1>7. ContentInv'
  <2>1. Exact(bucket)' /\ Exact(cache)'
    BY <1>1, <1>3 DEF PageInv, ContentInv, Exact
  <2> QED BY <1>1, <2>1 DEF PageInv, ContentInv
<1>8. ImageInv' /\ OrderInv'
  BY <1>1, <1>3, <1>4 DEF PageInv, ImageInv, OrderInv
<1>9. Stored \subseteq DeltaNames(Len(log))
  BY StoredNames DEF PageInv
<1>10. \A d \in Stored : /\ d.lo \in Nat /\ d.hi \in Nat /\ 1 <= d.lo /\ d.lo <= d.hi
                         /\ d.kind = "delta" /\ d = Delta(d.lo, d.hi)
  BY <1>9, DeltaFields
<1>11. CoverInv'
  <2>1. Covered(deltas)'
    BY <1>1 DEF PageInv, CoverInv, Covered
  <2>2. ASSUME NEW l \in 1..flushedHw, log[l] # Wal
        PROVE  \/ \E d \in Stored \ {n} : Holds(d, l)
               \/ l <= image.hi /\ \A e \in Stored \ {n} : l < e.lo
    <3>0. flushedHw \in Nat
      BY DEF PageInv, TypeInv
    <3>1. \/ \E d \in Stored : Holds(d, l)
          \/ l <= image.hi /\ \A e \in Stored : l < e.lo
      BY <2>2 DEF PageInv, CoverInv, Covered
    <3>2. CASE \E d \in Stored \ {n} : Holds(d, l)
      BY <3>2
    <3>3. CASE ~(\E d \in Stored \ {n} : Holds(d, l)) /\ n \in Stored /\ Holds(n, l)
      <4>1. l <= image.hi
        <5>1. ~\E d \in deltas : Holds(d, l)
          BY <3>3, <1>5a
        <5> QED BY <5>1, <2>2 DEF PageInv, CoverInv, Covered
      <4>2. ASSUME NEW e \in Stored \ {n}, ~(l < e.lo) PROVE FALSE
        <5>1. /\ e.lo \in Nat /\ e.hi \in Nat /\ e.kind = "delta" /\ e = Delta(e.lo, e.hi)
              /\ n.lo \in Nat /\ n.hi \in Nat /\ n.kind = "delta" /\ n = Delta(n.lo, n.hi)
          BY <3>3, <1>10
        <5>2. e.lo <= l /\ e.hi < l /\ n.lo <= l /\ l <= n.hi /\ l \in Nat
          BY <4>2, <3>3, <3>0, <5>1 DEF Holds
        <5>3. ~(n.lo < e.lo)
          <6>1. n.lo < e.lo => n.hi < e.lo
            BY <3>3 DEF PageInv, OrderInv
          <6> QED BY <6>1, <5>1, <5>2
        <5>4. Before(e, n)
          BY <5>1, <5>2, <5>3 DEF Before
        <5>5. ~Before(n, e)
          BY <5>1, <5>2, <5>3 DEF Before
        <5>6. e \notin victims
          BY <5>5, <1>1 DEF NextVictim
        <5>7. n.lo <= flushedHw
          BY <5>1, <5>2, <3>0
        <5>8. \E d \in Stored \ victims : d.lo = n.lo /\ n.hi < d.hi
          BY <5>4, <5>6, <5>7, <3>3 DEF PageInv, GcInv, Shielded
        <5>9. PICK d \in Stored \ victims : d.lo = n.lo /\ n.hi < d.hi
          BY <5>8
        <5>10. d \in Stored \ {n} /\ d.hi \in Nat
          BY <5>9, <1>10
        <5>11. Holds(d, l)
          BY <5>1, <5>2, <5>9, <5>10 DEF Holds
        <5> QED BY <3>3, <5>10, <5>11
      <4> QED BY <4>1, <4>2
    <3> QED BY <3>1, <3>2, <3>3
  <2>3. Covered(Stored)'
    BY <1>1, <1>4, <2>2 DEF Covered
  <2> QED BY <2>1, <2>3 DEF CoverInv
<1>12. GcInv'
  <2>1. Stored' \cap victims' \subseteq Stored \cap victims /\ Stored' \ victims' = Stored \ victims
    BY <1>1, <1>4
  <2>2. Stored' \ deltas' \subseteq Stored \ deltas
    BY <1>1, <1>4
  <2> QED BY <1>1, <2>1, <2>2 DEF PageInv, GcInv, Shielded
<1>13. ReadInv'
  BY <1>1, ReadFrame DEF PageInv
<1> QED BY <1>6, <1>7, <1>8, <1>11, <1>12, <1>13 DEF PageInv

\* load_layer returns what the name stands for, from the cache or the bucket.
LEMMA LoadedExact ==
    ASSUME ContentInv, NEW n, Present(n)
    PROVE  Loaded(n) = Content(log, n)
BY DEF ContentInv, Exact, Present, Loaded

\* The live layers are named, and all that is flushed is in them.
LEMMA LiveNames ==
    ASSUME TypeInv
    PROVE  /\ Live \subseteq DOMAIN bucket /\ Live \subseteq Names
           /\ \A d \in deltas : d \in Live
           /\ image # NoImage => image \in Live
BY DEF TypeInv, Live, Stored

\* merge_keep_greatest over the live layers gives the newest version of each page
\* up to the floor, although older deltas have been dropped before.
LEMMA CompactFolds ==
    ASSUME PageInv, memtable = {}, \A n \in Live : Present(n)
    PROVE  Merged(UNION {Loaded(n) : n \in Live}) = Folded(log, floor)
<1> DEFINE L == Len(log)
           R == UNION {Loaded(n) : n \in Live}
           RC == UNION {Content(log, n) : n \in Live}
<1>1. /\ L \in Nat /\ log \in Seq(Items) /\ floor \in Nat /\ floor <= L
      /\ flushedHw \in Nat /\ flushedHw <= L
  BY DEF PageInv, TypeInv
<1>2. Live \subseteq Names /\ (\A d \in deltas : d \in Live) /\ (image # NoImage => image \in Live)
  BY LiveNames DEF PageInv
<1>3. R = RC
  <2>1. \A n \in Live : Loaded(n) = Content(log, n)
    BY LoadedExact DEF PageInv
  <2> QED BY <2>1
<1>4. \A x \in RC : \E l \in 1..L : x = Version(log, l)
  <2> SUFFICES ASSUME NEW n \in Live, NEW x \in Content(log, n)
               PROVE  \E l \in 1..L : x = Version(log, l)
    OBVIOUS
  <2>1. CASE n \in DeltaNames(L)
    <3>1. n.kind = "delta" /\ n.lo \in Nat /\ n.hi \in Nat /\ 1 <= n.lo /\ n.hi <= L
      BY <2>1, DeltaFields
    <3>2. \E l \in n.lo..n.hi : x = Version(log, l)
      BY <3>1 DEF Content, Versions
    <3> QED BY <3>1, <3>2, <1>1
  <2>2. CASE n \in ImageNames(floor)
    <3>1. n.kind = "image" /\ n.hi \in Nat /\ n.hi <= floor
      BY <2>2, ImageFields
    <3>2. \E l \in 1..n.hi : x = Version(log, l)
      BY <3>1 DEF Content, Folded
    <3> QED BY <3>1, <3>2, <1>1
  <2> QED BY <2>1, <2>2, <1>2 DEF Names
<1>5. ASSUME NEW l \in 1..floor, IsNewest(log, l, floor) PROVE Version(log, l) \in RC
  <2>1. log[l] # Wal /\ l \in Nat /\ l <= L
    BY <1>1, <1>5 DEF IsNewest
  <2>2. l <= flushedHw
    <3> SUFFICES ASSUME ~(l <= flushedHw) PROVE FALSE
      OBVIOUS
    <3>1. l \in (flushedHw + 1)..L
      BY <1>1, <2>1
    <3>2. Version(log, l) \in Versions(log, flushedHw + 1, L)
      BY <2>1, <3>1 DEF Versions
    <3> QED BY <3>2 DEF PageInv, ContentInv
  <2>3. \/ \E d \in deltas : Holds(d, l)
        \/ l <= image.hi
    BY <2>1, <2>2, <1>1 DEF PageInv, CoverInv, Covered
  <2>4. ASSUME NEW d \in deltas, Holds(d, l) PROVE Version(log, l) \in RC
    <3>1. d \in DeltaNames(L) /\ d \in Live
      BY <1>2, StoredNames DEF PageInv
    <3>2. d.kind = "delta" /\ d.lo \in Nat /\ d.hi \in Nat
      BY <3>1, DeltaFields
    <3>3. l \in d.lo..d.hi
      BY <2>1, <2>4, <3>2 DEF Holds
    <3>4. Version(log, l) \in Content(log, d)
      BY <2>1, <3>2, <3>3 DEF Content, Versions
    <3> QED BY <3>1, <3>4
  <2>5. CASE l <= image.hi
    <3>1. image.hi \in Nat /\ image.hi <= floor /\ image.kind = "image"
          /\ (image # NoImage <=> image.hi # 0)
      BY StoredNames DEF PageInv
    <3>2. image \in Live
      BY <2>1, <2>5, <3>1, <1>2
    <3>3. l \in 1..image.hi
      BY <2>5, <3>1
    <3>4. IsNewest(log, l, image.hi)
      <4>1. \A i \in (l + 1)..image.hi : i \in (l + 1)..floor
        BY <3>1, <2>1, <1>1
      <4> QED BY <4>1, <1>5 DEF IsNewest
    <3>5. Version(log, l) \in Content(log, image)
      BY <3>1, <3>3, <3>4 DEF Content, Folded
    <3> QED BY <3>2, <3>5
  <2> QED BY <2>3, <2>4, <2>5
<1> HIDE DEF RC, R
<1>6. \A x \in RC : x.lsn \in Nat /\ x.lsn <= L
  BY <1>1, <1>4 DEF Version
<1>7. ASSUME NEW x \in Merged(RC) PROVE x \in Folded(log, floor)
  <2>1. x \in RC /\ x.lsn <= floor /\ x.lsn = Best(RC, x.page, floor)
    BY DEF Merged
  <2>2. PICK l \in 1..L : x = Version(log, l)
    BY <1>4, <2>1
  <2>3. x.page = log[l] /\ x.lsn = l /\ l \in 1..floor
    BY <2>1, <2>2, <1>1 DEF Version
  <2>4. IsBest(l, {y.lsn : y \in {z \in RC : z.page = log[l] /\ z.lsn <= floor}})
    BY <1>1, <1>6, <2>1, <2>3, BestInRecords
  <2>5. log[l] # Wal
    <3>1. PICK n \in Live : x \in Content(log, n)
      BY <2>1 DEF RC
    <3>2. CASE n.kind = "delta"
      <4>1. \E k \in n.lo..n.hi : log[k] # Wal /\ x = Version(log, k)
        BY <3>1, <3>2 DEF Content, Versions
      <4> QED BY <4>1, <2>2 DEF Version
    <3>3. CASE n.kind # "delta"
      <4>1. \E k \in 1..n.hi : log[k] # Wal /\ x = Version(log, k)
        BY <3>1, <3>3 DEF Content, Folded, IsNewest
      <4> QED BY <4>1, <2>2 DEF Version
    <3> QED BY <3>2, <3>3
  <2>6. ASSUME NEW i \in (l + 1)..floor, log[i] = log[l] PROVE FALSE
    <3> DEFINE T == {k \in 1..floor : log[k] = log[l]}
    <3>1. i \in T /\ T \subseteq Nat /\ T # {} /\ \A k \in T : k <= floor
      BY <2>3, <2>6, <1>1
    <3>2. PICK j \in T : \A k \in T : k <= j
      <4> HIDE DEF T
      <4> QED BY <3>1, <1>1, GreatestNat
    <3>3. j \in 1..floor /\ log[j] = log[l] /\ i <= j
      BY <3>1, <3>2
    <3>4. IsNewest(log, j, floor)
      <4>1. ASSUME NEW k \in (j + 1)..floor, log[k] = log[j] PROVE FALSE
        <5>1. k \in T
          BY <3>3, <4>1, <1>1
        <5> QED BY <3>2, <3>3, <4>1, <5>1
      <4> QED BY <4>1, <3>3, <2>5 DEF IsNewest
    <3>5. Version(log, j) \in RC
      BY <3>3, <3>4, <1>5
    <3>6. j <= l
      <4>1. Version(log, j).page = log[l] /\ Version(log, j).lsn = j /\ j <= floor
        BY <3>3, <1>1 DEF Version
      <4>2. j \in {y.lsn : y \in {z \in RC : z.page = log[l] /\ z.lsn <= floor}}
        BY <3>5, <4>1
      <4> HIDE DEF T
      <4> QED BY <4>2, <2>4 DEF IsBest
    <3> QED BY <3>3, <3>6, <2>3, <2>6, <1>1
  <2>7. IsNewest(log, l, floor)
    BY <2>5, <2>6 DEF IsNewest
  <2> QED BY <2>2, <2>3, <2>7 DEF Folded
<1>8. ASSUME NEW x \in Folded(log, floor) PROVE x \in Merged(RC)
  <2>1. PICK l \in 1..floor : IsNewest(log, l, floor) /\ x = Version(log, l)
    BY DEF Folded
  <2>2. x \in RC /\ x.page = log[l] /\ x.lsn = l /\ l <= floor
    BY <2>1, <1>1, <1>5 DEF Version
  <2> DEFINE b == Best(RC, log[l], floor)
             S == {y.lsn : y \in {z \in RC : z.page = log[l] /\ z.lsn <= floor}}
  <2>3. IsBest(b, S)
    BY <1>1, <1>6, BestInRecords
  <2>4. l \in S
    BY <2>2
  <2>5. b \in S /\ l <= b
    BY <2>3, <2>4, <1>1 DEF IsBest
  <2>6. PICK y \in RC : y.page = log[l] /\ y.lsn <= floor /\ y.lsn = b
    BY <2>5
  <2>7. b \in Nat /\ log[b] = log[l] /\ b <= floor
    BY <2>6, <1>4 DEF Version
  <2>8. ~(l < b)
    BY <2>1, <2>7, <1>1 DEF IsNewest
  <2>9. l = b
    BY <2>5, <2>7, <2>8
  <2> QED BY <2>2, <2>9 DEF Merged
<1>9. Merged(RC) = Folded(log, floor)
  BY <1>7, <1>8
<1> QED BY <1>3, <1>9 DEF R

\* Compact preserves the invariant.
LEMMA CompactInv == ASSUME PageInv, ImageFaults = FALSE, Compact PROVE PageInv'
<1> DEFINE L == Len(log)
           I == Image(floor)
<1>1. /\ memtable = {} /\ floor # 0 /\ \A n \in Live : Present(n)
      /\ bucket' = Put(I, Merged(UNION {Loaded(n) : n \in Live}))
      /\ deltas' = Retained(deltas) /\ image' = I /\ cache' = Cached(Live)
      /\ UNCHANGED <<log, floorObj, memtable, flushedHw, floor, reader, victims>>
  BY DEF Compact
<1>2. bucket' = Put(I, Folded(log, floor))
  BY <1>1, CompactFolds
<1>3. /\ DOMAIN bucket' = DOMAIN bucket \cup {I} /\ bucket'[I] = Folded(log, floor)
      /\ \A m \in DOMAIN bucket \ {I} : bucket'[m] = bucket[m]
  BY <1>2, PutFields
<1>4. /\ L \in Nat /\ log \in Seq(Items) /\ floor \in Nat /\ floor <= L
      /\ flushedHw \in Nat /\ flushedHw <= L
  BY DEF PageInv, TypeInv
<1>5. I \in ImageNames(floor) /\ I.hi = floor /\ I.kind = "image"
  BY <1>1, <1>4 DEF ImageNames, Image
<1>6. Stored' = Stored
  BY <1>3, <1>5 DEF Stored
<1>7. deltas' \subseteq deltas /\ \A d \in deltas : d \in deltas' <=> d.hi > floor
  BY <1>1 DEF Retained
<1>8. /\ image.hi \in Nat /\ image.hi <= floor /\ image = Image(image.hi)
      /\ (image # NoImage <=> image.hi # 0)
      /\ \A n \in DOMAIN bucket : n.kind = "image" => n \in ImageNames(floor)
      /\ Stored \subseteq DeltaNames(L) /\ deltas \subseteq Stored
  BY StoredNames DEF PageInv, TypeInv
<1>9. \A d \in Stored : /\ d.lo \in Nat /\ d.hi \in Nat /\ 1 <= d.lo /\ d.lo <= d.hi
                        /\ d.kind = "delta"
  BY <1>8, DeltaFields
<1>10. TypeInv'
  <2>1. Names' = Names /\ ReaderType' = ReaderType /\ ImageNames(floor)' = ImageNames(floor)
    BY <1>1 DEF Names, ReaderType
  <2>2. DOMAIN bucket' \subseteq Names
    BY <1>3, <1>5 DEF PageInv, TypeInv, Names
  <2>3. DOMAIN cache' \subseteq Names
    <3>1. Live \subseteq Names
      BY LiveNames DEF PageInv
    <3> QED BY <1>1, <3>1 DEF Cached, PageInv, TypeInv
  <2>4. victims \subseteq DOMAIN bucket' /\ victims \cap Live' = {}
    <3>1. victims \subseteq DOMAIN bucket /\ victims \cap Live = {}
      BY DEF PageInv, TypeInv
    <3>2. I \notin victims
      <4> SUFFICES ASSUME I \in victims PROVE FALSE
        OBVIOUS
      <4>1. floor <= image.hi
        BY <3>1, <1>5 DEF PageInv, ImageInv
      <4>2. image.hi = floor
        BY <4>1, <1>4, <1>8
      <4>3. image = I /\ image # NoImage
        BY <4>2, <1>1, <1>8
      <4> QED BY <3>1, <4>3 DEF Live
    <3>3. Live' \subseteq Live \cup {I}
      BY <1>1, <1>7 DEF Live
    <3> QED BY <1>3, <3>1, <3>2, <3>3
  <2>5. deltas' \subseteq Stored'
    BY <1>6, <1>7, <1>8
  <2>6. image' \in DOMAIN bucket' \cap ImageNames(floor)'
    BY <1>1, <1>3, <1>5
  <2> QED BY <1>1, <2>1, <2>2, <2>3, <2>4, <2>5, <2>6 DEF PageInv, TypeInv
<1>11. ContentInv'
  <2>1. Exact(bucket)'
    <3>1. Content(log, I) = Folded(log, floor)
      BY <1>5 DEF Content
    <3> QED BY <1>1, <1>3, <3>1 DEF PageInv, ContentInv, Exact
  <2>2. Exact(cache)'
    <3> SUFFICES ASSUME NEW n \in Live \cup DOMAIN cache PROVE Cached(Live)[n] = Content(log, n)
      BY <1>1 DEF Exact, Cached
    <3>1. Present(n)
      BY <1>1 DEF Present
    <3>2. Loaded(n) = Content(log, n)
      BY <3>1, LoadedExact DEF PageInv
    <3> QED BY <3>2 DEF Cached
  <2> QED BY <1>1, <2>1, <2>2 DEF PageInv, ContentInv
<1>12. ImageInv'
  <2>1. ASSUME NEW n \in DOMAIN bucket', n.kind = "image" PROVE n.hi <= floor
    <3>1. n \in ImageNames(floor)
      BY <2>1, <1>3, <1>5, <1>8
    <3> QED BY <3>1, ImageFields
  <2>2. \A l \in (flushedHw + 1)..floor : log[l] = Wal
    <3> TAKE l \in (flushedHw + 1)..floor
    <3>1. l \in (flushedHw + 1)..L
      BY <1>4
    <3>2. Versions(log, flushedHw + 1, L) = {}
      BY <1>1 DEF PageInv, ContentInv
    <3> QED BY <3>1, <3>2 DEF Versions
  <2> QED BY <1>1, <1>5, <2>1, <2>2 DEF ImageInv
<1>13. OrderInv'
  BY <1>1, <1>6 DEF PageInv, OrderInv
<1>14. CoverInv'
  <2>1. ASSUME NEW l \in 1..flushedHw, log[l] # Wal
        PROVE  \/ \E d \in deltas' : Holds(d, l)
               \/ l <= floor /\ \A e \in deltas' : l < e.lo
    <3>1. CASE l <= floor
      <4> SUFFICES ASSUME NEW e \in deltas', ~(l < e.lo) PROVE Holds(e, l)
        BY <3>1
      <4>1. e.lo \in Nat /\ e.hi \in Nat /\ e.hi > floor
        BY <1>7, <1>8, <1>9
      <4> QED BY <4>1, <3>1, <1>4 DEF Holds
    <3>2. CASE ~(l <= floor)
      <4>1. \E d \in deltas : Holds(d, l)
        <5>1. ~(l <= image.hi)
          BY <3>2, <1>4, <1>8
        <5> QED BY <5>1, <2>1 DEF PageInv, CoverInv, Covered
      <4>2. PICK d \in deltas : Holds(d, l)
        BY <4>1
      <4>3. d.hi > floor
        BY <4>2, <3>2, <1>4, <1>8, <1>9 DEF Holds
      <4> QED BY <4>2, <4>3, <1>7
    <3> QED BY <3>1, <3>2
  <2>2. Covered(deltas)'
    BY <1>1, <1>5, <2>1 DEF Covered
  <2>3. Covered(Stored)'
    <3>1. \A l \in 1..flushedHw : l <= image.hi => l <= floor
      BY <1>4, <1>8
    <3>2. Covered(Stored)
      BY DEF PageInv, CoverInv
    <3> QED BY <1>1, <1>5, <1>6, <3>1, <3>2 DEF Covered
  <2> QED BY <2>2, <2>3 DEF CoverInv
<1>15. GcInv'
  <2>1. ASSUME NEW n \in Stored \ deltas', n.lo <= flushedHw
        PROVE  \/ \A e \in deltas' : ~Before(e, n)
               \/ \E d \in deltas' : d.lo = n.lo /\ n.hi < d.hi
    <3>1. n.lo \in Nat /\ n.hi \in Nat /\ n.lo <= n.hi /\ n.kind = "delta"
      BY <1>9
    <3>2. CASE n.hi <= floor
      <4>1. ASSUME NEW e \in deltas' PROVE ~Before(e, n)
        <5>1. e \in Stored /\ e.lo \in Nat /\ e.hi \in Nat /\ e.hi > floor /\ e.kind = "delta"
          BY <1>7, <1>8, <1>9
        <5>2. e.lo < n.lo => e.hi < n.lo
          BY <5>1 DEF PageInv, OrderInv
        <5> QED BY <5>1, <5>2, <3>1, <3>2, <1>4 DEF Before
      <4> QED BY <4>1
    <3>3. CASE ~(n.hi <= floor)
      <4>1. n \in Stored \ deltas
        BY <3>1, <3>3, <1>4, <1>7
      <4>2. \/ \A e \in deltas : ~Before(e, n)
            \/ \E d \in deltas : d.lo = n.lo /\ n.hi < d.hi
        BY <2>1, <4>1 DEF PageInv, GcInv, Shielded
      <4>3. ASSUME NEW d \in deltas, d.lo = n.lo, n.hi < d.hi PROVE d \in deltas'
        <5>1. d.hi \in Nat
          BY <1>8, <1>9
        <5> QED BY <5>1, <4>3, <3>1, <3>3, <1>4, <1>7
      <4> QED BY <4>2, <4>3, <1>7
    <3> QED BY <3>2, <3>3
  <2>2. Shielded(Stored \ deltas, deltas)'
    BY <1>1, <1>6, <2>1 DEF Shielded
  <2>3. Shielded(Stored \cap victims, Stored \ victims)'
    BY <1>1, <1>6 DEF PageInv, GcInv, Shielded
  <2> QED BY <2>2, <2>3 DEF GcInv
<1>16. ReadInv'
  BY <1>1, ReadFrame DEF PageInv
<1> QED BY <1>10, <1>11, <1>12, <1>13, <1>14, <1>15, <1>16 DEF PageInv

\* What recovery finds: the greatest name in the bucket is the end of what was
\* flushed, and everything up to it is covered by the layers that are there.
LEMMA DiscoveredFields ==
    ASSUME PageInv
    PROVE  /\ Discovered.deltas = Stored /\ Discovered.image = image
           /\ Discovered.flushedHw \in Nat /\ Discovered.flushedHw <= Len(log)
           /\ \A n \in DOMAIN bucket : n.hi <= Discovered.flushedHw
           /\ image.hi <= Discovered.flushedHw
           /\ Discovered.memtable = Versions(log, Discovered.flushedHw + 1, Len(log))
           /\ \A l \in 1..Discovered.flushedHw :
                 log[l] # Wal => \/ \E d \in Stored : Holds(d, l)
                                 \/ l <= image.hi /\ \A e \in Stored : l < e.lo
<1> DEFINE L == Len(log)
           H == {n.hi : n \in DOMAIN bucket} \cup {0}
           J == {n.hi : n \in {m \in DOMAIN bucket : m.kind = "image"}} \cup {0}
           hw == Max(H)
           top == Max(J)
<1>1. /\ Discovered.deltas = Stored /\ Discovered.image = Image(top)
      /\ Discovered.flushedHw = hw
      /\ Discovered.memtable = {[page |-> log[l], lsn |-> l] :
                                   l \in {k \in DOMAIN log : k > hw /\ log[k] # Wal}}
  BY DEF Discovered, Stored
<1>2. /\ L \in Nat /\ log \in Seq(Items) /\ floor \in Nat /\ floor <= L
      /\ flushedHw \in Nat /\ flushedHw <= L
  BY DEF PageInv, TypeInv
<1>3. /\ image.hi \in Nat /\ image.hi <= floor /\ image = Image(image.hi)
      /\ (image # NoImage <=> image.hi # 0) /\ image.kind = "image"
      /\ \A n \in DOMAIN bucket : n.kind = "image" => n \in ImageNames(floor)
      /\ \A n \in DOMAIN bucket : n.kind = "image" \/ n \in Stored
      /\ Stored \subseteq DeltaNames(L)
  BY StoredNames DEF PageInv
<1>4. \A n \in DOMAIN bucket : n.hi \in Nat /\ n.hi <= L
  <2> TAKE n \in DOMAIN bucket
  <2>1. CASE n \in Stored
    BY <2>1, <1>3, DeltaFields
  <2>2. CASE n \in ImageNames(floor)
    BY <2>2, <1>2, ImageFields
  <2> QED BY <2>1, <2>2, <1>3
<1>5. hw \in H /\ \A y \in H : y <= hw
  <2>1. H \subseteq Nat /\ H # {} /\ \A x \in H : x <= L
    BY <1>2, <1>4
  <2> HIDE DEF H
  <2> QED BY <2>1, <1>2, MaxOfBounded
<1>6. hw \in Nat /\ hw <= L /\ \A n \in DOMAIN bucket : n.hi <= hw
  BY <1>2, <1>4, <1>5
<1>7. top = image.hi
  <2>1. J \subseteq Nat /\ J # {} /\ \A x \in J : x <= image.hi
    BY <1>3, <1>4 DEF PageInv, ImageInv
  <2>2. image.hi \in J
    <3>1. CASE image = NoImage
      BY <3>1, <1>3
    <3>2. CASE image # NoImage
      BY <3>2, <1>3 DEF PageInv, TypeInv
    <3> QED BY <3>1, <3>2
  <2>3. top \in J /\ \A y \in J : y <= top
    <3> HIDE DEF J
    <3> QED BY <2>1, <1>3, MaxOfBounded
  <2> HIDE DEF J
  <2> QED BY <2>1, <2>2, <2>3, <1>3
<1>8. image.hi <= hw
  <2>1. CASE image = NoImage
    BY <2>1, <1>3, <1>6
  <2>2. CASE image # NoImage
    BY <2>2, <1>6 DEF PageInv, TypeInv
  <2> QED BY <2>1, <2>2
<1> HIDE DEF hw, top
<1>9. Discovered.memtable = Versions(log, hw + 1, L)
  <2>1. \A k : k \in DOMAIN log /\ k > hw <=> k \in (hw + 1)..L
    BY <1>2, <1>6
  <2> QED BY <1>1, <2>1 DEF Versions, Version
<1>10. ASSUME NEW l \in 1..hw, log[l] # Wal
       PROVE  \/ \E d \in Stored : Holds(d, l)
              \/ l <= image.hi /\ \A e \in Stored : l < e.lo
  <2>1. CASE l <= flushedHw
    <3>1. l \in 1..flushedHw
      BY <2>1, <1>2, <1>6
    <3> QED BY <3>1, <1>10 DEF PageInv, CoverInv, Covered
  <2>2. CASE ~(l <= flushedHw)
    <3>1. PICK n \in DOMAIN bucket : n.hi = hw
      BY <1>2, <1>5, <1>6
    <3>2. n.kind # "image"
      <4> SUFFICES ASSUME n.kind = "image" PROVE FALSE
        OBVIOUS
      <4>1. hw <= image.hi
        BY <3>1 DEF PageInv, ImageInv
      <4>2. l \in (flushedHw + 1)..image.hi
        BY <4>1, <2>2, <1>2, <1>3, <1>6
      <4> QED BY <4>2, <1>10 DEF PageInv, ImageInv
    <3>3. n \in Stored /\ n.lo \in Nat
      BY <3>2, <1>3, DeltaFields
    <3>4. n.lo = flushedHw + 1
      <4>1. n.lo = flushedHw + 1 \/ n.hi <= flushedHw
        BY <3>3 DEF PageInv, OrderInv
      <4> QED BY <4>1, <3>1, <2>2, <1>2, <1>6
    <3>5. Holds(n, l)
      BY <3>1, <3>4, <2>2, <1>2, <1>6 DEF Holds
    <3> QED BY <3>3, <3>5
  <2> QED BY <2>1, <2>2
<1> QED BY <1>1, <1>3, <1>6, <1>7, <1>8, <1>9, <1>10

\* A crash and recovery from what the bucket holds then preserve the invariant.
LEMMA CrashInv == ASSUME PageInv, CrashAndReopen PROVE PageInv'
<1> DEFINE hw == Discovered.flushedHw
<1>1. /\ deltas' = Stored /\ image' = image /\ flushedHw' = hw
      /\ memtable' = Versions(log, hw + 1, Len(log)) /\ floor' = floorObj
      /\ cache' = [n \in {} |-> {}] /\ victims' = {}
      /\ reader' = [r \in Readers |-> AtRest]
      /\ UNCHANGED <<log, bucket, floorObj>>
  BY DiscoveredFields DEF CrashAndReopen, durable
<1>2. /\ hw \in Nat /\ hw <= Len(log)
      /\ \A n \in DOMAIN bucket : n.hi <= hw
      /\ image.hi <= hw
      /\ \A l \in 1..hw :
            log[l] # Wal => \/ \E d \in Stored : Holds(d, l)
                            \/ l <= image.hi /\ \A e \in Stored : l < e.lo
  BY DiscoveredFields
<1> HIDE DEF hw
<1>3. /\ Stored' = Stored
      /\ floor \in Nat /\ floor' \in Nat /\ floor <= floor' /\ floor' <= Len(log)
  BY <1>1 DEF Stored, PageInv, TypeInv
<1>4. TypeInv'
  <2>1. ImageNames(floor) \subseteq ImageNames(floor')
    BY <1>3 DEF ImageNames
  <2>2. Names \subseteq Names' /\ ReaderType \subseteq ReaderType'
    BY <1>1, <2>1 DEF Names, ReaderType
  <2>3. AtRest \in ReaderType
    BY DEF AtRest, ReaderType, Items
  <2>4. reader' \in [Readers -> ReaderType']
    BY <1>1, <2>2, <2>3
  <2>5. DOMAIN cache' = {}
    BY <1>1
  <2>6. DOMAIN bucket' \subseteq Names'
    BY <1>1, <2>2 DEF PageInv, TypeInv
  <2>7. image' = NoImage \/ image' \in DOMAIN bucket' \cap ImageNames(floor)'
    BY <1>1, <2>1 DEF PageInv, TypeInv
  <2>8. log' \in Seq(Items) /\ flushedHw' \in Nat /\ flushedHw' <= Len(log')
    BY <1>1, <1>2 DEF PageInv, TypeInv
  <2>9. floorObj' = floor' /\ Len(log') = Len(log)
    BY <1>1
  <2>10. deltas' \subseteq Stored' /\ victims' = {}
    BY <1>1, <1>3
  <2> QED BY <1>3, <2>4, <2>5, <2>6, <2>7, <2>8, <2>9, <2>10 DEF TypeInv
<1>5. ContentInv'
  BY <1>1 DEF PageInv, ContentInv, Exact
<1>6. ImageInv'
  <2>1. image.hi \in Nat
    BY StoredNames DEF PageInv
  <2>2. \A l \in (hw + 1)..image.hi : FALSE
    BY <1>2, <2>1
  <2> QED BY <1>1, <2>2 DEF PageInv, ImageInv
<1>7. OrderInv'
  BY <1>1, <1>2, <1>3 DEF PageInv, OrderInv, Stored
<1>8. CoverInv'
  BY <1>1, <1>2, <1>3 DEF CoverInv, Covered
<1>9. GcInv'
  BY <1>1, <1>3 DEF GcInv, Shielded
<1>10. ReadInv'
  BY <1>1 DEF ReadInv, AtRest
<1> QED BY <1>4, <1>5, <1>6, <1>7, <1>8, <1>9, <1>10 DEF PageInv

\* A version in the memtable is the one to return.
LEMMA MemtableHit ==
    ASSUME PageInv, NEW p \in Pages, NEW q \in Nat
    PROVE  /\ Best(memtable, p, q) # 0 => Best(memtable, p, q) = Contract!AtOrBefore(log, p, q)
           /\ Best(memtable, p, q) = 0 => Contract!AtOrBefore(log, p, q) <= flushedHw
<1> DEFINE L == Len(log)
           b == Best(memtable, p, q)
           v == Contract!AtOrBefore(log, p, q)
<1>1. L \in Nat /\ log \in Seq(Items) /\ flushedHw \in Nat /\ flushedHw <= L
      /\ memtable = Versions(log, flushedHw + 1, L)
  BY DEF PageInv, TypeInv, ContentInv
<1>2. IsBest(b, At(log, p, q, flushedHw + 1, L))
  <2> DEFINE lo == flushedHw + 1
  <2>1. lo \in Nat /\ 1 <= lo
    BY <1>1
  <2> HIDE DEF lo
  <2>2. IsBest(Best(Versions(log, lo, L), p, q), At(log, p, q, lo, L))
    BY <1>1, <2>1, BestInDelta
  <2> QED BY <1>1, <2>2 DEF lo
<1>3. IsBest(v, At(log, p, q, 1, L))
  BY <1>1, BestInHistory
<1> HIDE DEF b, v
<1>4. \A l \in At(log, p, q, 1, L) : l \in Nat /\ (l <= flushedHw \/ l \in At(log, p, q, flushedHw + 1, L))
  BY <1>1 DEF At
<1>5. \A l \in At(log, p, q, flushedHw + 1, L) : l \in Nat /\ flushedHw < l /\ l \in At(log, p, q, 1, L)
  BY <1>1 DEF At
<1>6. CASE b # 0
  <2>1. b \in At(log, p, q, flushedHw + 1, L) /\ b \in Nat
    BY <1>2, <1>6 DEF IsBest
  <2>2. \A l \in At(log, p, q, 1, L) : l <= b
    <3> TAKE l \in At(log, p, q, 1, L)
    <3>1. l <= flushedHw => l <= b
      BY <1>1, <1>4, <1>5, <2>1
    <3> QED BY <3>1, <1>2, <1>4 DEF IsBest
  <2>3. b \in At(log, p, q, 1, L)
    BY <1>5, <2>1
  <2>4. IsBest(b, At(log, p, q, 1, L))
    BY <2>1, <2>2, <2>3 DEF IsBest
  <2>5. At(log, p, q, 1, L) \subseteq Nat \ {0}
    BY DEF At
  <2>6. b = v
    BY <1>3, <2>4, <2>5, BestUnique
  <2> QED BY <1>6, <2>6 DEF b, v
<1>7. CASE b = 0
  <2>1. At(log, p, q, flushedHw + 1, L) = {}
    BY <1>1, <1>2, <1>5, <1>7 DEF IsBest
  <2>2. v <= flushedHw
    BY <1>1, <1>3, <1>4, <2>1 DEF IsBest
  <2> QED BY <1>7, <2>2 DEF b, v
<1> QED BY <1>6, <1>7

\* A step of one reader keeps everything but the reads.
LEMMA ReaderStep ==
    ASSUME PageInv, NEW r \in Readers, NEW x, x \in ReaderType,
           reader' = [reader EXCEPT ![r] = x],
           UNCHANGED <<log, floor, floorObj, bucket, memtable, flushedHw, deltas, image, victims>>,
           DOMAIN cache' \subseteq Names, Exact(cache)', ReadInv'
    PROVE  PageInv'
<1>1. Stored' = Stored /\ Live' = Live /\ Names' = Names /\ ReaderType' = ReaderType
  BY DEF Stored, Live, Names, ReaderType
<1>2. reader' \in [Readers -> ReaderType]
  BY DEF PageInv, TypeInv
<1>3. TypeInv'
  BY <1>1, <1>2 DEF PageInv, TypeInv
<1>4. ContentInv' /\ ImageInv' /\ OrderInv' /\ CoverInv' /\ GcInv'
  <2>1. ContentInv'
    BY DEF PageInv, ContentInv, Exact
  <2>2. ImageInv' /\ OrderInv'
    BY <1>1 DEF PageInv, ImageInv, OrderInv
  <2>3. CoverInv' /\ GcInv'
    BY <1>1 DEF PageInv, CoverInv, Covered, GcInv, Shielded
  <2> QED BY <2>1, <2>2, <2>3
<1> QED BY <1>3, <1>4 DEF PageInv

\* Only the reader that moved has to be looked at.
LEMMA ReadsKept ==
    ASSUME PageInv, NEW r \in Readers, NEW x,
           reader' = [reader EXCEPT ![r] = x], log' = log,
           x.pc = "deltas" => Searching(log, x)
    PROVE  ReadInv'
<1> SUFFICES ASSUME NEW s \in Readers, reader'[s].pc = "deltas" PROVE Searching(log, reader'[s])
  BY DEF ReadInv
<1>1. DOMAIN reader = Readers
  BY DEF PageInv, TypeInv
<1>2. reader'[s] = IF s = r THEN x ELSE reader[s]
  BY <1>1
<1> QED BY <1>2 DEF PageInv, ReadInv

\* What get_page picks under the lock is enough to find the version to return.
Picked(p, q) ==
    [pc |-> "deltas", page |-> p, query |-> q, image |-> image,
     todo |-> {d \in deltas : d.lo <= q}, want |-> Contract!AtOrBefore(log, p, q),
     got |-> Pending]

\* They are enough when the memtable has no version: a flushed one is covered.
LEMMA PickedSearches ==
    ASSUME PageInv, NEW p \in Pages, NEW q \in Nat, floor <= q, Best(memtable, p, q) = 0
    PROVE  Searching(log, Picked(p, q)) /\ Picked(p, q) \in ReaderType
<1> DEFINE L == Len(log)
           v == Contract!AtOrBefore(log, p, q)
           todo == {d \in deltas : d.lo <= q}
           m == image.hi
<1>1. /\ L \in Nat /\ log \in Seq(Items) /\ flushedHw \in Nat /\ flushedHw <= L
      /\ floor \in Nat /\ floor <= L
  BY DEF PageInv, TypeInv
<1>2. m \in Nat /\ m <= floor /\ deltas \subseteq DeltaNames(L)
  BY StoredNames DEF PageInv
<1>3. IsBest(v, At(log, p, q, 1, L))
  BY <1>1, BestInHistory
<1>4. v <= flushedHw
  BY MemtableHit
<1>5. /\ Picked(p, q).page = p /\ Picked(p, q).query = q /\ Picked(p, q).image = image
      /\ Picked(p, q).todo = todo /\ Picked(p, q).want = v /\ Picked(p, q).got = Pending
      /\ Picked(p, q).pc = "deltas"
  BY DEF Picked
<1>6. image \in ImageNames(floor) \cup {NoImage}
  BY DEF PageInv, TypeInv
<1> HIDE DEF v
<1>7. \A d \in todo : /\ d \in deltas /\ d.lo \in Nat /\ d.hi \in Nat /\ 1 <= d.lo
                      /\ d.lo <= d.hi /\ d.hi <= L /\ d.lo <= q
  BY <1>2, DeltaFields
<1>8. \A d \in deltas : d.lo <= q => d \in todo
  OBVIOUS
<1>9. todo \subseteq DeltaNames(L)
  BY <1>2
<1> HIDE DEF todo, m
<1>10. v \in Nat /\ \A l \in 1..L : log[l] = p /\ l <= q => l <= v
  BY <1>3 DEF IsBest, At
<1>11. v # 0 => v \in 1..L /\ log[v] = p /\ v <= q
  BY <1>3 DEF IsBest, At
<1>12. \A d \in todo : \A l \in d.lo..d.hi : l \in 1..L /\ d.lo <= l
  BY <1>1, <1>7
<1>13. \A l \in 1..m : l \in 1..L /\ l <= q
  BY <1>1, <1>2
<1>14. \/ v # 0 /\ \E d \in todo : Holds(d, v)
       \/ v <= m /\ \A d \in todo : ~VersionIn(log, d, p, q)
  <2>1. CASE v = 0
    <3>1. ASSUME NEW d \in todo, VersionIn(log, d, p, q) PROVE FALSE
      <4>1. PICK l \in d.lo..d.hi : log[l] = p /\ l <= q
        BY <3>1 DEF VersionIn
      <4>2. l \in 1..L
        BY <1>12
      <4> QED BY <4>1, <4>2, <1>10, <2>1
    <3> QED BY <2>1, <3>1, <1>2 DEF m
  <2>2. CASE v # 0
    <3>1. v \in 1..flushedHw /\ log[v] # Wal
      BY <2>2, <1>1, <1>4, <1>10, <1>11, PageStoreBounds
    <3>2. \/ \E d \in deltas : Holds(d, v)
          \/ v <= m /\ \A e \in deltas : v < e.lo
      BY <3>1 DEF PageInv, CoverInv, Covered, m
    <3>3. ASSUME NEW d \in deltas, Holds(d, v) PROVE d \in todo
      <4>1. d.lo <= v /\ v <= q /\ d.lo \in Nat /\ v \in Nat
        BY <3>3, <2>2, <1>2, <1>10, <1>11, DeltaFields DEF Holds
      <4> QED BY <4>1, <1>8
    <3>4. ASSUME v <= m, \A e \in deltas : v < e.lo, NEW d \in todo, VersionIn(log, d, p, q)
          PROVE FALSE
      <4>1. PICK l \in d.lo..d.hi : log[l] = p /\ l <= q
        BY <3>4 DEF VersionIn
      <4>2. l \in 1..L /\ d.lo <= l /\ v < d.lo /\ d.lo \in Nat
        BY <1>7, <1>12, <3>4
      <4>3. l <= v
        BY <4>1, <4>2, <1>10
      <4> QED BY <4>2, <4>3, <1>10
    <3> QED BY <2>2, <3>2, <3>3, <3>4
  <2> QED BY <2>1, <2>2
<1>15. Searching(log, Picked(p, q))
  <2>1. \A d \in todo : \A l \in d.lo..d.hi : log[l] = p /\ l <= q => l <= v
    BY <1>10, <1>12
  <2>2. \A l \in 1..m : log[l] = p => l <= v
    BY <1>10, <1>13
  <2>3. v # 0 => v \in DOMAIN log /\ log[v] = p /\ v <= q
    BY <1>1, <1>11
  <2>4. m <= q
    BY <1>1, <1>2 DEF m
  <2> QED BY <1>5, <1>14, <2>1, <2>2, <2>3, <2>4 DEF Searching, m
<1>16. Picked(p, q) \in ReaderType
  BY <1>6, <1>9, <1>10 DEF Picked, ReaderType, Items, todo, v
<1> QED BY <1>15, <1>16

\* A reader at rest with the answer v.
LEMMA AtRestFields ==
    ASSUME NEW w \in Nat, NEW v \in Nat \cup {Failed}
    PROVE  LET x == [AtRest EXCEPT !.want = w, !.got = v]
           IN  x \in ReaderType /\ x.pc = "idle" /\ x.want = w /\ x.got = v
BY DEF AtRest, ReaderType, Items

\* GetPage preserves the invariant.
LEMMA GetPageInv ==
    ASSUME PageInv, NEW r \in Readers, NEW p \in Pages, NEW q \in Nat, GetPage(r, p, q)
    PROVE  PageInv'
<1> DEFINE want == Contract!AtOrBefore(log, p, q)
           hit  == Best(memtable, p, q)
           x == IF hit # 0 THEN [AtRest EXCEPT !.want = want, !.got = hit] ELSE Picked(p, q)
<1>1. /\ reader' = [reader EXCEPT ![r] = x] /\ q >= floor
      /\ UNCHANGED <<log, floor, floorObj, bucket, memtable, flushedHw, deltas, image, victims, cache>>
  BY DEF GetPage, Picked, durable, inner
<1>2. floor \in Nat /\ log \in Seq(Items)
  BY DEF PageInv, TypeInv
<1>3. want \in Nat
  BY <1>2, BestInHistory DEF IsBest
<1>4. hit # 0 => hit = want
  BY MemtableHit
<1>5. x \in ReaderType /\ (x.pc = "deltas" => Searching(log, x))
  <2>1. CASE hit # 0
    <3>1. x = [AtRest EXCEPT !.want = want, !.got = want]
      BY <2>1, <1>4
    <3> HIDE DEF x, want, hit
    <3> QED BY <3>1, <1>3, AtRestFields
  <2>2. CASE hit = 0
    <3>1. x = Picked(p, q)
      BY <2>2
    <3>2. floor <= q
      BY <1>1, <1>2
    <3> QED BY <2>2, <3>1, <3>2, PickedSearches
  <2> QED BY <2>1, <2>2
<1> HIDE DEF x
<1>6. ReadInv'
  BY <1>1, <1>5, ReadsKept
<1>7. DOMAIN cache' \subseteq Names /\ Exact(cache)'
  BY <1>1 DEF PageInv, TypeInv, ContentInv, Exact
<1> QED BY <1>1, <1>5, <1>6, <1>7, ReaderStep

\* The types of a read that goes on.
LEMMA ReadTypes ==
    ASSUME PageInv, NEW r \in Readers, reader[r].pc = "deltas"
    PROVE  /\ Searching(log, reader[r]) /\ reader[r] \in ReaderType
           /\ log \in Seq(Items) /\ Len(log) \in Nat /\ floor \in Nat /\ floor <= Len(log)
           /\ reader[r].page \in Pages /\ reader[r].query \in Nat /\ reader[r].want \in Nat
           /\ reader[r].todo \subseteq DeltaNames(Len(log)) /\ reader[r].image.hi \in Nat
           /\ reader[r].image.hi <= floor
           /\ reader[r].image \in ImageNames(floor) \cup {NoImage}
           /\ reader[r].image # NoImage => reader[r].image.hi # 0
<1>1. /\ Searching(log, reader[r]) /\ reader[r] \in ReaderType
      /\ log \in Seq(Items) /\ Len(log) \in Nat /\ floor \in Nat /\ floor <= Len(log)
  BY DEF PageInv, TypeInv, ReadInv
<1>2. /\ reader[r].page \in Pages /\ reader[r].query \in Nat /\ reader[r].want \in Nat
      /\ reader[r].todo \subseteq DeltaNames(Len(log))
      /\ reader[r].image \in ImageNames(floor) \cup {NoImage}
  BY <1>1 DEF Searching, ReaderType
<1>3. /\ reader[r].image.hi \in Nat /\ reader[r].image.hi <= floor
      /\ reader[r].image # NoImage => reader[r].image.hi # 0
  <2>1. CASE reader[r].image = NoImage
    BY <2>1, <1>1 DEF NoImage, Image
  <2>2. CASE reader[r].image \in ImageNames(floor)
    BY <2>2, ImageFields
  <2> QED BY <1>2, <2>1, <2>2
<1> QED BY <1>1, <1>2, <1>3

\* The newest of the deltas still to read.
Newest(ds) == CHOOSE x \in ds : \A y \in ds : y.hi <= x.hi

\* It exists in any set of deltas of the log.
LEMMA NewestExists ==
    ASSUME NEW k \in Nat, NEW ds, ds \subseteq DeltaNames(k), ds # {}
    PROVE  Newest(ds) \in ds /\ \A y \in ds : y.hi <= Newest(ds).hi
<1> DEFINE T == {y.hi : y \in ds}
<1>1. T \subseteq Nat /\ T # {} /\ \A h \in T : h <= k
  BY DeltaFields
<1>2. \A y \in ds : y.hi \in T
  OBVIOUS
<1>3. \A h \in T : \E y \in ds : y.hi = h
  OBVIOUS
<1> HIDE DEF T
<1>4. PICK h \in T : \A g \in T : g <= h
  BY <1>1, GreatestNat
<1>5. \E x \in ds : \A y \in ds : y.hi <= x.hi
  BY <1>2, <1>3, <1>4
<1> QED BY <1>5 DEF Newest

\* What the newest delta has is the version to return; when it has none, the
\* other layers that were picked are still enough.
LEMMA DeltaAnswer ==
    ASSUME PageInv, NEW r \in Readers, reader[r].pc = "deltas", reader[r].todo # {}
    PROVE  LET d == Newest(reader[r].todo)
               v == Best(Loaded(d), reader[r].page, reader[r].query)
           IN  /\ d \in reader[r].todo /\ d \in Names
               /\ Present(d) /\ v # 0 => v = reader[r].want
               /\ Present(d) /\ v = 0 => Searching(log, [reader[r] EXCEPT !.todo = @ \ {d}])
<1> DEFINE L == Len(log)
           todo == reader[r].todo
           p == reader[r].page
           q == reader[r].query
           w == reader[r].want
           m == reader[r].image.hi
           d == Newest(todo)
           v == Best(Loaded(d), p, q)
           x == [reader[r] EXCEPT !.todo = @ \ {d}]
<1>1. /\ Searching(log, reader[r]) /\ reader[r] \in ReaderType
      /\ log \in Seq(Items) /\ L \in Nat /\ p \in Pages /\ q \in Nat /\ w \in Nat
      /\ todo \subseteq DeltaNames(L) /\ todo # {}
  BY ReadTypes
<1>2. /\ x.page = p /\ x.query = q /\ x.want = w /\ x.got = reader[r].got
      /\ x.image = reader[r].image /\ x.todo = todo \ {d}
  BY <1>1 DEF ReaderType
<1>3. /\ m <= q /\ reader[r].got = Pending
      /\ \A e \in todo : \A l \in e.lo..e.hi : log[l] = p /\ l <= q => l <= w
      /\ \A l \in 1..m : log[l] = p => l <= w
      /\ w # 0 => w \in DOMAIN log /\ log[w] = p /\ w <= q
      /\ \/ w # 0 /\ \E e \in todo : Holds(e, w)
         \/ w <= m /\ \A e \in todo : ~VersionIn(log, e, p, q)
  BY <1>1 DEF Searching
<1> HIDE DEF todo, p, q, w, x
<1>4. d \in todo /\ \A y \in todo : y.hi <= d.hi
  BY <1>1, NewestExists
<1> HIDE DEF d
<1>5. /\ d.kind = "delta" /\ d.lo \in Nat /\ d.hi \in Nat /\ 1 <= d.lo /\ d.hi <= L
      /\ \A y \in todo : y.hi \in Nat
  BY <1>1, <1>4, DeltaFields
<1>6. d \in Names
  BY <1>1, <1>4 DEF Names
<1>7. Present(d) => IsBest(v, At(log, p, q, d.lo, d.hi))
  <2>1. Present(d) => Loaded(d) = Versions(log, d.lo, d.hi)
    BY <1>5, LoadedExact DEF PageInv, Content
  <2> QED BY <2>1, <1>1, <1>5, BestInDelta
<1> HIDE DEF v
<1>8. ASSUME Present(d), v # 0 PROVE v = w
  <2>1. v \in d.lo..d.hi /\ log[v] = p /\ v <= q /\ v \in Nat
    BY <1>7, <1>8 DEF IsBest, At
  <2>2. v <= w /\ VersionIn(log, d, p, q)
    BY <2>1, <1>3, <1>4 DEF VersionIn
  <2>3. PICK e \in todo : w # 0 /\ Holds(e, w)
    BY <2>2, <1>3, <1>4
  <2>4. w <= e.hi /\ e.hi <= d.hi /\ e.hi \in Nat
    BY <2>3, <1>4, <1>5 DEF Holds
  <2>5. w \in d.lo..d.hi
    BY <2>1, <2>2, <2>4, <1>1, <1>5
  <2>6. w \in At(log, p, q, d.lo, d.hi)
    BY <2>3, <2>5, <1>3 DEF At
  <2>7. w <= v
    BY <2>6, <1>7, <1>8 DEF IsBest
  <2> QED BY <2>1, <2>2, <2>7, <1>1
<1>9. ASSUME Present(d), v = 0 PROVE Searching(log, x)
  <2>1. ~VersionIn(log, d, p, q)
    <3>1. SUFFICES ASSUME NEW l \in d.lo..d.hi, log[l] = p, l <= q PROVE FALSE
      BY DEF VersionIn
    <3>2. l \in At(log, p, q, d.lo, d.hi)
      BY <3>1 DEF At
    <3>3. l <= 0
      BY <3>2, <1>7, <1>9 DEF IsBest
    <3> QED BY <3>3, <1>5
  <2>2. ~(w # 0 /\ Holds(d, w))
    BY <2>1, <1>1, <1>3, <1>5 DEF VersionIn, Holds
  <2>3. \/ w # 0 /\ \E e \in todo \ {d} : Holds(e, w)
        \/ w <= m /\ \A e \in todo \ {d} : ~VersionIn(log, e, p, q)
    BY <2>2, <1>3
  <2> QED BY <2>3, <1>1, <1>2, <1>3 DEF Searching
<1> QED BY <1>4, <1>6, <1>8, <1>9 DEF todo, p, q, w, d, v, x

\* Loading a layer leaves the cache exact.
LEMMA CachedExact ==
    ASSUME PageInv, NEW n \in Names, Present(n), cache' = Cached({n}), UNCHANGED <<log, floor>>
    PROVE  DOMAIN cache' \subseteq Names /\ Exact(cache)'
<1>1. DOMAIN cache' = {n} \cup DOMAIN cache /\ DOMAIN cache \subseteq Names
  BY DEF Cached, PageInv, TypeInv
<1>2. \A k \in DOMAIN cache' : Present(k) /\ cache'[k] = Loaded(k)
  BY <1>1 DEF Cached, Present
<1>3. \A k \in DOMAIN cache' : cache'[k] = Content(log, k)
  BY <1>2, LoadedExact DEF PageInv
<1> QED BY <1>1, <1>3 DEF Exact

\* ReadDelta: an error, the answer, or one delta fewer to read.
LEMMA ReadDeltaCases ==
    ASSUME PageInv, NEW r \in Readers, ReadDelta(r)
    PROVE  /\ \E x \in ReaderType :
                 /\ reader' = [reader EXCEPT ![r] = x] /\ x.want = reader[r].want
                 /\ \/ x.pc = "idle" /\ x.got \in {reader[r].want, Failed}
                    \/ x.pc = "deltas" /\ Searching(log, x)
           /\ DOMAIN cache' \subseteq Names /\ Exact(cache)'
           /\ reader[r].pc = "deltas"
           /\ UNCHANGED <<log, floor, floorObj, bucket, memtable, flushedHw, deltas, image, victims>>
<1> DEFINE d == Newest(reader[r].todo)
           v == Best(Loaded(d), reader[r].page, reader[r].query)
           y == [reader[r] EXCEPT !.todo = @ \ {d}]
<1>1. /\ reader[r].pc = "deltas" /\ reader[r].todo # {}
      /\ UNCHANGED <<log, floor, floorObj, bucket, memtable, flushedHw, deltas, image, victims>>
      /\ IF ~Present(d) THEN Told(r, Failed) /\ UNCHANGED cache
         ELSE /\ cache' = Cached({d})
              /\ IF v # 0 THEN Told(r, v) ELSE reader' = [reader EXCEPT ![r].todo = @ \ {d}]
  BY DEF ReadDelta, Newest, durable, inner
<1>2. /\ d \in reader[r].todo /\ d \in Names
      /\ Present(d) /\ v # 0 => v = reader[r].want
      /\ Present(d) /\ v = 0 => Searching(log, y)
  BY <1>1, DeltaAnswer
<1>3. reader[r].want \in Nat /\ reader[r] \in ReaderType
  BY <1>1, ReadTypes
<1> HIDE DEF d, v
<1>4. y \in ReaderType /\ y.pc = "deltas" /\ y.want = reader[r].want
  BY <1>1, <1>3 DEF ReaderType
<1>5. CASE ~Present(d)
  <2> DEFINE x == [AtRest EXCEPT !.want = reader[r].want, !.got = Failed]
  <2>1. reader' = [reader EXCEPT ![r] = x]
    BY <1>1, <1>5 DEF Told
  <2>3. x \in ReaderType /\ x.pc = "idle" /\ x.want = reader[r].want /\ x.got = Failed
    BY <1>3, AtRestFields
  <2>2. DOMAIN cache' \subseteq Names /\ Exact(cache)'
    BY <1>1, <1>5 DEF PageInv, TypeInv, ContentInv, Exact
  <2> HIDE DEF x
  <2> QED BY <1>1, <2>1, <2>2, <2>3
<1>6. CASE Present(d)
  <2>1. DOMAIN cache' \subseteq Names /\ Exact(cache)'
    BY <1>1, <1>2, <1>6, CachedExact
  <2>2. CASE v # 0
    <3> DEFINE x == [AtRest EXCEPT !.want = reader[r].want, !.got = reader[r].want]
    <3>1. reader' = [reader EXCEPT ![r] = x]
      BY <1>1, <1>2, <1>6, <2>2 DEF Told
    <3>2. x \in ReaderType /\ x.pc = "idle" /\ x.want = reader[r].want /\ x.got = reader[r].want
      BY ZenonT(30), <1>3, AtRestFields
    <3> HIDE DEF x
    <3> QED BY <1>1, <2>1, <3>1, <3>2
  <2>3. CASE v = 0
    <3>1. reader' = [reader EXCEPT ![r] = y]
      BY <1>1, <1>6, <2>3
    <3> HIDE DEF y
    <3> QED BY <1>1, <1>2, <1>4, <1>6, <2>1, <2>3, <3>1
  <2> QED BY <2>2, <2>3
<1> QED BY <1>5, <1>6

\* ReadImage: an error or the answer.
LEMMA ReadImageCases ==
    ASSUME PageInv, NEW r \in Readers, ReadImage(r)
    PROVE  /\ \E x \in ReaderType :
                 /\ reader' = [reader EXCEPT ![r] = x] /\ x.want = reader[r].want
                 /\ x.pc = "idle" /\ x.got \in {reader[r].want, Failed}
           /\ DOMAIN cache' \subseteq Names /\ Exact(cache)'
           /\ reader[r].pc = "deltas"
           /\ UNCHANGED <<log, floor, floorObj, bucket, memtable, flushedHw, deltas, image, victims>>
<1> DEFINE n == reader[r].image
           p == reader[r].page
           q == reader[r].query
           w == reader[r].want
           Answer(v) == [AtRest EXCEPT !.want = w, !.got = v]
<1>1. /\ reader[r].pc = "deltas" /\ reader[r].todo = {}
      /\ UNCHANGED <<log, floor, floorObj, bucket, memtable, flushedHw, deltas, image, victims>>
      /\ IF n = NoImage \/ n.hi > q THEN Told(r, 0) /\ UNCHANGED cache
         ELSE IF ~Present(n) THEN Told(r, Failed) /\ UNCHANGED cache
         ELSE Told(r, Best(Loaded(n), p, q)) /\ cache' = Cached({n})
  BY DEF ReadImage, durable, inner
<1>2. /\ Searching(log, reader[r]) /\ log \in Seq(Items) /\ Len(log) \in Nat
      /\ floor \in Nat /\ floor <= Len(log) /\ p \in Pages /\ q \in Nat /\ w \in Nat
      /\ n.hi \in Nat /\ n.hi <= floor /\ n \in ImageNames(floor) \cup {NoImage}
  BY <1>1, ReadTypes
<1>3. /\ n.hi <= q /\ w <= n.hi
      /\ \A l \in 1..n.hi : log[l] = p => l <= w
      /\ w # 0 => w \in DOMAIN log /\ log[w] = p /\ w <= q
  BY <1>1, <1>2 DEF Searching
<1>4. \A v : Told(r, v) => reader' = [reader EXCEPT ![r] = Answer(v)]
  BY DEF Told
<1>5. \A v \in {w, Failed} : /\ Answer(v) \in ReaderType /\ Answer(v).want = w
                             /\ Answer(v).pc = "idle" /\ Answer(v).got \in {w, Failed}
  <2> TAKE v \in {w, Failed}
  <2>1. v \in Nat \cup {Failed}
    BY <1>2
  <2> HIDE DEF w
  <2> QED BY <1>2, <2>1, AtRestFields
<1> HIDE DEF Answer
<1>6. UNCHANGED cache => DOMAIN cache' \subseteq Names /\ Exact(cache)'
  BY <1>1 DEF PageInv, TypeInv, ContentInv, Exact
<1>7. CASE n = NoImage
  <2>1. w = 0
    BY <1>2, <1>3, <1>7 DEF NoImage, Image
  <2> QED BY <1>1, <1>4, <1>5, <1>6, <1>7, <2>1
<1>8. CASE n # NoImage
  <2>1. ~(n.hi > q) /\ n \in ImageNames(floor)
    BY <1>2, <1>3, <1>8
  <2>2. CASE ~Present(n)
    BY <1>1, <1>4, <1>5, <1>6, <1>8, <2>1, <2>2
  <2>3. CASE Present(n)
    <3>1. n \in Names
      BY <2>1 DEF Names
    <3>2. DOMAIN cache' \subseteq Names /\ Exact(cache)'
      BY <1>1, <1>8, <2>1, <2>3, <3>1, CachedExact
    <3>3. n.kind = "image"
      BY <2>1, ImageFields
    <3>4. Loaded(n) = Folded(log, n.hi)
      BY <2>3, <3>3, LoadedExact DEF PageInv, Content
    <3> DEFINE k == n.hi
    <3>5. k \in Nat /\ k <= Len(log) /\ k <= q
      BY <1>2, <1>3
    <3>6. \A l \in 1..k : log[l] = p => l <= w
      BY <1>3
    <3>7. w <= k
      BY <1>3
    <3> HIDE DEF k
    <3>8. IsBest(Best(Folded(log, k), p, q), At(log, p, q, 1, k))
      BY <1>2, <3>5, BestInImage
    <3>9. IsBest(w, At(log, p, q, 1, k))
      BY <1>2, <1>3, <3>6, <3>7, <3>5 DEF IsBest, At
    <3>10. At(log, p, q, 1, k) \subseteq Nat \ {0}
      BY DEF At
    <3>11. Best(Folded(log, k), p, q) = w
      BY <3>8, <3>9, <3>10, BestUnique
    <3>12. Told(r, w)
      BY <1>1, <1>8, <2>1, <2>3, <3>4, <3>11 DEF k
    <3> QED BY <1>1, <1>4, <1>5, <3>2, <3>12
  <2> QED BY <2>2, <2>3
<1> QED BY <1>7, <1>8

\* Both preserve the invariant.
LEMMA ReadDeltaInv == ASSUME PageInv, NEW r \in Readers, ReadDelta(r) PROVE PageInv'
<1>1. PICK x \in ReaderType :
         /\ reader' = [reader EXCEPT ![r] = x]
         /\ x.pc = "idle" \/ (x.pc = "deltas" /\ Searching(log, x))
  BY ReadDeltaCases
<1>2. /\ DOMAIN cache' \subseteq Names /\ Exact(cache)'
      /\ UNCHANGED <<log, floor, floorObj, bucket, memtable, flushedHw, deltas, image, victims>>
  BY ReadDeltaCases
<1>3. ReadInv'
  BY <1>1, <1>2, ReadsKept
<1> QED BY <1>1, <1>2, <1>3, ReaderStep

\* The same for the image.
LEMMA ReadImageInv == ASSUME PageInv, NEW r \in Readers, ReadImage(r) PROVE PageInv'
<1>1. PICK x \in ReaderType : reader' = [reader EXCEPT ![r] = x] /\ x.pc = "idle"
  BY ReadImageCases
<1>2. /\ DOMAIN cache' \subseteq Names /\ Exact(cache)'
      /\ UNCHANGED <<log, floor, floorObj, bucket, memtable, flushedHw, deltas, image, victims>>
  BY ReadImageCases
<1>3. ReadInv'
  BY <1>1, <1>2, ReadsKept
<1> QED BY <1>1, <1>2, <1>3, ReaderStep

-----------------------------------------------------------------------------
(* The invariant and the theorems.                                          *)

\* The store starts empty.
LEMMA InitInv == Init => PageInv
<1> SUFFICES ASSUME Init PROVE PageInv
  OBVIOUS
<1> USE DEF Init
<1>1. Stored = {} /\ Live = {} /\ DOMAIN bucket = {} /\ DOMAIN cache = {} /\ Len(log) = 0
  BY DEF Stored, Live
<1>2. AtRest \in ReaderType
  BY DEF AtRest, ReaderType, Items
<1>3. TypeInv
  BY <1>1, <1>2 DEF TypeInv
<1>4. ContentInv
  BY <1>1 DEF ContentInv, Exact, Versions
<1>5. ImageInv
  BY <1>1 DEF ImageInv, NoImage, Image
<1>6. OrderInv /\ CoverInv /\ GcInv
  BY <1>1 DEF OrderInv, CoverInv, Covered, GcInv, Shielded
<1>7. ReadInv
  BY DEF ReadInv, AtRest
<1> QED BY <1>3, <1>4, <1>5, <1>6, <1>7 DEF PageInv

\* A step that changes nothing.
LEMMA StutterInv == ASSUME PageInv, UNCHANGED vars PROVE PageInv'
<1>1. UNCHANGED <<log, bucket, floorObj, memtable, flushedHw, deltas, image, floor, cache, reader, victims>>
  BY DEF vars, durable, inner
<1>2. Stored' = Stored /\ Live' = Live /\ Names' = Names /\ ReaderType' = ReaderType
  BY <1>1 DEF Stored, Live, Names, ReaderType
<1>3. TypeInv'
  BY <1>1, <1>2 DEF PageInv, TypeInv
<1>4. ContentInv' /\ ImageInv' /\ OrderInv' /\ CoverInv'
  BY <1>1, LayerFrame DEF PageInv
<1>5. GcInv' /\ ReadInv'
  BY <1>1, <1>2, ReadFrame DEF PageInv, GcInv, Shielded
<1> QED BY <1>3, <1>4, <1>5 DEF PageInv

\* Every step preserves the invariant.
LEMMA NextInv ==
    ASSUME FloorSlack = 0, ImageFaults = FALSE, PageInv, [Next]_vars
    PROVE  PageInv'
<1>1. CASE UNCHANGED vars
  BY <1>1, StutterInv
<1>2. ASSUME NEW i \in Pages \cup {Wal}, AppendSegment(i) PROVE PageInv'
  BY <1>2, AppendWrites, WritesInv DEF PageInv, Items
<1>3. CASE Flush
  BY <1>3, FlushWrites, WritesInv DEF PageInv
<1>4. CASE Compact
  BY <1>4, CompactInv
<1>5. CASE Gc
  BY <1>5, GcStepInv
<1>6. CASE CrashAndReopen
  BY <1>6, CrashInv
<1>7. CASE Rest
  BY <1>7, StutterInv DEF Rest
<1>8. ASSUME NEW l \in 0..(MaxLsn + FloorSlack), SetRetentionFloor(l) PROVE PageInv'
  BY <1>8, SetFloorInv
<1>9. ASSUME NEW n \in victims, GcDelete(n) PROVE PageInv'
  BY <1>9, GcDeleteInv
<1>10. ASSUME NEW r \in Readers, NEW p \in Pages, NEW q \in 0..(MaxLsn + 1), GetPage(r, p, q)
       PROVE PageInv'
  BY <1>10, GetPageInv
<1>11. ASSUME NEW r \in Readers, ReadDelta(r) \/ ReadImage(r) PROVE PageInv'
  BY <1>11, ReadDeltaInv, ReadImageInv
<1> QED BY <1>1, <1>2, <1>3, <1>4, <1>5, <1>6, <1>7, <1>8, <1>9, <1>10, <1>11 DEF Next

\* The layers, the log and the reads under way fit together in every state.
THEOREM PageInvariance ==
    ASSUME FloorSlack = 0, ImageFaults = FALSE
    PROVE  Spec => []PageInv
<1>1. PageInv /\ [Next]_vars => PageInv'
  BY NextInv
<1> QED BY InitInv, <1>1, PTL DEF Spec

\* What an open would find in the bucket and the log, it finds in full.
LEMMA NothingLost == ASSUME PageInv PROVE CrashLosesNothing
<1> SUFFICES ASSUME NEW p \in Pages, NEW q \in floorObj..durable_lsn
             PROVE  Found(Discovered.memtable, Discovered.deltas, Discovered.image, p, q)
                        = Contract!AtOrBefore(log, p, q)
  BY DEF CrashLosesNothing
<1> DEFINE L == Len(log)
           hw == Discovered.flushedHw
           lo == hw + 1
           m == image.hi
           w == Contract!AtOrBefore(log, p, q)
           S == At(log, p, q, 1, L)
           b == Best(Discovered.memtable, p, q)
           hits == {d \in Stored : d.lo <= q /\ Best(bucket[d], p, q) # 0}
           f == Found(Discovered.memtable, Stored, image, p, q)
<1>1. /\ L \in Nat /\ log \in Seq(Items) /\ floor \in Nat /\ floor <= L
      /\ q \in Nat /\ floor <= q
  BY DEF PageInv, TypeInv, durable_lsn
<1>2. /\ Discovered.deltas = Stored /\ Discovered.image = image
      /\ hw \in Nat /\ hw <= L
      /\ Discovered.memtable = Versions(log, lo, L)
      /\ \A l \in 1..hw : log[l] # Wal => \/ \E d \in Stored : Holds(d, l)
                                          \/ l <= m /\ \A e \in Stored : l < e.lo
  BY DiscoveredFields
<1>3. /\ m \in Nat /\ m <= floor /\ Stored \subseteq DeltaNames(L)
      /\ image.kind = "image" /\ (image # NoImage <=> m # 0)
      /\ image # NoImage => image \in DOMAIN bucket
  BY StoredNames DEF PageInv, TypeInv
<1>4. IsBest(w, S)
  BY <1>1, BestInHistory
<1>5. f = IF b # 0 THEN b
          ELSE IF hits # {} THEN Best(bucket[Newest(hits)], p, q)
          ELSE IF image = NoImage \/ m > q THEN 0 ELSE Best(bucket[image], p, q)
  BY DEF Found, Newest
<1>6. IsBest(b, At(log, p, q, lo, L))
  <2>1. lo \in Nat /\ 1 <= lo
    BY <1>2
  <2> HIDE DEF lo
  <2> QED BY <1>1, <1>2, <2>1, BestInDelta
<1>7. \A d \in Stored : /\ d.lo \in Nat /\ d.hi \in Nat /\ 1 <= d.lo /\ d.lo <= d.hi /\ d.hi <= L
                        /\ d.kind = "delta" /\ d \in DOMAIN bucket
  BY <1>3, DeltaFields DEF Stored
<1>8. ASSUME NEW d \in Stored PROVE IsBest(Best(bucket[d], p, q), At(log, p, q, d.lo, d.hi))
  <2>1. bucket[d] = Versions(log, d.lo, d.hi)
    BY <1>7 DEF PageInv, ContentInv, Exact, Content
  <2> QED BY <1>1, <1>7, <2>1, BestInDelta
<1>9. hits \subseteq DeltaNames(L) /\ \A d \in hits : d \in Stored
  BY <1>3
<1>10. \A d \in Stored : d.lo <= q /\ Best(bucket[d], p, q) # 0 => d \in hits
  OBVIOUS
<1>11. \A d \in hits : Best(bucket[d], p, q) # 0
  OBVIOUS
<1> HIDE DEF w, b, hits, hw, lo, f, m
<1>12. w \in Nat /\ \A l \in 1..L : log[l] = p /\ l <= q => l <= w
  BY <1>4 DEF IsBest, At
<1>13. w # 0 => w \in 1..L /\ log[w] = p /\ w <= q /\ log[w] # Wal
  BY <1>4, PageStoreBounds DEF IsBest, At
<1>14. CASE b # 0
  <2>1. b \in lo..L /\ b \in 1..L /\ log[b] = p /\ b <= q
    BY <1>2, <1>6, <1>14 DEF IsBest, At, lo
  <2>2. b <= w /\ b \in Nat
    BY <2>1, <1>12
  <2>3. w \in lo..L
    BY <2>1, <2>2, <1>2, <1>12, <1>13 DEF lo
  <2>4. w \in At(log, p, q, lo, L)
    BY <2>2, <2>1, <2>3, <1>13 DEF At
  <2>5. w <= b
    BY <2>4, <1>6 DEF IsBest
  <2>6. b = w
    BY <2>2, <2>5, <1>12
  <2> QED BY <2>6, <1>2, <1>5, <1>14 DEF f, w
<1>15. CASE b = 0
  <2>1. w <= hw
    <3>1. SUFFICES ASSUME ~(w <= hw) PROVE FALSE
      OBVIOUS
    <3>2. w # 0 /\ w \in lo..L
      BY <3>1, <1>2, <1>12, <1>13 DEF lo
    <3>3. w \in At(log, p, q, lo, L)
      BY <3>2, <1>13 DEF At
    <3>4. w <= b
      BY <3>3, <1>6 DEF IsBest
    <3> QED BY <3>2, <3>4, <1>12, <1>15
  <2>2. ASSUME NEW d \in hits
        PROVE /\ Best(bucket[d], p, q) \in d.lo..d.hi /\ Best(bucket[d], p, q) <= w /\ w # 0
              /\ Best(bucket[d], p, q) \in Nat
    <3> DEFINE v == Best(bucket[d], p, q)
    <3>1. d \in Stored /\ v # 0 /\ IsBest(v, At(log, p, q, d.lo, d.hi))
      BY <1>8, <1>9, <1>11
    <3> HIDE DEF v
    <3>2. v \in d.lo..d.hi /\ log[v] = p /\ v <= q
      BY <3>1 DEF IsBest, At
    <3>3. v \in 1..L
      BY <3>1, <3>2, <1>1, <1>7
    <3>4. v <= w /\ v \in Nat
      BY <3>2, <3>3, <1>12
    <3> QED BY <3>2, <3>3, <3>4, <1>12 DEF v
  <2>3. w # 0 => \/ \E d \in Stored : Holds(d, w)
                 \/ w <= m /\ \A e \in Stored : w < e.lo
    BY <2>1, <1>2, <1>12, <1>13
  <2>4. ASSUME NEW d \in Stored, Holds(d, w), w # 0 PROVE d \in hits
    <3>1. w \in At(log, p, q, d.lo, d.hi)
      BY <2>4, <1>7, <1>12, <1>13 DEF At, Holds
    <3>2. w <= Best(bucket[d], p, q) /\ Best(bucket[d], p, q) \in Nat
      BY <3>1, <1>8 DEF IsBest
    <3>3. Best(bucket[d], p, q) # 0
      BY <3>2, <2>4, <1>12
    <3>4. d.lo <= w /\ w <= q /\ d.lo \in Nat
      BY <2>4, <1>7, <1>13 DEF Holds
    <3> QED BY <3>3, <3>4, <1>1, <1>10, <1>12
  <2>5. CASE hits # {}
    <3> DEFINE t == Newest(hits)
               v == Best(bucket[t], p, q)
    <3>1. t \in hits /\ \A y \in hits : y.hi <= t.hi
      BY <2>5, <1>1, <1>9, NewestExists
    <3> HIDE DEF t
    <3>2. v \in t.lo..t.hi /\ v <= w /\ w # 0 /\ v \in Nat /\ t \in Stored
      BY <3>1, <2>2, <1>9
    <3>3. IsBest(v, At(log, p, q, t.lo, t.hi))
      BY <3>2, <1>8
    <3> HIDE DEF v
    <3>4. t.lo \in Nat /\ t.hi \in Nat
      BY <3>2, <1>7
    <3>5. ~\A e \in Stored : w < e.lo
      BY <3>2, <3>4, <1>12
    <3>6. PICK d \in Stored : Holds(d, w)
      BY <3>2, <3>5, <2>3
    <3>7. d.hi <= t.hi /\ w <= d.hi /\ d.hi \in Nat
      BY <3>1, <3>2, <3>6, <2>4, <1>7 DEF Holds
    <3>8. w \in t.lo..t.hi
      BY <3>2, <3>4, <3>7, <1>12
    <3>9. w <= v
      BY <3>2, <3>3, <3>8, <1>13 DEF IsBest, At
    <3>10. v = w
      BY <3>2, <3>9, <1>12
    <3> QED BY <3>10, <2>5, <1>2, <1>5, <1>15 DEF f, w, v, t
  <2>6. CASE hits = {}
    <3>1. w <= m
      <4>1. CASE w = 0
        BY <4>1, <1>3
      <4>2. CASE w # 0
        BY <4>2, <2>3, <2>4, <2>6
      <4> QED BY <4>1, <4>2
    <3>2. CASE image = NoImage
      <4>1. w = 0
        BY <3>1, <3>2, <1>3, <1>12
      <4> QED BY <3>2, <4>1, <2>6, <1>2, <1>5, <1>15 DEF f, w
    <3>3. CASE image # NoImage
      <4>1. m <= q /\ m <= L
        BY <1>1, <1>3
      <4>2. bucket[image] = Folded(log, m)
        BY <3>3, <1>3 DEF PageInv, ContentInv, Exact, Content, m
      <4>3. IsBest(Best(Folded(log, m), p, q), At(log, p, q, 1, m))
        BY <4>1, <1>1, <1>3, BestInImage
      <4>4. IsBest(w, At(log, p, q, 1, m))
        <5>1. w # 0 => w \in At(log, p, q, 1, m)
          BY <3>1, <1>3, <1>12, <1>13 DEF At
        <5>2. \A l \in At(log, p, q, 1, m) : l <= w
          BY <4>1, <1>1, <1>3, <1>12 DEF At
        <5> QED BY <5>1, <5>2, <1>12 DEF IsBest
      <4>5. At(log, p, q, 1, m) \subseteq Nat \ {0}
        BY DEF At
      <4>6. Best(Folded(log, m), p, q) = w
        BY <4>3, <4>4, <4>5, BestUnique
      <4>7. ~(m > q)
        BY <4>1, <1>1, <1>3
      <4> QED BY <3>3, <4>2, <4>6, <4>7, <2>6, <1>2, <1>5, <1>15 DEF f, w
    <3> QED BY <3>2, <3>3
  <2> QED BY <2>5, <2>6
<1> QED BY <1>6, <1>14, <1>15

\* Whatever flushes, compactions, half-done collections and failed puts came
\* before, a crash loses no page version at or above the retention floor.
THEOREM NoPageIsLost ==
    ASSUME FloorSlack = 0, ImageFaults = FALSE
    PROVE  Spec => []CrashLosesNothing
BY PageInvariance, NothingLost, PTL

-----------------------------------------------------------------------------
(* The contract of the trait Storage.                                       *)

Abs(rd) == [r \in Readers |-> [want |-> rd[r].want, got |-> rd[r].got]]

\* A step of one reader as the contract sees it.
LEMMA AbsStep ==
    ASSUME DOMAIN reader = Readers, NEW r \in Readers, NEW x, reader' = [reader EXCEPT ![r] = x]
    PROVE  Abs(reader') = [Abs(reader) EXCEPT ![r] = [want |-> x.want, got |-> x.got]]
BY DEF Abs

\* Every step of the page tree is a step of the contract, or none.
LEMMA StepRefines ==
    ASSUME FloorSlack = 0, PageInv, [Next]_vars
    PROVE  [Contract!CNext]_(Contract!cvars)
<1>1. /\ Contract!cvars = <<log, floor, Abs(reader)>>
      /\ Contract!cvars' = <<log', floor', Abs(reader')>>
  BY DEF Contract!cvars, Abs
<1>2. DOMAIN reader = Readers /\ floor \in Nat /\ Len(log) \in Nat
      /\ reader \in [Readers -> ReaderType]
  BY DEF PageInv, TypeInv
<1>3. UNCHANGED <<log, floor, reader>> => UNCHANGED Contract!cvars
  BY <1>1
<1>4. ASSUME NEW i \in Pages \cup {Wal}, AppendSegment(i) PROVE Contract!CAppend
  BY <1>4 DEF AppendSegment, Contract!CAppend
<1>5. CASE Flush \/ Compact \/ Gc \/ Rest \/ UNCHANGED vars
  <2>1. UNCHANGED <<log, floor, reader>>
    BY <1>5 DEF Flush, Compact, Gc, Rest, vars, durable, inner
  <2> QED BY <2>1, <1>3
<1>6. ASSUME NEW n \in victims, GcDelete(n) PROVE UNCHANGED Contract!cvars
  BY <1>6, <1>3 DEF GcDelete, inner
<1>7. ASSUME NEW l \in Nat, SetRetentionFloor(l) PROVE Contract!CSetFloor
  BY <1>7, <1>2 DEF SetRetentionFloor, Contract!CSetFloor
<1>8. CASE CrashAndReopen
  <2>1. /\ reader' = [r \in Readers |-> AtRest] /\ UNCHANGED log
        /\ floor' \in Nat /\ floor' >= floor
    BY <1>8 DEF CrashAndReopen, durable, PageInv, TypeInv
  <2>2. Contract!CCrash
    BY <2>1 DEF Contract!CCrash, Contract!Idle, AtRest
  <2> QED BY <2>2 DEF Contract!CNext
<1>9. ASSUME NEW r \in Readers, NEW p \in Pages, NEW q \in Nat, GetPage(r, p, q)
      PROVE  Contract!CRead(r)
  <2> DEFINE v == Contract!AtOrBefore(log, p, q)
             hit == Best(memtable, p, q)
             x == IF hit # 0 THEN [AtRest EXCEPT !.want = v, !.got = hit] ELSE Picked(p, q)
  <2>1. /\ reader' = [reader EXCEPT ![r] = x] /\ q >= floor /\ q <= Len(log) + 1
        /\ UNCHANGED <<log, floor>>
    BY <1>9 DEF GetPage, Picked, durable, durable_lsn, inner
  <2>2. x.want = v /\ x.got \in {v, Pending}
    <3>1. hit # 0 => hit = v
      BY MemtableHit
    <3> QED BY <3>1 DEF Picked, AtRest
  <2>3. q \in floor..(Len(log) + 1)
    BY <2>1, <1>2
  <2> HIDE DEF x
  <2>4. Abs(reader') = [Abs(reader) EXCEPT ![r] = [want |-> v, got |-> x.got]]
    BY <2>1, <2>2, <1>2, AbsStep
  <2> QED BY ZenonT(30), <2>1, <2>2, <2>3, <2>4 DEF Contract!CRead, Abs
<1>10. ASSUME NEW r \in Readers, reader[r].got = Pending,
              NEW x, reader' = [reader EXCEPT ![r] = x], x.want = reader[r].want,
              x.got \in {reader[r].want, Failed}, UNCHANGED <<log, floor>>
       PROVE  Contract!CReturn(r)
  <2>1. Abs(reader') = [Abs(reader) EXCEPT ![r] = [want |-> x.want, got |-> x.got]]
    BY <1>2, <1>10, AbsStep
  <2>2. Abs(reader)[r] = [want |-> reader[r].want, got |-> Pending]
    BY <1>10 DEF Abs
  <2>3. Abs(reader') = [Abs(reader) EXCEPT ![r].got = x.got]
    BY <2>1, <2>2, <1>10 DEF Abs
  <2> QED BY <2>2, <2>3, <1>10 DEF Contract!CReturn, Abs
<1>11. ASSUME NEW r \in Readers, ReadDelta(r) \/ ReadImage(r)
       PROVE  Contract!CReturn(r) \/ UNCHANGED Contract!cvars
  <2>1. PICK x \in ReaderType :
           /\ reader' = [reader EXCEPT ![r] = x] /\ x.want = reader[r].want
           /\ x.got \in {reader[r].want, Failed} \/ (x.pc = "deltas" /\ Searching(log, x))
    BY <1>11, ReadDeltaCases, ReadImageCases
  <2>2. reader[r].pc = "deltas" /\ UNCHANGED <<log, floor>>
    BY <1>11, ReadDeltaCases, ReadImageCases
  <2>3. reader[r].got = Pending
    BY <2>2 DEF PageInv, ReadInv, Searching
  <2>4. CASE x.got \in {reader[r].want, Failed}
    BY <2>1, <2>2, <2>3, <2>4, <1>10
  <2>5. CASE x.pc = "deltas" /\ Searching(log, x)
    <3>1. x.got = Pending
      BY <2>5 DEF Searching
    <3>2. Abs(reader') = [Abs(reader) EXCEPT ![r] = [want |-> reader[r].want, got |-> Pending]]
      BY ZenonT(30), <2>1, <3>1, <1>2, AbsStep
    <3>3. Abs(reader)[r] = [want |-> reader[r].want, got |-> Pending]
      BY <2>3 DEF Abs
    <3>4. Abs(reader') = Abs(reader)
      BY <3>2, <3>3 DEF Abs
    <3> QED BY <3>4, <2>2, <1>1
  <2> QED BY <2>1, <2>4, <2>5
<1>12. CASE \E l \in 0..(MaxLsn + FloorSlack) : SetRetentionFloor(l)
  BY <1>12, <1>7 DEF Contract!CNext
<1>13. CASE \E r \in Readers : \E p \in Pages, q \in 0..(MaxLsn + 1) : GetPage(r, p, q)
  BY <1>13, <1>9 DEF Contract!CNext
<1>14. CASE \E r \in Readers : ReadDelta(r) \/ ReadImage(r)
  BY <1>14, <1>11 DEF Contract!CNext
<1>15. CASE \E i \in Pages \cup {Wal} : AppendSegment(i)
  BY <1>15, <1>4 DEF Contract!CNext
<1>16. CASE \E n \in victims : GcDelete(n)
  BY <1>16, <1>6
<1> QED BY <1>5, <1>8, <1>12, <1>13, <1>14, <1>15, <1>16 DEF Next

\* The page tree implements the contract of the trait Storage: a read whose lock
\* was dropped while layers were flushed, compacted, collected or lost in a
\* crash returns the version at or before its LSN, or an error.
THEOREM PageTreeImplementsContract ==
    ASSUME FloorSlack = 0, ImageFaults = FALSE
    PROVE  Spec => ImplementsContract
<1>1. Init => Contract!CInit
  BY DEF Init, Contract!CInit, Contract!Idle, AtRest
<1>2. PageInv /\ [Next]_vars => [Contract!CNext]_(Contract!cvars)
  BY StepRefines
<1> QED BY <1>1, <1>2, PageInvariance, PTL DEF Spec, ImplementsContract, Contract!CSpec
=============================================================================
