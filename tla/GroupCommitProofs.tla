------------------------- MODULE GroupCommitProofs -------------------------
(***************************************************************************)
(* Proofs about the commit pipeline, for any set of connections, any batch *)
(* cap and any length of behaviour.  IInv (see GroupCommit) is shown to be *)
(* inductive, one lemma per action; the safety properties that GroupCommit *)
(* states follow from it.  The last part adds TileInv, which lays the LSN   *)
(* ranges of the log and the LSNs of its pages end to end.                 *)
(***************************************************************************)
EXTENDS GroupCommit, InductionLemmas, TLAPS

\* The fields of a queue or batch entry.
LEMMA MemberFields ==
    ASSUME NEW q \in Seq(Member), NEW i \in 1..Len(q)
    PROVE  /\ q[i] \in Member /\ q[i].conn \in Conns
           /\ q[i].owner \in Nat /\ q[i].recs \in Nat /\ q[i].upto \in Nat
<1>1. q[i] \in Member
  OBVIOUS
<1> QED BY <1>1 DEF Member

\* What drain_batch leaves in the queue.
LEMMA TailLength ==
    ASSUME NEW q \in Seq(Member), NEW n \in 1..Len(q)
    PROVE  Len(SubSeq(q, n + 1, Len(q))) = Len(q) - n
<1>1. CASE n = Len(q)
  BY <1>1
<1>2. CASE n < Len(q)
  BY <1>2
<1> QED BY <1>1, <1>2

\* Both the drained prefix and the rest of the queue stay in submission order.
LEMMA WellOrderedSubSeq ==
    ASSUME NEW q \in Seq(Member), WellOrdered(q), NEW m \in Nat, NEW n \in Nat,
           m >= 1, n <= Len(q)
    PROVE  SubSeq(q, m, n) \in Seq(Member) /\ WellOrdered(SubSeq(q, m, n))
<1> DEFINE s == SubSeq(q, m, n)
<1>1. s \in Seq(Member) /\ Len(s) \in Nat
  OBVIOUS
<1>2. \A i \in 1..Len(s) : m + i - 1 \in 1..Len(q) /\ s[i] = q[m + i - 1]
  OBVIOUS
<1> HIDE DEF s
<1>3. \A i \in 1..Len(s) : 0 < s[i].recs /\ s[i].recs <= s[i].upto
  BY <1>1, <1>2 DEF WellOrdered
<1>4. ASSUME NEW i \in 1..Len(s), NEW j \in 1..Len(s), i < j
      PROVE  s[i].conn # s[j].conn /\ s[i].upto + s[j].recs <= s[j].upto
  <2>1. m + i - 1 < m + j - 1
    BY <1>1, <1>4
  <2>2. /\ m + i - 1 \in 1..Len(q) /\ s[i] = q[m + i - 1]
        /\ m + j - 1 \in 1..Len(q) /\ s[j] = q[m + j - 1]
    BY <1>2
  <2>3. \A g, h \in 1..Len(q) :
          g < h => q[g].conn # q[h].conn /\ q[g].upto + q[h].recs <= q[h].upto
    BY DEF WellOrdered
  <2> QED BY <2>1, <2>2, <2>3
<1>5. WellOrdered(s)
  BY <1>3, <1>4 DEF WellOrdered
<1> QED BY <1>1, <1>5 DEF s

\* Enqueuing a later member of another connection keeps the order.
LEMMA WellOrderedAppend ==
    ASSUME NEW q \in Seq(Member), WellOrdered(q), NEW x \in Member,
           0 < x.recs, x.recs <= x.upto,
           \A i \in 1..Len(q) : q[i].conn # x.conn /\ q[i].upto + x.recs <= x.upto
    PROVE  WellOrdered(Append(q, x))
<1> DEFINE s == Append(q, x)
<1>1. Len(s) = Len(q) + 1 /\ Len(q) \in Nat
  OBVIOUS
<1>2. s[Len(q) + 1] = x /\ \A i \in 1..Len(q) : s[i] = q[i]
  OBVIOUS
<1> HIDE DEF s
<1>3. \A i \in 1..Len(s) : i \in 1..Len(q) \/ i = Len(q) + 1
  BY <1>1
<1>4. \A i \in 1..Len(s) : 0 < s[i].recs /\ s[i].recs <= s[i].upto
  BY <1>2, <1>3 DEF WellOrdered
<1>5. ASSUME NEW i \in 1..Len(s), NEW j \in 1..Len(s), i < j
      PROVE  s[i].conn # s[j].conn /\ s[i].upto + s[j].recs <= s[j].upto
  <2>1. i \in 1..Len(q)
    BY <1>1, <1>5
  <2>2. CASE j \in 1..Len(q)
    BY <2>1, <2>2, <1>2, <1>5 DEF WellOrdered
  <2>3. CASE j = Len(q) + 1
    BY <2>1, <2>3, <1>2
  <2> QED BY <2>2, <2>3, <1>3
<1>6. WellOrdered(s)
  BY <1>4, <1>5 DEF WellOrdered
<1> QED BY <1>6 DEF s

\* The members of a batch appended at LSN f get LSN ranges inside
\* f..f+Total-1: no member is stamped past the end of the append.
LEMMA SliceBounds ==
    ASSUME NEW b \in Seq(Member), WellOrdered(b), b # <<>>, NEW f \in Nat, f >= 1
    PROVE  /\ Total(b) \in Nat /\ 1 <= Total(b)
           /\ \A k \in 1..Len(b) : Slice(b, f, k) \in Entry
                     /\ f <= Slice(b, f, k).last
                     /\ Slice(b, f, k).last <= f + Total(b) - 1
<1>1. Len(b) \in Nat \ {0}
  OBVIOUS
<1>2. \A k \in 1..Len(b) : b[k] \in Member
  OBVIOUS
<1>2a. \A k \in 1..Len(b) : b[k].recs \in Nat /\ b[k].upto \in Nat /\ b[k].owner \in Nat
  BY <1>2 DEF Member
<1>3. ASSUME NEW k \in 1..Len(b)
      PROVE  /\ Acc(b, k) \in Nat
             /\ b[k].recs <= Acc(b, k) /\ 1 <= Acc(b, k)
             /\ Acc(b, k) <= Total(b)
  <2>1. 1 \in 1..Len(b) /\ Len(b) \in 1..Len(b)
    BY <1>1
  <2>2. 0 < b[k].recs /\ 0 < b[1].recs /\ b[1].recs <= b[1].upto
    BY <2>1 DEF WellOrdered
  <2>3. k = 1 \/ b[1].upto + b[k].recs <= b[k].upto
    BY <2>1 DEF WellOrdered
  <2>4. k = Len(b) \/ b[k].upto + b[Len(b)].recs <= b[Len(b)].upto
    BY <2>1 DEF WellOrdered
  <2>5. /\ Acc(b, k) \in Nat
        /\ b[k].recs <= Acc(b, k) /\ 1 <= Acc(b, k)
    BY SMTT(30), <2>1, <2>2, <2>3, <1>2a DEF Acc
  <2>6. Acc(b, k) <= Total(b)
    <3>1. CASE k = Len(b)
      BY <3>1, <2>5 DEF Total
    <3>2. CASE b[k].upto + b[Len(b)].recs <= b[Len(b)].upto
      <4>1. b[k].upto <= b[Len(b)].upto
        BY <3>2, <2>1, <1>2a
      <4> QED BY <4>1, <2>1, <1>2a DEF Acc, Total
    <3> QED BY <3>1, <3>2, <2>4
  <2> QED BY <2>5, <2>6
<1>4. Total(b) \in Nat /\ 1 <= Total(b)
  BY <1>1, <1>3 DEF Total
<1>5. ASSUME NEW k \in 1..Len(b)
      PROVE  /\ Slice(b, f, k) \in Entry
             /\ f <= Slice(b, f, k).last
             /\ Slice(b, f, k).last <= f + Total(b) - 1
  <2> DEFINE a == Acc(b, k)
  <2>1. a \in Nat /\ b[k].recs <= a /\ 1 <= a /\ a <= Total(b) /\ b[k].recs \in Nat
        /\ b[k].upto \in Nat /\ b[k].owner \in Nat
    BY <1>2a, <1>3
  <2>2. Slice(b, f, k) = [owner |-> b[k].owner, sub |-> b[k].upto,
                          first |-> f + a - b[k].recs, last |-> f + a - 1]
    BY DEF Slice
  <2> HIDE DEF a
  <2> QED BY SMTT(30), <2>1, <2>2, <1>4 DEF Entry
<1> QED BY <1>4, <1>5

\* A batch holds at least one record.
LEMMA TotalPositive ==
    ASSUME NEW b \in Seq(Member), WellOrdered(b), b # <<>>
    PROVE  Total(b) \in Nat /\ 1 <= Total(b)
<1> DEFINE f == 1
<1>1. f \in Nat /\ f >= 1
  OBVIOUS
<1> HIDE DEF f
<1> QED BY <1>1, SliceBounds

\* What a batch would write lies past the end of the log.
LEMMA SlicesPastEnd ==
    ASSUME NEW b \in Seq(Member), WellOrdered(b), b # <<>>, NEW n \in Nat
    PROVE  /\ Slices(b, n + 1) \subseteq Entry
           /\ Total(b) \in Nat /\ n <= n + Total(b)
           /\ \A e \in Slices(b, n + 1) : n < e.last /\ e.last <= n + Total(b)
<1> DEFINE f == n + 1
<1>1. f \in Nat /\ f >= 1
  OBVIOUS
<1>2. Total(b) \in Nat /\ f + Total(b) - 1 = n + Total(b) /\ n <= n + Total(b)
  BY TotalPositive
<1>3. \A k \in 1..Len(b) : /\ Slice(b, f, k) \in Entry
                           /\ n < Slice(b, f, k).last
                           /\ Slice(b, f, k).last <= n + Total(b)
  <2> SUFFICES ASSUME NEW k \in 1..Len(b)
               PROVE  /\ Slice(b, f, k) \in Entry
                      /\ n < Slice(b, f, k).last
                      /\ Slice(b, f, k).last <= n + Total(b)
    OBVIOUS
  <2>1. /\ Slice(b, f, k) \in Entry /\ f <= Slice(b, f, k).last
        /\ Slice(b, f, k).last <= f + Total(b) - 1
    <3> HIDE DEF f
    <3> QED BY <1>1, SliceBounds
  <2>2. Slice(b, f, k).last \in Nat
    BY <2>1 DEF Entry
  <2> QED BY <2>1, <2>2, <1>2
<1> HIDE DEF f
<1>4. \A e \in Slices(b, f) : e \in Entry /\ n < e.last /\ e.last <= n + Total(b)
  BY <1>3 DEF Slices
<1> QED BY <1>2, <1>4 DEF f

\* A step that moves no member keeps the queue and batch invariants.
LEMMA PipelineFrame ==
    ASSUME TypeOK, QueueInv, BatchInv,
           queue' = queue, batch' = batch, submitted' = submitted,
           \A d \in Conns : pc[d] \in CommitPcs /\ ~done[d] =>
               pc'[d] \in CommitPcs /\ ~done'[d] /\ txn'[d] = txn[d],
           \A d \in Conns : pc'[d] \in {"releaseLead", "drain"} => queue # <<>>,
           \A d \in Conns : pc'[d] \in BatchPcs <=> pc[d] \in BatchPcs
    PROVE  QueueInv' /\ BatchInv'
<1>1. \A i \in 1..Len(queue) : queue[i] \in Member /\ queue[i].conn \in Conns
  <2>1. queue \in Seq(Member)
    BY DEF TypeOK
  <2> QED BY <2>1, MemberFields
<1>2. \A d \in Conns : \A i \in 1..Len(batch[d]) :
         batch[d][i] \in Member /\ batch[d][i].conn \in Conns
  <2>1. \A d \in Conns : batch[d] \in Seq(Member)
    BY DEF TypeOK
  <2> QED BY <2>1, MemberFields
<1>3. QueueInv'
  BY <1>1 DEF QueueInv, InFlight
<1>4. BatchInv'
  <2> SUFFICES ASSUME NEW d \in Conns
        PROVE  /\ batch[d] # <<>> <=> pc'[d] \in BatchPcs
               /\ WellOrdered(batch[d])
               /\ \A i \in 1..Len(batch[d]) :
                    /\ InFlight(batch[d][i])'
                    /\ \A j \in 1..Len(queue) : batch[d][i].conn # queue[j].conn
    BY DEF BatchInv
  <2>1. \A i \in 1..Len(batch[d]) : InFlight(batch[d][i])'
    BY <1>2 DEF BatchInv, InFlight
  <2> QED BY <2>1 DEF BatchInv
<1> QED BY <1>3, <1>4
\* A step that neither appends nor publishes keeps the log invariant.
LEMMA LogFrame ==
    ASSUME LogInv, UNCHANGED <<wal, durableLsn, published, committed>>,
           \A d \in Conns : pc[d] \in {"publish", "ddlPublish"} =>
               pc'[d] = pc[d] /\ last'[d] = last[d] /\ batch'[d] = batch[d],
           (\E d \in Conns : pc[d] = "ddlPublish") => submitted' = submitted
    PROVE  LogInv'
BY DEF LogInv, BatchEntries, DdlEntry, DdlRecords

\* BeginWrite preserves the invariant.
LEMMA BeginWriteInv == ASSUME NEW c \in Conns, IInv, BeginWrite(c) PROVE IInv'
<1> USE BoundsAssumption DEF IInv, BeginWrite, Goto,
        txnVars, laneVars, memberVars, coordVars, leadVars, logVars, storeVars, histVars
<1>1. TypeOK'
  BY SMTT(30) DEF TypeOK, Labels, LanePcs, LeaderPcs
<1>2. LaneExclusive'
  BY DEF TypeOK, LaneExclusive, LanePcs
<1>3. OneLeader'
  BY DEF TypeOK, OneLeader, QueueInv, LeaderPcs
<1>4. QueueInv' /\ BatchInv'
  BY PipelineFrame DEF TypeOK, QueueInv, OneLeader, LeaderPcs, CommitPcs, BatchPcs
<1>5. DdlInv'
  BY DEF TypeOK, DdlInv, LaneExclusive, OneLeader, LanePcs
<1>6. MarkInv'
  BY DEF TypeOK, MarkInv, BatchEntries, DdlEntry, DdlRecords
<1>7. LogInv'
  BY LogFrame DEF TypeOK
<1>8. ResultInv'
  BY DEF TypeOK, ResultInv, CommitPcs, LeaderPcs
<1>9. AckedDurable'
  BY DEF TypeOK, AckedDurable
<1>10. TailInv'
  BY DEF TailInv
<1> QED BY <1>1, <1>2, <1>3, <1>4, <1>5, <1>6, <1>7, <1>8, <1>9, <1>10

\* AcquireDml preserves the invariant.
LEMMA AcquireDmlInv == ASSUME NEW c \in Conns, IInv, AcquireDml(c) PROVE IInv'
<1> USE BoundsAssumption DEF IInv, AcquireDml, AcquireLane, Goto,
        txnVars, laneVars, memberVars, coordVars, leadVars, logVars, storeVars, histVars
<1>1. TypeOK'
  BY DEF TypeOK, Labels, LanePcs, LeaderPcs
<1>2. LaneExclusive'
  <2>1. CASE lane
    BY <2>1 DEF LaneExclusive
  <2>2. CASE ~lane
    <3>1. \A d \in Conns : pc[d] \notin LanePcs
      BY <2>2 DEF LaneExclusive
    <3>2. pc'[c] \in LanePcs /\ \A d \in Conns \ {c} : pc'[d] = pc[d]
      BY <2>2 DEF TypeOK, LanePcs
    <3>3. lane' = TRUE
      BY <2>2
    <3> QED BY <3>1, <3>2, <3>3 DEF LaneExclusive
  <2> QED BY <2>1, <2>2
<1>3. OneLeader'
  BY DEF TypeOK, OneLeader, QueueInv, LeaderPcs
<1>4. QueueInv' /\ BatchInv'
  BY PipelineFrame DEF TypeOK, QueueInv, OneLeader, LeaderPcs, CommitPcs, BatchPcs
<1>5. DdlInv'
  BY DEF TypeOK, DdlInv, LaneExclusive, OneLeader, LanePcs
<1>6. MarkInv'
  BY DEF TypeOK, MarkInv, BatchEntries, DdlEntry, DdlRecords
<1>7. LogInv'
  BY LogFrame DEF TypeOK
<1>8. ResultInv'
  BY DEF TypeOK, ResultInv, CommitPcs, LeaderPcs
<1>9. AckedDurable'
  BY DEF TypeOK, AckedDurable
<1>10. TailInv'
  BY DEF TailInv
<1> QED BY <1>1, <1>2, <1>3, <1>4, <1>5, <1>6, <1>7, <1>8, <1>9, <1>10

\* Dml preserves the invariant.
LEMMA DmlInv == ASSUME NEW c \in Conns, IInv, Dml(c) PROVE IInv'
<1> USE BoundsAssumption DEF IInv, Dml, Goto,
        txnVars, laneVars, memberVars, coordVars, leadVars, logVars, storeVars, histVars
<1>1. TypeOK'
  <2>1. ops' \in [Conns -> Nat]
    BY DEF TypeOK
  <2>2. pending' \subseteq Nat
    BY DEF TypeOK
  <2> QED BY <2>1, <2>2 DEF TypeOK
<1>2. LaneExclusive'
  BY DEF TypeOK, LaneExclusive, LanePcs
<1>3. OneLeader'
  BY DEF TypeOK, OneLeader, QueueInv, LeaderPcs
<1>4. QueueInv' /\ BatchInv'
  BY PipelineFrame DEF TypeOK, QueueInv, OneLeader, LeaderPcs, CommitPcs, BatchPcs
<1>5. DdlInv'
  BY DEF TypeOK, DdlInv, LaneExclusive, OneLeader, LanePcs
<1>6. MarkInv'
  BY DEF TypeOK, MarkInv, BatchEntries, DdlEntry, DdlRecords
<1>7. LogInv'
  BY LogFrame DEF TypeOK
<1>8. ResultInv'
  BY DEF TypeOK, ResultInv, CommitPcs, LeaderPcs
<1>9. AckedDurable'
  BY DEF TypeOK, AckedDurable
<1>10. TailInv'
  BY DEF TailInv
<1> QED BY <1>1, <1>2, <1>3, <1>4, <1>5, <1>6, <1>7, <1>8, <1>9, <1>10

\* EndWithoutCommit preserves the invariant.
LEMMA EndWithoutCommitInv == ASSUME NEW c \in Conns, IInv, EndWithoutCommit(c) PROVE IInv'
<1> USE BoundsAssumption DEF IInv, EndWithoutCommit, ReleaseLane, Goto,
        txnVars, laneVars, memberVars, coordVars, leadVars, logVars, storeVars, histVars
<1>1. TypeOK'
  BY DEF TypeOK, Labels, LanePcs, LeaderPcs
<1>2. LaneExclusive'
  BY DEF TypeOK, LaneExclusive, LanePcs
<1>3. OneLeader'
  BY DEF TypeOK, OneLeader, QueueInv, LeaderPcs
<1>4. QueueInv' /\ BatchInv'
  BY PipelineFrame DEF TypeOK, QueueInv, OneLeader, LeaderPcs, CommitPcs, BatchPcs
<1>5. DdlInv'
  BY DEF TypeOK, DdlInv, LaneExclusive, OneLeader, LanePcs
<1>6. MarkInv'
  BY DEF TypeOK, MarkInv, BatchEntries, DdlEntry, DdlRecords
<1>7. LogInv'
  BY LogFrame DEF TypeOK
<1>8. ResultInv'
  BY DEF TypeOK, ResultInv, CommitPcs, LeaderPcs
<1>9. AckedDurable'
  BY DEF TypeOK, AckedDurable
<1>10. TailInv'
  BY DEF TailInv
<1> QED BY <1>1, <1>2, <1>3, <1>4, <1>5, <1>6, <1>7, <1>8, <1>9, <1>10

\* HandOffLane preserves the invariant.
LEMMA HandOffLaneInv == ASSUME NEW c \in Conns, IInv, HandOffLane(c) PROVE IInv'
<1> USE BoundsAssumption DEF IInv, HandOffLane, ReleaseLane, Goto,
        txnVars, laneVars, memberVars, coordVars, leadVars, logVars, storeVars, histVars
<1>1. TypeOK'
  BY DEF TypeOK, Labels, LanePcs, LeaderPcs
<1>2. LaneExclusive'
  BY DEF TypeOK, LaneExclusive, LanePcs
<1>3. OneLeader'
  BY DEF TypeOK, OneLeader, QueueInv, LeaderPcs
<1>4. QueueInv' /\ BatchInv'
  BY PipelineFrame DEF TypeOK, QueueInv, OneLeader, LeaderPcs, CommitPcs, BatchPcs
<1>5. DdlInv'
  BY DEF TypeOK, DdlInv, LaneExclusive, OneLeader, LanePcs
<1>6. MarkInv'
  BY DEF TypeOK, MarkInv, BatchEntries, DdlEntry, DdlRecords
<1>7. LogInv'
  BY LogFrame DEF TypeOK
<1>8. ResultInv'
  BY DEF TypeOK, ResultInv, CommitPcs, LeaderPcs
<1>9. AckedDurable'
  BY DEF TypeOK, AckedDurable
<1>10. TailInv'
  BY DEF TailInv
<1> QED BY <1>1, <1>2, <1>3, <1>4, <1>5, <1>6, <1>7, <1>8, <1>9, <1>10

\* AppendErr preserves the invariant.
LEMMA AppendErrInv == ASSUME NEW c \in Conns, IInv, AppendErr(c) PROVE IInv'
<1> USE BoundsAssumption DEF IInv, AppendErr, AppendWalFails, Goto,
        txnVars, laneVars, memberVars, coordVars, leadVars, logVars, storeVars, histVars
<1>a. batch[c] \in Seq(Member) /\ WellOrdered(batch[c]) /\ batch[c] # <<>>
      /\ durableLsn \in Nat
  BY DEF TypeOK, BatchInv, BatchPcs
<1>b. /\ tail' \subseteq Entry /\ tailLsn' \in Nat /\ durableLsn <= tailLsn'
      /\ \A e \in tail' : durableLsn < e.last /\ e.last <= tailLsn'
  <2> DEFINE b == batch[c]
  <2>1. \/ tail' = {} /\ tailLsn' = durableLsn
        \/ tail' = Slices(b, durableLsn + 1) /\ tailLsn' = durableLsn + Total(b)
    OBVIOUS
  <2> HIDE DEF AppendErr, b
  <2>2. /\ Slices(b, durableLsn + 1) \subseteq Entry
        /\ Total(b) \in Nat /\ durableLsn <= durableLsn + Total(b)
        /\ \A e \in Slices(b, durableLsn + 1) :
              durableLsn < e.last /\ e.last <= durableLsn + Total(b)
    BY <1>a, SlicesPastEnd DEF b
  <2> QED BY <2>1, <2>2, <1>a
<1>c. UNCHANGED <<wal, pages, durableLsn>>
  OBVIOUS
<1> HIDE DEF AppendWalFails
<1>1. TypeOK'
  <2>1. pc' \in [Conns -> Labels] /\ last' \in [Conns -> Nat]
    BY DEF TypeOK, Labels, LeaderPcs
  <2> QED BY <2>1, <1>b, <1>c DEF TypeOK
<1>2. LaneExclusive'
  BY DEF TypeOK, LaneExclusive, LanePcs
<1>3. OneLeader'
  BY DEF TypeOK, OneLeader, QueueInv, LeaderPcs
<1>4. QueueInv' /\ BatchInv'
  BY PipelineFrame DEF TypeOK, QueueInv, OneLeader, LeaderPcs, CommitPcs, BatchPcs
<1>5. DdlInv'
  BY DEF TypeOK, DdlInv, LaneExclusive, OneLeader, LanePcs
<1>6. MarkInv'
  BY <1>c DEF TypeOK, MarkInv, BatchEntries, DdlEntry, DdlRecords
<1>7. LogInv'
  BY LogFrame, <1>c DEF TypeOK
<1>8. ResultInv'
  BY <1>c DEF TypeOK, ResultInv, CommitPcs, LeaderPcs
<1>9. AckedDurable'
  BY <1>c DEF TypeOK, AckedDurable
<1>10. TailInv'
  BY <1>b, <1>c DEF TailInv
<1> QED BY <1>1, <1>2, <1>3, <1>4, <1>5, <1>6, <1>7, <1>8, <1>9, <1>10

\* Discard preserves the invariant.
LEMMA DiscardInv == ASSUME NEW c \in Conns, IInv, Discard(c) PROVE IInv'
<1> USE BoundsAssumption DEF IInv, Discard, Goto,
        txnVars, laneVars, memberVars, coordVars, leadVars, logVars, storeVars, histVars
<1>1. TypeOK'
  BY DEF TypeOK, Labels, LanePcs, LeaderPcs
<1>2. LaneExclusive'
  BY DEF TypeOK, LaneExclusive, LanePcs
<1>3. OneLeader'
  BY DEF TypeOK, OneLeader, QueueInv, LeaderPcs
<1>4. QueueInv' /\ BatchInv'
  BY PipelineFrame DEF TypeOK, QueueInv, OneLeader, LeaderPcs, CommitPcs, BatchPcs
<1>5. DdlInv'
  BY DEF TypeOK, DdlInv, LaneExclusive, OneLeader, LanePcs
<1>6. MarkInv'
  BY DEF TypeOK, MarkInv, BatchEntries, DdlEntry, DdlRecords
<1>7. LogInv'
  BY LogFrame DEF TypeOK
<1>8. ResultInv'
  BY DEF TypeOK, ResultInv, CommitPcs, LeaderPcs
<1>9. AckedDurable'
  BY DEF TypeOK, AckedDurable
<1>10. TailInv'
  BY DEF TailInv
<1> QED BY <1>1, <1>2, <1>3, <1>4, <1>5, <1>6, <1>7, <1>8, <1>9, <1>10

\* Relinquish preserves the invariant.
LEMMA RelinquishInv == ASSUME NEW c \in Conns, IInv, Relinquish(c) PROVE IInv'
<1> USE BoundsAssumption DEF IInv, Relinquish, Goto,
        txnVars, laneVars, memberVars, coordVars, leadVars, logVars, storeVars, histVars
<1>1. TypeOK'
  BY DEF TypeOK, Labels, LanePcs, LeaderPcs
<1>2. LaneExclusive'
  BY ZenonT(30) DEF TypeOK, LaneExclusive, LanePcs
<1>3. OneLeader'
  BY DEF TypeOK, OneLeader, QueueInv, LeaderPcs
<1>4. QueueInv' /\ BatchInv'
  BY PipelineFrame DEF TypeOK, QueueInv, OneLeader, LeaderPcs, CommitPcs, BatchPcs
<1>5. DdlInv'
  BY DEF TypeOK, DdlInv, LaneExclusive, OneLeader, LanePcs
<1>6. MarkInv'
  BY DEF TypeOK, MarkInv, BatchEntries, DdlEntry, DdlRecords
<1>7. LogInv'
  BY LogFrame DEF TypeOK
<1>8. ResultInv'
  BY DEF TypeOK, ResultInv, CommitPcs, LeaderPcs
<1>9. AckedDurable'
  BY DEF TypeOK, AckedDurable
<1>10. TailInv'
  BY DEF TailInv
<1> QED BY <1>1, <1>2, <1>3, <1>4, <1>5, <1>6, <1>7, <1>8, <1>9, <1>10

\* BeginDdl preserves the invariant.
LEMMA BeginDdlInv == ASSUME NEW c \in Conns, IInv, BeginDdl(c) PROVE IInv'
<1> USE BoundsAssumption DEF IInv, BeginDdl, Goto,
        txnVars, laneVars, memberVars, coordVars, leadVars, logVars, storeVars, histVars
<1>1. TypeOK'
  BY DEF TypeOK, Labels, LanePcs, LeaderPcs
<1>2. LaneExclusive'
  BY DEF TypeOK, LaneExclusive, LanePcs
<1>3. OneLeader'
  BY DEF TypeOK, OneLeader, QueueInv, LeaderPcs
<1>4. QueueInv' /\ BatchInv'
  BY PipelineFrame DEF TypeOK, QueueInv, OneLeader, LeaderPcs, CommitPcs, BatchPcs
<1>5. DdlInv'
  BY DEF TypeOK, DdlInv, LaneExclusive, OneLeader, LanePcs
<1>6. MarkInv'
  BY DEF TypeOK, MarkInv, BatchEntries, DdlEntry, DdlRecords
<1>7. LogInv'
  BY LogFrame DEF TypeOK
<1>8. ResultInv'
  BY DEF TypeOK, ResultInv, CommitPcs, LeaderPcs
<1>9. AckedDurable'
  BY DEF TypeOK, AckedDurable
<1>10. TailInv'
  BY DEF TailInv
<1> QED BY <1>1, <1>2, <1>3, <1>4, <1>5, <1>6, <1>7, <1>8, <1>9, <1>10

\* AcquireDdl preserves the invariant.
LEMMA AcquireDdlInv == ASSUME NEW c \in Conns, IInv, AcquireDdl(c) PROVE IInv'
<1> USE BoundsAssumption DEF IInv, AcquireDdl, AcquireLane, Goto,
        txnVars, laneVars, memberVars, coordVars, leadVars, logVars, storeVars, histVars
<1>1. TypeOK'
  BY DEF TypeOK, Labels, LanePcs, LeaderPcs
<1>2. LaneExclusive'
  <2>1. CASE lane
    BY <2>1 DEF LaneExclusive
  <2>2. CASE ~lane
    <3>1. \A d \in Conns : pc[d] \notin LanePcs
      BY <2>2 DEF LaneExclusive
    <3>2. pc'[c] \in LanePcs /\ \A d \in Conns \ {c} : pc'[d] = pc[d]
      BY <2>2 DEF TypeOK, LanePcs
    <3>3. lane' = TRUE
      BY <2>2
    <3> QED BY <3>1, <3>2, <3>3 DEF LaneExclusive
  <2> QED BY <2>1, <2>2
<1>3. OneLeader'
  BY DEF TypeOK, OneLeader, QueueInv, LeaderPcs
<1>4. QueueInv' /\ BatchInv'
  BY PipelineFrame DEF TypeOK, QueueInv, OneLeader, LeaderPcs, CommitPcs, BatchPcs
<1>5. DdlInv'
  BY DEF TypeOK, DdlInv, LaneExclusive, OneLeader, LanePcs
<1>6. MarkInv'
  BY DEF TypeOK, MarkInv, BatchEntries, DdlEntry, DdlRecords
<1>7. LogInv'
  BY LogFrame DEF TypeOK
<1>8. ResultInv'
  BY DEF TypeOK, ResultInv, CommitPcs, LeaderPcs
<1>9. AckedDurable'
  BY DEF TypeOK, AckedDurable
<1>10. TailInv'
  BY DEF TailInv
<1> QED BY <1>1, <1>2, <1>3, <1>4, <1>5, <1>6, <1>7, <1>8, <1>9, <1>10

\* Quiesce preserves the invariant.
LEMMA QuiesceInv == ASSUME NEW c \in Conns, IInv, Quiesce(c) PROVE IInv'
<1> USE BoundsAssumption DEF IInv, Quiesce, Goto,
        txnVars, laneVars, memberVars, coordVars, leadVars, logVars, storeVars, histVars
<1>1. TypeOK'
  BY DEF TypeOK, Labels, LanePcs, LeaderPcs
<1>2. LaneExclusive'
  BY DEF TypeOK, LaneExclusive, LanePcs
<1>3. OneLeader'
  BY DEF TypeOK, OneLeader, QueueInv, LeaderPcs
<1>4. QueueInv' /\ BatchInv'
  BY PipelineFrame DEF TypeOK, QueueInv, OneLeader, LeaderPcs, CommitPcs, BatchPcs
<1>5. DdlInv'
  BY DEF TypeOK, DdlInv, LaneExclusive, OneLeader, LanePcs
<1>6. MarkInv'
  BY DEF TypeOK, MarkInv, BatchEntries, DdlEntry, DdlRecords
<1>7. LogInv'
  BY LogFrame DEF TypeOK
<1>8. ResultInv'
  BY DEF TypeOK, ResultInv, CommitPcs, LeaderPcs
<1>9. AckedDurable'
  BY DEF TypeOK, AckedDurable
<1>10. TailInv'
  BY DEF TailInv
<1> QED BY <1>1, <1>2, <1>3, <1>4, <1>5, <1>6, <1>7, <1>8, <1>9, <1>10

\* DdlNothing preserves the invariant.
LEMMA DdlNothingInv == ASSUME NEW c \in Conns, IInv, DdlNothing(c) PROVE IInv'
<1> USE BoundsAssumption DEF IInv, DdlNothing, Goto,
        txnVars, laneVars, memberVars, coordVars, leadVars, logVars, storeVars, histVars
<1>1. TypeOK'
  BY DEF TypeOK, Labels, LanePcs, LeaderPcs
<1>2. LaneExclusive'
  BY DEF TypeOK, LaneExclusive, LanePcs
<1>3. OneLeader'
  BY DEF TypeOK, OneLeader, QueueInv, LeaderPcs
<1>4. QueueInv' /\ BatchInv'
  BY PipelineFrame DEF TypeOK, QueueInv, OneLeader, LeaderPcs, CommitPcs, BatchPcs
<1>5. DdlInv'
  BY DEF TypeOK, DdlInv, LaneExclusive, OneLeader, LanePcs
<1>6. MarkInv'
  BY DEF TypeOK, MarkInv, BatchEntries, DdlEntry, DdlRecords
<1>7. LogInv'
  BY LogFrame DEF TypeOK
<1>8. ResultInv'
  BY DEF TypeOK, ResultInv, CommitPcs, LeaderPcs
<1>9. AckedDurable'
  BY DEF TypeOK, AckedDurable
<1>10. TailInv'
  BY DEF TailInv
<1> QED BY <1>1, <1>2, <1>3, <1>4, <1>5, <1>6, <1>7, <1>8, <1>9, <1>10

\* DdlAppendErr preserves the invariant.
LEMMA DdlAppendErrInv == ASSUME NEW c \in Conns, IInv, DdlAppendErr(c) PROVE IInv'
<1> USE BoundsAssumption DEF IInv, DdlAppendErr, AppendWalFails, Goto,
        txnVars, laneVars, memberVars, coordVars, leadVars, logVars, storeVars, histVars
<1>a. /\ tail' \subseteq Entry /\ tailLsn' \in Nat /\ durableLsn <= tailLsn'
      /\ \A e \in tail' : durableLsn < e.last /\ e.last <= tailLsn'
  <2> DEFINE x == DdlRecords(durableLsn + 1)
  <2>1. durableLsn \in Nat /\ submitted \in Nat
    BY DEF TypeOK
  <2>2. x \in Entry /\ durableLsn < x.last /\ x.last <= durableLsn + 2
    BY <2>1 DEF DdlRecords, DDL, Entry
  <2>3. \/ tail' = {} /\ tailLsn' = durableLsn
        \/ tail' = {x} /\ tailLsn' = durableLsn + 2
    OBVIOUS
  <2> HIDE DEF x, DdlAppendErr, IInv
  <2> QED BY <2>1, <2>2, <2>3
<1>b. UNCHANGED <<wal, pages, durableLsn>>
  OBVIOUS
<1> HIDE DEF AppendWalFails
<1>1. TypeOK'
  <2>1. pc' \in [Conns -> Labels]
    BY DEF TypeOK, Labels, LanePcs
  <2> QED BY <2>1, <1>a, <1>b DEF TypeOK
<1>2. LaneExclusive'
  BY DEF TypeOK, LaneExclusive, LanePcs
<1>3. OneLeader'
  BY DEF TypeOK, OneLeader, QueueInv, LeaderPcs
<1>4. QueueInv' /\ BatchInv'
  BY PipelineFrame DEF TypeOK, QueueInv, OneLeader, LeaderPcs, CommitPcs, BatchPcs
<1>5. DdlInv'
  BY DEF TypeOK, DdlInv, LaneExclusive, OneLeader, LanePcs
<1>6. MarkInv'
  BY <1>b DEF TypeOK, MarkInv, BatchEntries, DdlEntry, DdlRecords
<1>7. LogInv'
  BY LogFrame, <1>b DEF TypeOK
<1>8. ResultInv'
  BY DEF TypeOK, ResultInv, CommitPcs, LeaderPcs
<1>9. AckedDurable'
  BY <1>b DEF TypeOK, AckedDurable
<1>10. TailInv'
  BY <1>a, <1>b DEF TailInv
<1> QED BY <1>1, <1>2, <1>3, <1>4, <1>5, <1>6, <1>7, <1>8, <1>9, <1>10

\* DdlRelease preserves the invariant.
LEMMA DdlReleaseInv == ASSUME NEW c \in Conns, IInv, DdlRelease(c) PROVE IInv'
<1> USE BoundsAssumption DEF IInv, DdlRelease, ReleaseLane, Goto,
        txnVars, laneVars, memberVars, coordVars, leadVars, logVars, storeVars, histVars
<1>1. TypeOK'
  BY DEF TypeOK, Labels, LanePcs, LeaderPcs
<1>2. LaneExclusive'
  BY DEF TypeOK, LaneExclusive, LanePcs
<1>3. OneLeader'
  BY DEF TypeOK, OneLeader, QueueInv, LeaderPcs
<1>4. QueueInv' /\ BatchInv'
  BY PipelineFrame DEF TypeOK, QueueInv, OneLeader, LeaderPcs, CommitPcs, BatchPcs
<1>5. DdlInv'
  BY DEF TypeOK, DdlInv, LaneExclusive, OneLeader, LanePcs
<1>6. MarkInv'
  BY DEF TypeOK, MarkInv, BatchEntries, DdlEntry, DdlRecords
<1>7. LogInv'
  BY LogFrame DEF TypeOK
<1>8. ResultInv'
  BY DEF TypeOK, ResultInv, CommitPcs, LeaderPcs
<1>9. AckedDurable'
  BY DEF TypeOK, AckedDurable
<1>10. TailInv'
  BY DEF TailInv
<1> QED BY <1>1, <1>2, <1>3, <1>4, <1>5, <1>6, <1>7, <1>8, <1>9, <1>10

\* SpuriousWakeup preserves the invariant.
LEMMA SpuriousWakeupInv == ASSUME NEW c \in Conns, IInv, SpuriousWakeup(c) PROVE IInv'
<1> USE BoundsAssumption DEF IInv, SpuriousWakeup, Goto,
        txnVars, laneVars, memberVars, coordVars, leadVars, logVars, storeVars, histVars
<1>1. TypeOK'
  BY DEF TypeOK, Labels, LanePcs, LeaderPcs
<1>2. LaneExclusive'
  BY DEF TypeOK, LaneExclusive, LanePcs
<1>3. OneLeader'
  BY DEF TypeOK, OneLeader, QueueInv, LeaderPcs
<1>4. QueueInv' /\ BatchInv'
  BY PipelineFrame DEF TypeOK, QueueInv, OneLeader, LeaderPcs, CommitPcs, BatchPcs
<1>5. DdlInv'
  BY DEF TypeOK, DdlInv, LaneExclusive, OneLeader, LanePcs
<1>6. MarkInv'
  BY DEF TypeOK, MarkInv, BatchEntries, DdlEntry, DdlRecords
<1>7. LogInv'
  BY LogFrame DEF TypeOK
<1>8. ResultInv'
  BY DEF TypeOK, ResultInv, CommitPcs, LeaderPcs
<1>9. AckedDurable'
  BY DEF TypeOK, AckedDurable
<1>10. TailInv'
  BY DEF TailInv
<1> QED BY <1>1, <1>2, <1>3, <1>4, <1>5, <1>6, <1>7, <1>8, <1>9, <1>10

\* Enqueue preserves the invariant.
LEMMA EnqueueInv == ASSUME NEW c \in Conns, IInv, Enqueue(c) PROVE IInv'
<1> USE BoundsAssumption DEF IInv, Enqueue, Goto,
        txnVars, laneVars, memberVars, coordVars, leadVars, logVars, storeVars, histVars
<1> DEFINE x == [conn |-> c, owner |-> txn[c], recs |-> ops[c] + 1,
                 upto |-> submitted + ops[c] + 1]
<1>a. x \in Member /\ queue \in Seq(Member) /\ submitted \in Nat /\ ops[c] \in Nat
  BY DEF TypeOK, Member
<1>b. queue' = Append(queue, x) /\ submitted' = submitted + ops[c] + 1
  OBVIOUS
<1>c. /\ Len(queue') = Len(queue) + 1 /\ Len(queue) \in Nat
      /\ queue' \in Seq(Member) /\ queue' # <<>>
      /\ queue'[Len(queue) + 1] = x
      /\ \A i \in 1..Len(queue) : queue'[i] = queue[i]
  <2> HIDE DEF x, IInv, Enqueue
  <2> QED BY <1>a, <1>b
<1>d. \A i \in 1..Len(queue') : i \in 1..Len(queue) \/ i = Len(queue) + 1
  BY <1>c
<1>e. \A i \in 1..Len(queue) : queue[i].conn \in Conns /\ queue[i].upto \in Nat
  BY <1>a, MemberFields
<1>f. \A d \in Conns \ {c} : pc'[d] = pc[d]
  BY DEF TypeOK
<1>g. pc'[c] \in {"releaseFollow", "releaseLead"}
  BY DEF TypeOK
<1>h. pc[c] = "writing" /\ txn' = txn /\ \A d \in Conns \ {c} : done'[d] = done[d]
  BY DEF TypeOK
<1>i. done'[c] = FALSE
  BY DEF TypeOK
<1>1. TypeOK'
  <2>1. submitted' \in Nat
    BY <1>a
  <2>2. done' \in [Conns -> BOOLEAN]
    BY DEF TypeOK
  <2>3. pc' \in [Conns -> Labels]
    BY DEF TypeOK, Labels, LeaderPcs, LanePcs
  <2> QED BY <2>1, <2>2, <2>3, <1>c DEF TypeOK
<1>2. LaneExclusive'
  BY DEF TypeOK, LaneExclusive, LanePcs
<1>3. OneLeader'
  <2>1. CASE leaderActive
    BY <2>1 DEF TypeOK, OneLeader, LeaderPcs
  <2>2. CASE ~leaderActive
    <3>1. \A d \in Conns : pc[d] \notin LeaderPcs
      BY <2>2 DEF OneLeader
    <3>2. pc'[c] = "releaseLead" /\ leaderActive' = TRUE
      BY <2>2 DEF TypeOK
    <3> QED BY <3>1, <3>2, <1>f DEF OneLeader, LeaderPcs
  <2> QED BY <2>1, <2>2
<1>4. QueueInv' /\ BatchInv'
  <2>1. WellOrdered(queue')
    <3>1. \A i \in 1..Len(queue) : queue[i].conn # c /\ queue[i].upto <= submitted
      BY <1>h DEF QueueInv, InFlight, CommitPcs, LeaderPcs
    <3>2. x.conn = c /\ x.recs = ops[c] + 1 /\ x.upto = submitted + ops[c] + 1
      OBVIOUS
    <3> HIDE DEF x
    <3>3. \A i \in 1..Len(queue) : queue[i].upto + x.recs <= x.upto
      <4> HIDE DEF IInv, Enqueue
      <4> TAKE i \in 1..Len(queue)
      <4> DEFINE u == queue[i].upto
                 o == ops[c]
      <4>1. u \in Nat /\ u <= submitted /\ o \in Nat /\ submitted \in Nat
        BY <3>1, <1>a, <1>e
      <4>2. x.recs = o + 1 /\ x.upto = submitted + o + 1
        BY <3>2
      <4> HIDE DEF u, o
      <4>3. u + (o + 1) <= submitted + o + 1
        BY <4>1
      <4>4. u + x.recs <= x.upto
        BY <4>2, <4>3
      <4> QED BY <4>4 DEF u
    <3>4. 0 < x.recs /\ x.recs <= x.upto
      BY <3>2, <1>a
    <3> QED BY <3>1, <3>2, <3>3, <3>4, <1>a, <1>b, WellOrderedAppend DEF QueueInv
  <2>2. ASSUME NEW i \in 1..Len(queue')
        PROVE  InFlight(queue[i])' /\ queue'[i].upto <= submitted'
    <3>1. CASE i \in 1..Len(queue)
      <4>1. queue'[i] = queue[i] /\ queue[i].conn \in Conns \ {c}
        BY <3>1, <1>c, <1>e, <1>h DEF QueueInv, InFlight, CommitPcs, LeaderPcs
      <4>2. queue[i].upto <= submitted'
        <5> DEFINE u == queue[i].upto
                   o == ops[c]
        <5>1. u <= submitted /\ u \in Nat /\ o \in Nat /\ submitted \in Nat
          BY <3>1, <1>a, <1>e DEF QueueInv
        <5>2. submitted' = submitted + o + 1
          BY <1>b
        <5> HIDE DEF IInv, Enqueue, u, o
        <5>3. u <= submitted'
          BY <5>1, <5>2
        <5> QED BY <5>3 DEF u
      <4> QED BY <3>1, <4>1, <4>2, <1>f, <1>h DEF QueueInv, InFlight
    <3>2. CASE i = Len(queue) + 1
      BY <3>2, <1>a, <1>b, <1>c, <1>g, <1>h, <1>i DEF InFlight, CommitPcs, LeaderPcs
    <3> QED BY <3>1, <3>2, <1>d
  <2>3. QueueInv'
    BY <2>1, <2>2, <1>c DEF QueueInv
  <2>4. ASSUME NEW d \in Conns
        PROVE  /\ batch'[d] # <<>> <=> pc'[d] \in BatchPcs
               /\ WellOrdered(batch'[d])
    BY <1>f, <1>g, <1>h DEF BatchInv, BatchPcs
  <2>5. ASSUME NEW d \in Conns, NEW i \in 1..Len(batch[d])
        PROVE  /\ InFlight(batch[d][i])'
               /\ \A j \in 1..Len(queue') : batch[d][i].conn # queue'[j].conn
    <3>1. batch[d] \in Seq(Member)
      BY DEF TypeOK
    <3>2. batch[d][i].conn \in Conns
      BY <3>1, MemberFields
    <3>3. InFlight(batch[d][i])
      BY DEF BatchInv
    <3>4. batch[d][i].conn # c
      BY <3>3, <1>h DEF InFlight, CommitPcs, LeaderPcs
    <3>5. InFlight(batch[d][i])'
      BY <3>2, <3>3, <3>4, <1>f, <1>h DEF InFlight
    <3>6. \A j \in 1..Len(queue) : batch[d][i].conn # queue[j].conn
      BY DEF BatchInv
    <3> QED BY <3>4, <3>5, <3>6, <1>c, <1>d
  <2>6. BatchInv'
    BY <2>4, <2>5 DEF BatchInv
  <2> QED BY <2>3, <2>6
<1>5. DdlInv'
  BY DEF TypeOK, DdlInv, LaneExclusive, OneLeader, LanePcs
<1>6. MarkInv'
  <2>1. \A d \in Conns : pc[d] # "ddlPublish"
    BY DEF LaneExclusive, LanePcs
  <2> QED BY <2>1, <1>f, <1>g, <1>h DEF MarkInv, BatchEntries
<1>7. LogInv'
  <2>1. \A d \in Conns : pc[d] # "ddlPublish"
    BY DEF LaneExclusive, LanePcs
  <2>2. \A d \in Conns : pc[d] \in {"publish", "ddlPublish"} =>
           pc'[d] = pc[d] /\ last'[d] = last[d] /\ batch'[d] = batch[d]
    BY <1>f, <1>h
  <2> QED BY <2>1, <2>2, LogFrame
<1>8. ResultInv'
  BY DEF TypeOK, ResultInv, CommitPcs, LeaderPcs
<1>9. AckedDurable'
  BY DEF TypeOK, AckedDurable
<1>10. TailInv'
  BY DEF TailInv
<1> QED BY <1>1, <1>2, <1>3, <1>4, <1>5, <1>6, <1>7, <1>8, <1>9, <1>10

\* Drain preserves the invariant.
LEMMA DrainInv == ASSUME NEW c \in Conns, IInv, Drain(c) PROVE IInv'
<1> USE DEF IInv, Drain, Goto, txnVars, laneVars, memberVars, coordVars, leadVars,
        logVars, storeVars, histVars
<1>a. PICK n \in 1..Len(queue) :
        /\ batch' = [batch EXCEPT ![c] = SubSeq(queue, 1, n)]
        /\ queue' = SubSeq(queue, n + 1, Len(queue))
  OBVIOUS
<1>b. queue \in Seq(Member) /\ batch \in [Conns -> Seq(Member)] /\ Len(queue) \in Nat
  BY DEF TypeOK
<1>c. /\ batch'[c] \in Seq(Member) /\ Len(batch'[c]) = n
      /\ \A i \in 1..n : batch'[c][i] = queue[i]
  BY <1>a, <1>b
<1>d. /\ queue' \in Seq(Member) /\ Len(queue') = Len(queue) - n
      /\ \A i \in 1..Len(queue') : n + i \in 1..Len(queue) /\ queue'[i] = queue[n + i]
  <2>1. queue' \in Seq(Member)
    BY <1>a, <1>b
  <2>2. Len(queue') = Len(queue) - n
    BY <1>a, <1>b, TailLength
  <2>3. ASSUME NEW i \in 1..Len(queue')
        PROVE  n + i \in 1..Len(queue) /\ queue'[i] = queue[n + i]
    BY SMTT(30), <2>2, <1>a, <1>b
  <2> QED BY <2>1, <2>2, <2>3
<1>e. \A d \in Conns \ {c} : batch'[d] = batch[d] /\ pc'[d] = pc[d]
  BY <1>a DEF TypeOK
<1>f. pc[c] = "drain" /\ pc'[c] = "append"
  BY DEF TypeOK
<1>g. \A d \in Conns \ {c} : pc[d] \notin LeaderPcs
  BY <1>f DEF OneLeader, LeaderPcs
<1>h. \A i \in 1..Len(queue) : queue[i].conn \in Conns
  BY <1>b, MemberFields
<1>1. TypeOK'
  <2>1. batch' \in [Conns -> Seq(Member)]
    BY <1>a, <1>b, <1>c
  <2>2. pc' \in [Conns -> Labels]
    BY DEF TypeOK, Labels, LeaderPcs
  <2> QED BY <2>1, <2>2, <1>d DEF TypeOK
<1>2. LaneExclusive'
  BY <1>e, <1>f DEF LaneExclusive, LanePcs
<1>3. OneLeader'
  <2>1. \A d \in Conns : pc'[d] \in LeaderPcs <=> pc[d] \in LeaderPcs
    BY <1>e, <1>f DEF LeaderPcs
  <2>2. leaderActive
    BY <1>f DEF OneLeader, LeaderPcs
  <2> QED BY <2>1, <2>2 DEF OneLeader
<1>4. QueueInv' /\ BatchInv'
  <2>1. WellOrdered(queue') /\ WellOrdered(batch'[c])
    <3>1. WellOrdered(queue)
      BY DEF QueueInv
    <3>2. WellOrdered(SubSeq(queue, 1, n)) /\ WellOrdered(SubSeq(queue, n + 1, Len(queue)))
      BY <3>1, <1>b, WellOrderedSubSeq
    <3> QED BY <3>2, <1>a, <1>b
  <2>2. \A i \in 1..Len(queue) : InFlight(queue[i]) /\ queue[i].upto <= submitted
    BY DEF QueueInv
  <2>3. \A d \in Conns : pc[d] \in CommitPcs => pc'[d] \in CommitPcs
    BY <1>e, <1>f DEF CommitPcs, LeaderPcs
  <2>4. \A i, j \in 1..Len(queue) : i < j => queue[i].conn # queue[j].conn
    BY DEF QueueInv, WellOrdered
  <2>5. QueueInv'
    <3>1. \A i \in 1..Len(queue') : InFlight(queue[i])' /\ queue'[i].upto <= submitted'
      BY SMTT(30), <1>d, <1>h, <2>2, <2>3 DEF InFlight
    <3>2. \A d \in Conns : pc'[d] \notin {"releaseLead", "drain"}
      BY <1>e, <1>f, <1>g DEF LeaderPcs
    <3> QED BY <2>1, <3>1, <3>2 DEF QueueInv
  <2>6. \A d \in Conns \ {c} : batch'[d] = <<>> /\ Len(batch'[d]) = 0
    BY <1>e, <1>g DEF BatchInv, BatchPcs, LeaderPcs
  <2>7. ASSUME NEW d \in Conns
        PROVE  /\ batch'[d] # <<>> <=> pc'[d] \in BatchPcs
               /\ WellOrdered(batch'[d])
               /\ \A i \in 1..Len(batch'[d]) :
                    /\ InFlight(batch[d][i])'
                    /\ \A j \in 1..Len(queue') : batch'[d][i].conn # queue'[j].conn
    <3>1. CASE d = c
      <4>1. batch'[c] # <<>> /\ pc'[c] \in BatchPcs
        <5> HIDE DEF IInv, Drain
        <5>1. batch'[c] # <<>>
          BY <1>c
        <5>2. pc'[c] \in BatchPcs
          BY <1>f DEF BatchPcs
        <5> QED BY <5>1, <5>2
      <4>2. \A i \in 1..n : i \in 1..Len(queue)
        BY <1>b
      <4>3. \A i \in 1..n : InFlight(batch[c][i])'
        BY <4>2, <1>c, <1>h, <2>2, <2>3 DEF InFlight
      <4>4. ASSUME NEW i \in 1..n, NEW j \in 1..Len(queue')
            PROVE  batch'[c][i].conn # queue'[j].conn
        <5> HIDE DEF IInv, Drain
        <5>1. i < n + j /\ i \in 1..Len(queue) /\ n + j \in 1..Len(queue)
          BY <1>b, <1>d
        <5>2. batch'[c][i] = queue[i] /\ queue'[j] = queue[n + j]
          BY <1>c, <1>d
        <5>3. queue[i].conn # queue[n + j].conn
          BY <5>1, <2>4
        <5> QED BY <5>2, <5>3
      <4> QED BY <3>1, <4>1, <4>3, <4>4, <2>1, <1>c
    <3>2. CASE d # c
      <4>1. pc'[d] \notin BatchPcs
        BY <3>2, <1>e, <1>g DEF BatchPcs, LeaderPcs
      <4>2. WellOrdered(batch'[d])
        BY <3>2, <1>e DEF BatchInv
      <4> QED BY <3>2, <4>1, <4>2, <2>6
    <3> QED BY <3>1, <3>2
  <2>8. BatchInv'
    BY <2>7 DEF BatchInv
  <2> QED BY <2>5, <2>8
<1>5. DdlInv'
  BY <1>e, <1>f DEF DdlInv, OneLeader, LeaderPcs
<1>6. MarkInv'
  <2>1. \A d \in Conns : pc'[d] \notin {"publish", "resolve", "discard"}
    BY <1>e, <1>f, <1>g DEF LeaderPcs
  <2>2. \A d \in Conns : pc[d] \notin {"publish", "ddlPublish"}
    BY <1>f, <1>g DEF LeaderPcs, DdlInv, OneLeader
  <2>3. \A d \in Conns : pc'[d] # "ddlPublish"
    BY <1>e, <1>f, <2>2
  <2> QED BY <2>1, <2>2, <2>3 DEF MarkInv
<1>7. LogInv'
  BY LogFrame, <1>e, <1>f
<1>8. ResultInv'
  BY <1>e, <1>f DEF ResultInv, CommitPcs, LeaderPcs
<1>9. AckedDurable'
  BY DEF AckedDurable
<1>10. TailInv'
  BY DEF TailInv
<1> QED BY <1>1, <1>2, <1>3, <1>4, <1>5, <1>6, <1>7, <1>8, <1>9, <1>10

\* AppendOk preserves the invariant.
LEMMA AppendOkInv == ASSUME NEW c \in Conns, IInv, AppendOk(c) PROVE IInv'
<1> USE DEF IInv, AppendOk, AppendWal, Goto, txnVars, laneVars, memberVars, coordVars, leadVars,
        logVars, storeVars, histVars
<1> DEFINE b == batch[c]
           f == durableLsn + 1
<1>a. b \in Seq(Member) /\ WellOrdered(b) /\ b # <<>> /\ f \in Nat /\ f >= 1
      /\ durableLsn \in Nat /\ last \in [Conns -> Nat]
  BY DEF TypeOK, BatchInv, BatchPcs
<1>b. Total(b) \in Nat /\ 1 <= Total(b)
  BY <1>a, SliceBounds
<1>c. \A e \in Slices(b, f) : e \in Entry /\ f <= e.last /\ e.last <= durableLsn + Total(b)
  <2>1. \A k \in 1..Len(b) : /\ Slice(b, f, k) \in Entry /\ f <= Slice(b, f, k).last
                             /\ Slice(b, f, k).last <= f + Total(b) - 1
    BY <1>a, SliceBounds
  <2>2. f + Total(b) - 1 = durableLsn + Total(b)
    BY <1>a, <1>b
  <2> HIDE DEF b, f
  <2> QED BY <2>1, <2>2 DEF Slices
<1>d. \A d \in Conns \ {c} : last'[d] = last[d] /\ pc'[d] = pc[d]
  BY DEF TypeOK
<1>e. pc[c] = "append" /\ pc'[c] = "publish" /\ last'[c] = durableLsn + Total(b)
      /\ durableLsn' = durableLsn + Total(b) /\ wal' = wal \cup Slices(b, f)
      /\ tail' = {} /\ tailLsn' = durableLsn'
  BY <1>a DEF TypeOK
<1>f. \A d \in Conns \ {c} : pc[d] \notin LeaderPcs /\ pc[d] # "ddlPublish"
  BY <1>e DEF OneLeader, LeaderPcs, DdlInv
<1>g. committed <= durableLsn /\ committed \in Nat
  BY DEF MarkInv, TypeOK
<1>h. durableLsn' - Total(b) + 1 = f
  BY <1>a, <1>b, <1>e
<1>i. BatchEntries(c)' = Slices(b, f)
  BY <1>e, <1>h DEF BatchEntries
<1> HIDE DEF b, f
<1>1. TypeOK'
  <2>1. last' \in [Conns -> Nat] /\ durableLsn' \in Nat /\ tailLsn' \in Nat
        /\ tail' \subseteq Entry
    BY <1>a, <1>b, <1>e
  <2>2. wal' \subseteq Entry
    BY <1>c, <1>e DEF TypeOK
  <2>3. pc' \in [Conns -> Labels]
    BY DEF TypeOK, Labels, LeaderPcs
  <2> QED BY <2>1, <2>2, <2>3 DEF TypeOK
<1>2. LaneExclusive'
  BY <1>d, <1>e DEF LaneExclusive, LanePcs
<1>3. OneLeader'
  <2>1. \A d \in Conns : pc'[d] \in LeaderPcs <=> pc[d] \in LeaderPcs
    BY <1>d, <1>e DEF LeaderPcs
  <2> QED BY <2>1 DEF OneLeader
<1>4. QueueInv' /\ BatchInv'
  BY PipelineFrame, <1>d, <1>e DEF QueueInv, CommitPcs, LeaderPcs, BatchPcs
<1>5. DdlInv'
  BY <1>d, <1>e DEF DdlInv
<1>6. MarkInv'
  <2>1. committed <= durableLsn'
    BY <1>a, <1>b, <1>e, <1>g
  <2>2. /\ last'[c] = durableLsn' /\ committed + Total(batch'[c]) <= durableLsn'
        /\ BatchEntries(c)' \subseteq wal'
    <3>1. committed + Total(b) <= durableLsn + Total(b)
      BY <1>a, <1>b, <1>g
    <3>2. batch'[c] = b
      BY DEF b
    <3> QED BY <3>1, <3>2, <1>e, <1>i
  <2>3. \A d \in Conns \ {c} : pc'[d] \notin {"publish", "ddlPublish", "resolve", "discard"}
    BY <1>d, <1>f DEF LeaderPcs
  <2> QED BY <2>1, <2>2, <2>3, <1>e DEF MarkInv
<1>7. LogInv'
  <2>1. wal = published
    BY <1>e, <1>f DEF LogInv, LeaderPcs
  <2>2. \A e \in published : e.last <= durableLsn /\ e \in Entry
    BY <2>1 DEF LogInv, TypeOK
  <2>3. \A e \in wal' : e.last <= durableLsn'
    BY <2>1, <2>2, <1>a, <1>b, <1>c, <1>e DEF Entry
  <2>4. \A e \in wal' \ published' : committed' < e.last /\ e \in BatchEntries(c)'
    <3>1. ASSUME NEW e \in Slices(b, f) PROVE committed < e.last
      BY <1>a, <1>c, <1>g DEF f, Entry
    <3>2. committed' = committed /\ published' = published
      OBVIOUS
    <3> QED BY <3>1, <3>2, <2>1, <1>e, <1>i
  <2> QED BY <2>1, <2>2, <2>3, <2>4, <1>e, <1>g DEF LogInv
<1>8. ResultInv'
  BY <1>d, <1>e DEF ResultInv, CommitPcs, LeaderPcs
<1>9. AckedDurable'
  BY <1>e DEF AckedDurable
<1>10. TailInv'
  BY <1>a, <1>b, <1>e DEF TailInv
<1> QED BY <1>1, <1>2, <1>3, <1>4, <1>5, <1>6, <1>7, <1>8, <1>9, <1>10

\* Publish preserves the invariant.
LEMMA PublishInv == ASSUME NEW c \in Conns, IInv, Publish(c) PROVE IInv'
<1> USE DEF IInv, Publish, Goto, txnVars, laneVars, memberVars, coordVars, leadVars,
        logVars, storeVars, histVars
<1> DEFINE b == batch[c]
           S == Slices(b, last[c] - Total(b) + 1)
<1>a. b \in Seq(Member) /\ WellOrdered(b) /\ b # <<>> /\ durableLsn \in Nat
      /\ committed \in Nat /\ pc[c] = "publish"
  BY DEF TypeOK, BatchInv, BatchPcs
<1>b. Total(b) \in Nat /\ 1 <= Total(b)
  BY <1>a, SliceBounds
<1>c. last[c] = durableLsn /\ committed + Total(b) <= durableLsn
  BY <1>a DEF MarkInv
<1>d. committed' = durableLsn
  BY <1>a, <1>b, <1>c
<1>e. published' = published \cup S /\ S = BatchEntries(c)
  BY DEF BatchEntries
<1>f. pc'[c] = "resolve" /\ \A d \in Conns \ {c} : pc'[d] = pc[d]
  BY DEF TypeOK
<1>g. \A d \in Conns \ {c} : pc[d] \notin LeaderPcs /\ pc[d] # "ddlPublish"
  BY <1>a DEF OneLeader, LeaderPcs, DdlInv
<1>h. \A e \in S : e \in Entry /\ e.last <= durableLsn
  <2> DEFINE f == last[c] - Total(b) + 1
  <2>1. f \in Nat /\ f >= 1 /\ f + Total(b) - 1 = durableLsn
    BY <1>a, <1>b, <1>c
  <2> HIDE DEF f, b
  <2>2. \A k \in 1..Len(b) : Slice(b, f, k) \in Entry /\ Slice(b, f, k).last <= durableLsn
    BY <1>a, <2>1, SliceBounds
  <2> QED BY <2>2 DEF Slices, f
<1> HIDE DEF b, S
<1>i. wal = published'
  <2>1. wal \ published \subseteq S
    BY <1>a, <1>e, <1>g DEF LogInv, LeaderPcs
  <2>2. S \subseteq wal
    BY <1>a, <1>e DEF MarkInv
  <2> QED BY <2>1, <2>2, <1>e DEF LogInv
<1>1. TypeOK'
  <2>1. pc' \in [Conns -> Labels]
    BY DEF TypeOK, Labels, LeaderPcs
  <2>2. pending' \subseteq Nat /\ committed' \in Nat
    BY <1>a, <1>d DEF TypeOK
  <2>3. published' \subseteq Entry
    BY <1>i DEF TypeOK
  <2> QED BY <2>1, <2>2, <2>3 DEF TypeOK
<1>2. LaneExclusive'
  BY <1>a, <1>f DEF LaneExclusive, LanePcs
<1>3. OneLeader'
  <2>1. \A d \in Conns : pc'[d] \in LeaderPcs <=> pc[d] \in LeaderPcs
    BY <1>a, <1>f DEF LeaderPcs
  <2> QED BY <2>1 DEF OneLeader
<1>4. QueueInv' /\ BatchInv'
  BY PipelineFrame, <1>a, <1>f DEF QueueInv, CommitPcs, LeaderPcs, BatchPcs
<1>5. DdlInv'
  BY <1>f DEF DdlInv
<1>6. MarkInv'
  <2>1. \A d \in Conns \ {c} : pc'[d] \notin {"publish", "ddlPublish", "resolve", "discard"}
    BY <1>f, <1>g DEF LeaderPcs
  <2>2. Total(batch'[c]) <= last'[c] /\ BatchEntries(c)' \subseteq published'
    BY <1>a, <1>b, <1>c, <1>e DEF b, BatchEntries
  <2>3. committed' <= durableLsn'
    BY <1>a, <1>d
  <2> QED BY <2>1, <2>2, <2>3, <1>d, <1>f DEF MarkInv
<1>7. LogInv'
  BY <1>d, <1>i DEF LogInv
<1>8. ResultInv'
  BY <1>a, <1>e, <1>f DEF ResultInv, CommitPcs, LeaderPcs
<1>9. AckedDurable'
  BY <1>e DEF AckedDurable
<1>10. TailInv'
  BY DEF TailInv
<1> QED BY <1>1, <1>2, <1>3, <1>4, <1>5, <1>6, <1>7, <1>8, <1>9, <1>10

\* Resolve preserves the invariant.
LEMMA ResolveInv == ASSUME NEW c \in Conns, IInv, Resolve(c) PROVE IInv'
<1> USE DEF IInv, Resolve, Goto, txnVars, laneVars, memberVars, coordVars, leadVars,
        logVars, storeVars, histVars
<1> DEFINE b     == batch[c]
           f     == last[c] - Total(b) + 1
           In(m) == \E k \in 1..Len(b) : b[k].conn = m
           k(m)  == CHOOSE i \in 1..Len(b) : b[i].conn = m
<1>a. b \in Seq(Member) /\ WellOrdered(b) /\ b # <<>> /\ pc[c] = "resolve"
      /\ last \in [Conns -> Nat]
  BY DEF TypeOK, BatchInv, BatchPcs
<1>b. /\ done' = [m \in Conns |-> In(m) \/ done[m]]
      /\ result' = [m \in Conns |->
            IF ~In(m) THEN result[m]
            ELSE IF last[c] = 0 THEN 0 ELSE Slice(b, f, k(m)).last]
  OBVIOUS
<1>c. batch'[c] = <<>> /\ \A d \in Conns \ {c} : batch'[d] = batch[d] /\ last'[d] = last[d]
  BY DEF TypeOK
<1>d. pc'[c] = "relinquish" /\ \A d \in Conns \ {c} : pc'[d] = pc[d]
  BY DEF TypeOK
<1>e. \A d \in Conns \ {c} : pc[d] \notin LeaderPcs
  BY <1>a DEF OneLeader, LeaderPcs
<1>f. ASSUME NEW m \in Conns, In(m)
      PROVE  k(m) \in 1..Len(b) /\ b[k(m)].conn = m
  BY <1>f
<1>g. \A i \in 1..Len(b) : InFlight(b[i]) /\ \A j \in 1..Len(queue) : b[i].conn # queue[j].conn
  BY DEF BatchInv
<1>h. \A j \in 1..Len(queue) : ~In(queue[j].conn)
  BY <1>g
<1>i. ASSUME last[c] # 0
      PROVE  /\ f \in Nat /\ f >= 1
             /\ \A i \in 1..Len(b) : Slice(b, f, i) \in Entry
             /\ \A i \in 1..Len(b) : Slice(b, f, i) \in published
  <2>1. Total(b) \in Nat /\ 1 <= Total(b)
    BY <1>a, TotalPositive
  <2>2. Total(b) <= last[c] /\ Slices(b, f) \subseteq published
    BY <1>a, <1>i DEF MarkInv, BatchEntries
  <2>3. f \in Nat /\ f >= 1
    BY <2>1, <2>2, <1>a
  <2>4. Slices(b, f) = {Slice(b, f, i) : i \in 1..Len(b)}
    BY DEF Slices
  <2> HIDE DEF b, f
  <2>5. \A i \in 1..Len(b) : Slice(b, f, i) \in published
    BY <2>2, <2>4
  <2> QED BY <1>a, <2>3, <2>5, SliceBounds
<1> HIDE DEF b, f, In, k
<1>1. TypeOK'
  <2>1. ASSUME NEW m \in Conns PROVE result'[m] \in Nat
    <3>1. result[m] \in Nat
      BY DEF TypeOK
    <3>2. CASE ~In(m)
      BY <3>1, <3>2, <1>b
    <3>3. CASE In(m) /\ last[c] = 0
      BY <3>3, <1>b
    <3>4. CASE In(m) /\ last[c] # 0
      <4>1. Slice(b, f, k(m)) \in Entry
        BY <3>4, <1>f, <1>i
      <4>2. Slice(b, f, k(m)).last \in Nat
        BY <4>1 DEF Entry
      <4> QED BY <3>4, <4>2, <1>b
    <3> QED BY <3>2, <3>3, <3>4
  <2>2. result' \in [Conns -> Nat]
    BY <2>1, <1>b
  <2>3. done' \in [Conns -> BOOLEAN]
    <3>1. \A m \in Conns : (In(m) \/ done[m]) \in BOOLEAN
      BY DEF In, TypeOK
    <3> QED BY <3>1, <1>b
  <2>4. pc' \in [Conns -> Labels]
    BY DEF TypeOK, Labels, LeaderPcs
  <2>5. last' \in [Conns -> Nat]
    BY <1>a
  <2>6. batch' \in [Conns -> Seq(Member)]
    BY DEF TypeOK
  <2> QED BY <2>2, <2>3, <2>4, <2>5, <2>6 DEF TypeOK
<1>2. LaneExclusive'
  BY <1>a, <1>d DEF LaneExclusive, LanePcs
<1>3. OneLeader'
  <2>1. \A d \in Conns : pc'[d] \in LeaderPcs <=> pc[d] \in LeaderPcs
    BY <1>a, <1>d DEF LeaderPcs
  <2> QED BY <2>1 DEF OneLeader
<1>4. QueueInv' /\ BatchInv'
  <2>1. \A i \in 1..Len(queue) : queue[i].conn \in Conns
    <3>1. queue \in Seq(Member)
      BY DEF TypeOK
    <3> QED BY <3>1, MemberFields
  <2>2. \A d \in Conns : pc[d] \in CommitPcs => pc'[d] \in CommitPcs
    BY <1>a, <1>d DEF CommitPcs, LeaderPcs
  <2>3. \A i \in 1..Len(queue) : InFlight(queue[i])'
    BY <2>1, <2>2, <1>b, <1>h DEF QueueInv, InFlight
  <2>4. \A d \in Conns : pc'[d] \notin {"releaseLead", "drain"}
    BY <1>d, <1>e DEF LeaderPcs
  <2>5. QueueInv'
    BY <2>3, <2>4 DEF QueueInv
  <2>6. \A d \in Conns : batch'[d] = <<>> /\ pc'[d] \notin BatchPcs
    BY <1>c, <1>d, <1>e DEF BatchInv, BatchPcs, LeaderPcs
  <2>7. BatchInv'
    BY <2>6 DEF BatchInv, WellOrdered
  <2> QED BY <2>5, <2>7
<1>5. DdlInv'
  BY <1>d DEF DdlInv
<1>6. MarkInv'
  <2>1. \A d \in Conns : pc'[d] \notin {"publish", "resolve", "discard"}
    BY <1>d, <1>e DEF LeaderPcs
  <2>2. \A d \in Conns : pc'[d] = "ddlPublish" => pc[d] = "ddlPublish" /\ last'[d] = last[d]
    BY <1>c, <1>d
  <2>5. MarkInv /\ UNCHANGED <<committed, durableLsn, wal, submitted>>
    OBVIOUS
  <2> HIDE DEF IInv, Resolve
  <2> QED BY <2>1, <2>2, <2>5 DEF MarkInv, DdlEntry, DdlRecords
<1>7. LogInv'
  BY LogFrame, <1>a, <1>c, <1>d
<1>8. ResultInv'
  <2> SUFFICES ASSUME NEW m \in Conns, done'[m]
               PROVE  /\ pc'[m] \in CommitPcs
                      /\ result'[m] # 0 =>
                           \E e \in published : e.owner = txn[m] /\ e.last = result'[m]
    BY DEF ResultInv
  <2>1. CASE ~In(m)
    <3>1. done[m] /\ result'[m] = result[m]
      BY <2>1, <1>b
    <3>2. pc[m] \in CommitPcs => pc'[m] \in CommitPcs
      BY <1>a, <1>d DEF CommitPcs, LeaderPcs
    <3>3. ResultInv
      OBVIOUS
    <3> HIDE DEF IInv, Resolve
    <3> QED BY <3>1, <3>2, <3>3 DEF ResultInv
  <2>2. CASE In(m)
    <3>1. k(m) \in 1..Len(b) /\ b[k(m)].conn = m
      BY <2>2, <1>f
    <3>2. pc[m] \in CommitPcs /\ txn[m] = b[k(m)].owner
      BY <3>1, <1>g DEF InFlight
    <3>3. pc'[m] \in CommitPcs
      BY <3>2, <1>d DEF CommitPcs, LeaderPcs
    <3>4. ASSUME result'[m] # 0
          PROVE  \E e \in published : e.owner = txn[m] /\ e.last = result'[m]
      <4>1. last[c] # 0 /\ result'[m] = Slice(b, f, k(m)).last
        BY <3>4, <2>2, <1>b
      <4>2. Slice(b, f, k(m)) \in published
        BY <4>1, <3>1, <1>i
      <4>3. Slice(b, f, k(m)).owner = txn[m]
        BY <3>2 DEF Slice
      <4> QED BY <4>1, <4>2, <4>3
    <3> QED BY <3>3, <3>4
  <2> QED BY <2>1, <2>2
<1>9. AckedDurable'
  BY DEF AckedDurable
<1>10. TailInv'
  BY DEF TailInv
<1> QED BY <1>1, <1>2, <1>3, <1>4, <1>5, <1>6, <1>7, <1>8, <1>9, <1>10

\* Reclaim preserves the invariant.
LEMMA ReclaimInv == ASSUME NEW c \in Conns, IInv, Reclaim(c) PROVE IInv'
<1> USE DEF IInv, Reclaim, RemoveMember, Goto, txnVars, laneVars, memberVars, coordVars,
        leadVars, logVars, storeVars, histVars
<1>1. CASE ~done[c]
  <2>1. UNCHANGED <<pc, txn, ops, nextOwner, lane, laneWait, queue, submitted, done,
                    result, leaderActive, batch, last, wal, pages, durableLsn, tail, tailLsn, pending,
                    published, committed, acked, crashes>>
        /\ cvWait' = cvWait \cup {c}
    BY <1>1
  <2>2. LaneExclusive' /\ OneLeader'
    BY <2>1 DEF LaneExclusive, OneLeader
  <2>5. cvWait' \subseteq Conns
    BY <2>1 DEF TypeOK
  <2> HIDE DEF Reclaim
  <2>6. TypeOK'
    BY <2>1, <2>5 DEF TypeOK
  <2>3. QueueInv' /\ BatchInv' /\ DdlInv'
    BY <2>1 DEF QueueInv, BatchInv, InFlight, DdlInv
  <2>4. MarkInv' /\ LogInv' /\ TailInv' /\ ResultInv' /\ AckedDurable'
    BY <2>1 DEF MarkInv, LogInv, TailInv, BatchEntries, DdlEntry, DdlRecords, ResultInv, AckedDurable
  <2> QED BY <2>2, <2>3, <2>4, <2>6
<1>2. CASE done[c]
  <2>a. /\ pc[c] = "reclaim" /\ pc'[c] = "idle" /\ done'[c] = FALSE
        /\ \A d \in Conns \ {c} : /\ pc'[d] = pc[d] /\ done'[d] = done[d]
                                  /\ txn'[d] = txn[d] /\ result'[d] = result[d]
        /\ UNCHANGED <<nextOwner, lane, laneWait, queue, submitted, leaderActive,
                       cvWait, batch, last, wal, durableLsn, tail, tailLsn, pending, published,
                       committed, crashes>>
    BY <1>2 DEF TypeOK
  <2>b. \/ acked' = acked
        \/ /\ result[c] > 0
           /\ acked' = acked \cup {[owner |-> txn[c], last |-> result[c]]}
    BY <1>2
  <2>1. TypeOK'
    <3>0. /\ txn' = [txn EXCEPT ![c] = 0] /\ ops' = [ops EXCEPT ![c] = 0]
          /\ result' = [result EXCEPT ![c] = 0]
      BY <1>2
    <3> HIDE DEF Reclaim
    <3>1. txn' \in [Conns -> Nat] /\ ops' \in [Conns -> Nat]
      BY <3>0 DEF TypeOK
    <3>2. result' \in [Conns -> Nat]
      BY <3>0 DEF TypeOK
    <3> USE DEF Reclaim
    <3>3. done' \in [Conns -> BOOLEAN]
      BY <1>2 DEF TypeOK
    <3>4. pc' \in [Conns -> Labels]
      BY <1>2 DEF TypeOK, Labels
    <3>5. acked' \subseteq [owner : Nat, last : Nat]
      BY <2>b DEF TypeOK
    <3> QED BY <3>1, <3>2, <3>3, <3>4, <3>5, <2>a DEF TypeOK
  <2>2. LaneExclusive'
    BY <2>a DEF LaneExclusive, LanePcs
  <2>3. OneLeader'
    BY <2>a DEF OneLeader, LeaderPcs
  <2>4. QueueInv' /\ BatchInv'
    BY PipelineFrame, <1>2, <2>a DEF QueueInv, CommitPcs, LeaderPcs, BatchPcs
  <2>5. DdlInv'
    BY <2>a DEF DdlInv
  <2>6. MarkInv'
    BY <2>a DEF MarkInv, BatchEntries, DdlEntry, DdlRecords
  <2>7. LogInv'
    BY LogFrame, <2>a
  <2>8. ResultInv'
    BY <2>a DEF ResultInv
  <2>9. AckedDurable'
    <3>1. result[c] \in Nat
      BY DEF TypeOK
    <3>2. result[c] # 0 =>
            \E e \in published : e.owner = txn[c] /\ e.last = result[c] /\ e \in wal
      BY <1>2 DEF ResultInv, LogInv
    <3> QED BY <3>1, <3>2, <2>a, <2>b DEF AckedDurable
  <2>10. TailInv'
    BY <2>a DEF TailInv
  <2> QED BY <2>1, <2>2, <2>3, <2>4, <2>5, <2>6, <2>7, <2>8, <2>9, <2>10
<1> QED BY <1>1, <1>2

\* DdlAppend preserves the invariant.
LEMMA DdlAppendInv == ASSUME NEW c \in Conns, IInv, DdlAppend(c) PROVE IInv'
<1> USE DEF IInv, DdlAppend, AppendWal, DdlRecords, Goto, txnVars, laneVars, memberVars, coordVars, leadVars,
        logVars, storeVars, histVars
<1> DEFINE x == [owner |-> DDL, sub |-> submitted,
                 first |-> durableLsn + 1, last |-> durableLsn + 2]
<1>a. durableLsn \in Nat /\ submitted \in Nat /\ last \in [Conns -> Nat]
  BY DEF TypeOK
<1>b. pc[c] = "ddl" /\ pc'[c] = "ddlPublish" /\ last'[c] = durableLsn + 2
      /\ durableLsn' = durableLsn + 2 /\ wal' = wal \cup {x}
      /\ tail' = {} /\ tailLsn' = durableLsn'
      /\ \A d \in Conns \ {c} : pc'[d] = pc[d] /\ last'[d] = last[d]
  BY <1>a DEF TypeOK
<1>c. x \in Entry /\ x.last = durableLsn + 2
  BY <1>a DEF Entry, DDL
<1>d. DdlEntry(c)' = x
  BY <1>a, <1>b DEF DdlEntry, DdlRecords
<1> HIDE DEF x
<1>e. \A d \in Conns : pc[d] \notin LeaderPcs
  BY <1>b DEF DdlInv, OneLeader
<1>f. \A d \in Conns \ {c} : pc[d] # "ddlPublish"
  BY <1>b DEF LaneExclusive, LanePcs
<1>g. committed <= durableLsn /\ committed \in Nat
  BY DEF MarkInv, TypeOK
<1>h. wal = published
  BY <1>b, <1>e, <1>f DEF LogInv, LeaderPcs
<1>1. TypeOK'
  <2>1. pc' \in [Conns -> Labels]
    BY DEF TypeOK, Labels, LanePcs
  <2>2. last' \in [Conns -> Nat] /\ durableLsn' \in Nat /\ tailLsn' \in Nat
        /\ tail' \subseteq Entry
    BY <1>a
  <2>3. wal' \subseteq Entry
    BY <1>b, <1>c DEF TypeOK
  <2> QED BY <2>1, <2>2, <2>3 DEF TypeOK
<1>2. LaneExclusive'
  BY <1>b DEF LaneExclusive, LanePcs
<1>3. OneLeader'
  BY <1>b DEF OneLeader, LeaderPcs
<1>4. QueueInv' /\ BatchInv'
  BY PipelineFrame, <1>b DEF QueueInv, CommitPcs, LeaderPcs, BatchPcs
<1>5. DdlInv'
  BY <1>b DEF DdlInv
<1>6. MarkInv'
  <2>1. committed <= durableLsn' /\ committed + 2 <= durableLsn'
    BY <1>a, <1>b, <1>g
  <2>2. \A d \in Conns \ {c} : pc'[d] \notin {"publish", "ddlPublish", "resolve", "discard"}
    BY <1>b, <1>e, <1>f DEF LeaderPcs
  <2> QED BY <2>1, <2>2, <1>b, <1>d DEF MarkInv
<1>7. LogInv'
  <2>1. \A e \in wal : e.last <= durableLsn /\ e \in Entry
    BY DEF LogInv, TypeOK
  <2>2. \A e \in wal' : e.last <= durableLsn'
    BY <2>1, <1>a, <1>b, <1>c DEF Entry
  <2>3. \A e \in wal' \ published' : committed' < e.last /\ e = DdlEntry(c)'
    <3>1. committed < x.last
      BY <1>a, <1>c, <1>g
    <3> QED BY <3>1, <1>b, <1>d, <1>g, <1>h
  <2>4. published' \subseteq wal' /\ \A e \in published' : e.last <= committed'
    BY <1>b, <1>h DEF LogInv
  <2> QED BY <2>2, <2>3, <2>4, <1>b DEF LogInv
<1>8. ResultInv'
  BY <1>b DEF ResultInv, CommitPcs, LeaderPcs
<1>9. AckedDurable'
  BY <1>b DEF AckedDurable
<1>10. TailInv'
  BY <1>a, <1>b DEF TailInv
<1> QED BY <1>1, <1>2, <1>3, <1>4, <1>5, <1>6, <1>7, <1>8, <1>9, <1>10

\* DdlPublish preserves the invariant.
LEMMA DdlPublishInv == ASSUME NEW c \in Conns, IInv, DdlPublish(c) PROVE IInv'
<1> USE DEF IInv, DdlPublish, Goto, txnVars, laneVars, memberVars, coordVars, leadVars,
        logVars, storeVars, histVars
<1>a. pc[c] = "ddlPublish" /\ pc'[c] \in {"ddlPages", "ddlRelease"} /\ committed \in Nat
      /\ durableLsn \in Nat
      /\ \A d \in Conns \ {c} : pc'[d] = pc[d]
  BY DEF TypeOK
<1>b. last[c] = durableLsn /\ committed + 2 <= durableLsn /\ DdlEntry(c) \in wal
  BY <1>a DEF MarkInv
<1>c. committed' = durableLsn
  BY <1>a, <1>b
<1>d. published' = published \cup {DdlEntry(c)}
  BY DEF DdlEntry, DdlRecords
<1>e. \A d \in Conns : pc[d] \notin LeaderPcs
  BY <1>a DEF DdlInv, OneLeader
<1>f. \A d \in Conns \ {c} : pc[d] # "ddlPublish"
  BY <1>a DEF LaneExclusive, LanePcs
<1>g. wal = published'
  <2>1. \A e \in wal \ published : e = DdlEntry(c)
    BY <1>e, <1>f DEF LogInv, LeaderPcs
  <2> QED BY <2>1, <1>b, <1>d DEF LogInv
<1>1. TypeOK'
  <2>1. pc' \in [Conns -> Labels]
    BY DEF TypeOK, Labels, LanePcs
  <2>2. published' \subseteq Entry /\ committed' \in Nat
    BY <1>a, <1>c, <1>g DEF TypeOK
  <2> QED BY <2>1, <2>2 DEF TypeOK
<1>2. LaneExclusive'
  BY <1>a DEF LaneExclusive, LanePcs
<1>3. OneLeader'
  BY <1>a DEF OneLeader, LeaderPcs
<1>4. QueueInv' /\ BatchInv'
  BY PipelineFrame, <1>a DEF QueueInv, CommitPcs, LeaderPcs, BatchPcs
<1>5. DdlInv'
  <2>1. UNCHANGED <<leaderActive, queue>>
    OBVIOUS
  <2> QED BY <2>1, <1>a DEF DdlInv
<1>6. MarkInv'
  <2>1. \A d \in Conns : pc'[d] \notin {"publish", "ddlPublish", "resolve", "discard"}
    BY <1>a, <1>e, <1>f DEF LeaderPcs
  <2> QED BY <2>1, <1>a, <1>c DEF MarkInv
<1>7. LogInv'
  BY <1>c, <1>g DEF LogInv
<1>8. ResultInv'
  BY <1>a, <1>d DEF ResultInv, CommitPcs, LeaderPcs
<1>9. AckedDurable'
  BY <1>d DEF AckedDurable
<1>10. TailInv'
  BY DEF TailInv
<1> QED BY <1>1, <1>2, <1>3, <1>4, <1>5, <1>6, <1>7, <1>8, <1>9, <1>10

\* Writing a page of the checkpoint preserves the invariant.
LEMMA CheckpointPageInv == ASSUME NEW c \in Conns, IInv, CheckpointPage(c) PROVE IInv'
<1> USE DEF IInv, CheckpointPage, txnVars, laneVars, memberVars, coordVars, leadVars,
        storeVars, histVars
<1>a. durableLsn \in Nat /\ committed \in Nat /\ durableLsn' = durableLsn + 1
      /\ tail' = {} /\ tailLsn' = durableLsn + 1 /\ pages' = pages \cup {durableLsn + 1}
      /\ UNCHANGED <<pc, wal>> /\ pc[c] = "ddlPages"
  BY DEF TypeOK
<1>b. \A d \in Conns : pc[d] \notin {"publish", "ddlPublish"}
  <2>1. \A d \in Conns : pc[d] \notin LeaderPcs
    BY <1>a DEF DdlInv, OneLeader
  <2>2. \A d \in Conns : pc[d] # "ddlPublish"
    BY <1>a DEF LaneExclusive, LanePcs
  <2> QED BY <2>1, <2>2 DEF LeaderPcs
<1>c. wal = published /\ \A e \in wal : e.last \in Nat /\ e.last <= durableLsn
  BY <1>b DEF LogInv, TypeOK, Entry
<1>1. TypeOK'
  BY <1>a DEF TypeOK
<1>2. LaneExclusive' /\ OneLeader'
  BY <1>a DEF LaneExclusive, OneLeader
<1>3. QueueInv' /\ BatchInv' /\ DdlInv'
  BY <1>a DEF QueueInv, BatchInv, DdlInv, InFlight
<1>4. MarkInv'
  <2>1. committed <= durableLsn + 1
    BY <1>a DEF MarkInv
  <2> QED BY <2>1, <1>a, <1>b DEF MarkInv, BatchEntries
<1>5. LogInv'
  <2>1. \A e \in wal : e.last <= durableLsn + 1
    BY <1>a, <1>c
  <2> QED BY <2>1, <1>a, <1>c DEF LogInv
<1>6. ResultInv' /\ AckedDurable'
  BY <1>a DEF ResultInv, AckedDurable
<1>7. TailInv'
  BY <1>a DEF TailInv
<1> QED BY <1>1, <1>2, <1>3, <1>4, <1>5, <1>6, <1>7

\* The end of the checkpoint, a failed page included, preserves the invariant.
LEMMA CheckpointEndsInv == ASSUME NEW c \in Conns, IInv, CheckpointEnds(c) PROVE IInv'
<1> USE BoundsAssumption DEF IInv, CheckpointEnds, Goto,
        txnVars, laneVars, memberVars, coordVars, leadVars, storeVars, histVars
<1>a. /\ tail' \subseteq Entry /\ tailLsn' \in Nat /\ durableLsn <= tailLsn'
      /\ \A e \in tail' : durableLsn < e.last /\ e.last <= tailLsn'
  BY DEF TypeOK, TailInv
<1>b. UNCHANGED <<wal, pages, durableLsn>>
  OBVIOUS
<1>1. TypeOK'
  <2>1. pc' \in [Conns -> Labels]
    BY DEF TypeOK, Labels, LanePcs
  <2> QED BY <2>1, <1>a, <1>b DEF TypeOK
<1>2. LaneExclusive'
  BY DEF TypeOK, LaneExclusive, LanePcs
<1>3. OneLeader'
  BY DEF TypeOK, OneLeader, QueueInv, LeaderPcs
<1>4. QueueInv' /\ BatchInv'
  BY PipelineFrame DEF TypeOK, QueueInv, OneLeader, LeaderPcs, CommitPcs, BatchPcs
<1>5. DdlInv'
  BY DEF TypeOK, DdlInv, LaneExclusive, OneLeader, LanePcs
<1>6. MarkInv'
  BY <1>b DEF TypeOK, MarkInv, BatchEntries, DdlEntry, DdlRecords
<1>7. LogInv'
  BY LogFrame, <1>b DEF TypeOK
<1>8. ResultInv'
  BY DEF TypeOK, ResultInv, CommitPcs, LeaderPcs
<1>9. AckedDurable'
  BY <1>b DEF TypeOK, AckedDurable
<1>10. TailInv'
  BY <1>a, <1>b DEF TailInv
<1> QED BY <1>1, <1>2, <1>3, <1>4, <1>5, <1>6, <1>7, <1>8, <1>9, <1>10

\* Replaying the log after a crash re-establishes the invariant.
LEMMA CrashInv == ASSUME IInv, CrashAndReopen PROVE IInv'
<1> USE DEF IInv, CrashAndReopen, logVars
<1>a. \A c \in Conns : pc'[c] = "idle" /\ ~done'[c] /\ batch'[c] = <<>>
  OBVIOUS
<1>2. LaneExclusive'
  BY <1>a DEF LaneExclusive, LanePcs
<1>3. OneLeader'
  BY <1>a DEF OneLeader, LeaderPcs
<1>4. QueueInv'
  BY <1>a DEF QueueInv, WellOrdered
<1>5. BatchInv'
  BY <1>a DEF BatchInv, WellOrdered, BatchPcs
<1>6. DdlInv'
  BY <1>a DEF DdlInv
<1>b. PICK m \in {0} \cup {e.last : e \in wal'} : LastCommit(wal', m) /\ committed' = m
  OBVIOUS
<1>c. \A e \in wal \cup tail : e.last <= committed'
  BY <1>b DEF LastCommit
<1>d. committed' \in Nat
  BY <1>b DEF TypeOK, Entry
<1>e. \A e \in wal \cup tail : e.last <= tailLsn
  <2>1. ASSUME NEW e \in wal PROVE e.last <= tailLsn
    <3>1. e.last \in Nat /\ e.last <= durableLsn /\ durableLsn <= tailLsn
      BY DEF TypeOK, Entry, LogInv, TailInv
    <3> QED BY <3>1 DEF TypeOK
  <2> QED BY <2>1 DEF TailInv
<1>1. TypeOK'
  <2>1. pc' \in [Conns -> Labels]
    BY DEF Labels
  <2>2. batch' \in [Conns -> Seq(Member)] /\ queue' \in Seq(Member)
    OBVIOUS
  <2>3. txn' \in [Conns -> Nat] /\ ops' \in [Conns -> Nat] /\ result' \in [Conns -> Nat]
        /\ last' \in [Conns -> Nat] /\ crashes' \in Nat
    BY DEF TypeOK
  <2>4. done' \in [Conns -> BOOLEAN] /\ lane' \in BOOLEAN /\ leaderActive' \in BOOLEAN
    OBVIOUS
  <2>5. wal' \subseteq Entry /\ tail' \subseteq Entry /\ pages' \subseteq Nat
    BY DEF TypeOK, TailPages
  <2> QED BY <2>1, <2>2, <2>3, <2>4, <2>5, <1>d DEF TypeOK
<1>7. MarkInv'
  <2>1. committed' <= durableLsn'
    BY <1>b, <1>e DEF TypeOK
  <2> QED BY <2>1, <1>a DEF MarkInv
<1>8. LogInv'
  BY <1>c, <1>e DEF LogInv
<1>9. ResultInv'
  BY <1>a DEF ResultInv
<1>10. AckedDurable'
  BY DEF AckedDurable, LogInv
<1>11. TailInv'
  BY DEF TailInv, TypeOK
<1> QED BY <1>1, <1>2, <1>3, <1>4, <1>5, <1>6, <1>7, <1>8, <1>9, <1>10, <1>11

\* A stuttering step.
LEMMA StutterInv == ASSUME IInv, UNCHANGED vars PROVE IInv'
<1> USE DEF vars, txnVars, laneVars, memberVars, coordVars, leadVars, logVars, storeVars,
        histVars
<1>1. TypeOK' /\ LaneExclusive' /\ OneLeader'
  BY DEF IInv, TypeOK, LaneExclusive, OneLeader
<1>2. QueueInv' /\ BatchInv' /\ DdlInv'
  BY DEF IInv, QueueInv, BatchInv, DdlInv, InFlight
<1>3. MarkInv' /\ LogInv' /\ TailInv' /\ ResultInv' /\ AckedDurable'
  BY DEF IInv, MarkInv, LogInv, TailInv, ResultInv, AckedDurable, BatchEntries, DdlEntry, DdlRecords
<1> QED BY <1>1, <1>2, <1>3 DEF IInv

\* A freshly opened, empty database.
LEMMA InitInv == Init => IInv
<1> SUFFICES ASSUME Init PROVE IInv
  OBVIOUS
<1> USE DEF Init
<1>a. \A c \in Conns : pc[c] = "idle" /\ ~done[c] /\ batch[c] = <<>>
  OBVIOUS
<1>1. TypeOK
  <2>1. pc \in [Conns -> Labels]
    BY DEF Labels
  <2>2. batch \in [Conns -> Seq(Member)] /\ queue \in Seq(Member)
    OBVIOUS
  <2>3. done \in [Conns -> BOOLEAN] /\ lane \in BOOLEAN /\ leaderActive \in BOOLEAN
    OBVIOUS
  <2> QED BY <2>1, <2>2, <2>3 DEF TypeOK
<1>2. LaneExclusive /\ OneLeader
  BY <1>a DEF LaneExclusive, LanePcs, OneLeader, LeaderPcs
<1>3. QueueInv /\ BatchInv
  BY <1>a DEF QueueInv, BatchInv, WellOrdered, BatchPcs
<1>4. DdlInv /\ MarkInv /\ LogInv /\ TailInv /\ ResultInv /\ AckedDurable
  BY <1>a DEF DdlInv, MarkInv, LogInv, TailInv, ResultInv, AckedDurable
<1> QED BY <1>1, <1>2, <1>3, <1>4 DEF IInv

\* The invariant is inductive.
LEMMA NextInv == IInv /\ [Next]_vars => IInv'
<1> SUFFICES ASSUME IInv, [Next]_vars PROVE IInv'
  OBVIOUS
<1>1. ASSUME NEW c \in Conns, Step(c) PROVE IInv'
  BY <1>1, HandOffLaneInv, DrainInv, AppendOkInv, AppendErrInv, PublishInv, DiscardInv,
     ResolveInv, RelinquishInv, ReclaimInv, QuiesceInv, DdlNothingInv, DdlAppendInv, DdlAppendErrInv,
     DdlPublishInv, CheckpointPageInv, CheckpointEndsInv, DdlReleaseInv DEF Step
<1>2. ASSUME NEW c \in Conns, Client(c) PROVE IInv'
  BY <1>2, BeginWriteInv, AcquireDmlInv, DmlInv, EndWithoutCommitInv, EnqueueInv,
     BeginDdlInv, AcquireDdlInv, SpuriousWakeupInv DEF Client
<1>3. CASE CrashAndReopen
  BY <1>3, CrashInv
<1>4. CASE Rest
  BY <1>4, StutterInv DEF Rest
<1>5. CASE UNCHANGED vars
  BY <1>5, StutterInv
<1> QED BY <1>1, <1>2, <1>3, <1>4, <1>5 DEF Next

\* The inductive invariant of the commit pipeline: lane, leadership, queue,
\* drained batch, reader mark and log hang together after every step.
THEOREM Invariance == Spec => []IInv
<1> QED BY InitInv, NextInv, PTL DEF Spec

\* Every variable keeps its type.
THEOREM TypeCorrect == Spec => []TypeOK
<1>1. IInv => TypeOK
  BY DEF IInv
<1> QED BY <1>1, Invariance, PTL

\* WriteLane admits one writer (or DDL statement) at a time, for any number of
\* connections.
THEOREM LaneIsExclusive == Spec => []LaneExclusive
<1>1. IInv => LaneExclusive
  BY DEF IInv
<1> QED BY <1>1, Invariance, PTL

\* GroupCommit has one leader at most, and a non-empty queue always has one:
\* no commit is stranded between a leader retiring and a member enqueuing.
THEOREM LeaderIsUnique == Spec => []OneLeader
<1>1. IInv => OneLeader
  BY DEF IInv
<1> QED BY <1>1, Invariance, PTL

\* flush_batch and do_ddl: the store below committed_lsn is exactly the log below
\* it, with the same LSNs, at every step of every connection.
THEOREM SnapshotsMatchLog == Spec => []ReadersSeeLog
<1>1. IInv => ReadersSeeLog
  <2> SUFFICES ASSUME IInv, NEW e \in wal PROVE e.last <= committed <=> e \in published
    BY DEF IInv, LogInv, ReadersSeeLog
  <2>1. e.last \in Nat /\ committed \in Nat
    BY DEF IInv, TypeOK, Entry
  <2> QED BY <2>1 DEF IInv, LogInv
<1> QED BY <1>1, Invariance, PTL

\* An acknowledged commit is durable and visible under the LSN its client was
\* told, for ever after, crashes and reopens included.
THEOREM AckedCommitsAreDurable == Spec => []AckedDurable
<1>1. IInv => AckedDurable
  BY DEF IInv
<1> QED BY <1>1, Invariance, PTL

\* A step only ever publishes transactions above the mark readers already have:
\* a snapshot, once taken, is repeatable.
THEOREM SnapshotsAreStable == Spec => SnapshotStable
<1>1. IInv /\ IInv' /\ [Next]_vars =>
          [\A e \in published' \ published : e.last > committed]_vars
  <2> SUFFICES ASSUME IInv, IInv', [Next]_vars, NEW e \in published' \ published
               PROVE  e.last > committed
    OBVIOUS
  <2>1. e \in wal \ published \/ e \in tail
    <3>1. CASE \E c \in Conns : Publish(c)
      <4>1. PICK c \in Conns : Publish(c)
        BY <3>1
      <4>2. e \in BatchEntries(c) /\ pc[c] = "publish"
        BY <4>1 DEF Publish, BatchEntries
      <4> QED BY <4>2 DEF IInv, MarkInv
    <3>2. CASE \E c \in Conns : DdlPublish(c)
      <4>1. PICK c \in Conns : DdlPublish(c)
        BY <3>2
      <4>2. e = DdlEntry(c) /\ pc[c] = "ddlPublish"
        BY <4>1 DEF DdlPublish, DdlEntry, DdlRecords
      <4> QED BY <4>2 DEF IInv, MarkInv
    <3>3. CASE CrashAndReopen
      BY <3>3 DEF CrashAndReopen
    <3>4. CASE published' = published
      BY <3>4
    <3>5. \/ \E c \in Conns : Publish(c)
          \/ \E c \in Conns : DdlPublish(c)
          \/ CrashAndReopen
          \/ published' = published
      <4>1. ASSUME NEW c \in Conns, Step(c), ~Publish(c), ~DdlPublish(c)
            PROVE  published' = published
        BY <4>1 DEF Step, HandOffLane, Drain, AppendOk, AppendErr, Discard, Resolve,
           Relinquish, Reclaim, Quiesce, DdlNothing, DdlAppend, DdlAppendErr, CheckpointPage,
           CheckpointEnds, DdlRelease, storeVars
      <4>2. ASSUME NEW c \in Conns, Client(c) PROVE published' = published
        BY <4>2 DEF Client, BeginWrite, AcquireDml, Dml, EndWithoutCommit, Enqueue,
           BeginDdl, AcquireDdl, SpuriousWakeup, storeVars
      <4> QED BY <4>1, <4>2 DEF Next, Rest, vars, storeVars
    <3> QED BY <3>1, <3>2, <3>3, <3>4, <3>5
  <2>2. e.last \in Nat /\ committed \in Nat /\ durableLsn \in Nat
    BY <2>1 DEF IInv, TypeOK, Entry
  <2>3. CASE e \in tail
    BY <2>2, <2>3 DEF IInv, TailInv, MarkInv
  <2> QED BY <2>1, <2>2, <2>3 DEF IInv, LogInv
<1> QED BY <1>1, Invariance, PTL DEF Spec, SnapshotStable

-----------------------------------------------------------------------------
(* The ranges of the log laid end to end.                                   *)

\* The ranges of E and the pages P fill lo+1..hi, the ranges in submission order.
Within(E, lo, hi) == \A e \in E : lo < e.first /\ e.first <= e.last /\ e.last <= hi
Disjoint(E) == \A e, f \in E : e # f => e.last < f.first \/ f.last < e.first
Ordered(E) == \A e, f \in E : e.sub < f.sub => e.last < f.first
Covers(E, P, lo, hi) ==
    \A n \in (lo + 1)..hi : n \in P <=> ~\E e \in E : n \in e.first..e.last

Tiles(E, P, lo, hi) ==
    /\ P \subseteq (lo + 1)..hi
    /\ Within(E, lo, hi)
    /\ Disjoint(E)
    /\ Ordered(E)
    /\ Covers(E, P, lo, hi)

\* Everything in E was submitted before, or with, everything in F.
Before(E, F) == \A e \in E, f \in F : e.sub <= f.sub

\* ... and before every member of q.
Ahead(E, q) == \A e \in E : \A i \in 1..Len(q) : e.sub < q[i].upto

\* The records of a run of members leave no gap between one member and the next.
Contiguous(q) == \A i \in 2..Len(q) : q[i].upto = q[i - 1].upto + q[i].recs

PipeInv ==
    /\ Contiguous(queue)
    /\ queue # <<>> => queue[Len(queue)].upto = submitted
    /\ \A c \in Conns :
          /\ Contiguous(batch[c])
          /\ \A i \in 1..Len(batch[c]) :
                /\ batch[c][i].upto <= submitted
                /\ \A j \in 1..Len(queue) : batch[c][i].upto < queue[j].upto

SubInv ==
    /\ \A e \in wal \cup tail : e.sub <= submitted
    /\ Ahead(wal \cup tail, queue)
    /\ \A c \in Conns : pc[c] = "append" => Ahead(wal \cup tail, batch[c])

\* The inductive invariant behind LsnsTileLog.
TileInv ==
    /\ PipeInv
    /\ SubInv
    /\ Tiles(wal, pages, 0, durableLsn)
    /\ Tiles(tail, TailPages, durableLsn, tailLsn)
    /\ Before(wal, tail)

\* The prefix sums of a batch, as its members' record counts lay them out.
LEMMA PrefixSums ==
    ASSUME NEW b \in Seq(Member), WellOrdered(b), Contiguous(b), b # <<>>
    PROVE  /\ \A k \in 1..Len(b) :
                 /\ Acc(b, k) \in Nat /\ b[k].recs \in Nat \ {0} /\ b[k].upto \in Nat
                 /\ b[k].recs <= Acc(b, k)
           /\ \A k \in 2..Len(b) : Acc(b, k) = Acc(b, k - 1) + b[k].recs
           /\ \A i, j \in 1..Len(b) :
                 i < j => Acc(b, i) + b[j].recs <= Acc(b, j) /\ b[i].upto < b[j].upto
           /\ 1 \in 1..Len(b) /\ Acc(b, 1) = b[1].recs
           /\ Len(b) \in 1..Len(b) /\ Acc(b, Len(b)) = Total(b)
<1>1. 1 \in 1..Len(b) /\ Len(b) \in 1..Len(b) /\ Len(b) \in Nat
  OBVIOUS
<1>2. \A k \in 1..Len(b) : b[k].recs \in Nat /\ b[k].upto \in Nat
  BY MemberFields
<1>3. \A k \in 1..Len(b) : 0 < b[k].recs /\ b[k].recs <= b[k].upto
  BY DEF WellOrdered
<1>4. \A i, j \in 1..Len(b) : i < j => b[i].upto + b[j].recs <= b[j].upto
  BY DEF WellOrdered
<1>5. \A k \in 2..Len(b) : b[k].upto = b[k - 1].upto + b[k].recs
  BY DEF Contiguous
<1>6. ASSUME NEW k \in 1..Len(b)
      PROVE  /\ Acc(b, k) \in Nat /\ b[k].recs \in Nat \ {0} /\ b[k].upto \in Nat
             /\ b[k].recs <= Acc(b, k)
  <2>1. k = 1 \/ b[1].upto + b[k].recs <= b[k].upto
    BY <1>1, <1>4
  <2> QED BY <2>1, <1>1, <1>2, <1>3 DEF Acc
<1>7. ASSUME NEW k \in 2..Len(b)
      PROVE  Acc(b, k) = Acc(b, k - 1) + b[k].recs
  <2>1. k - 1 \in 1..Len(b) /\ k \in 1..Len(b)
    BY <1>1
  <2>2. b[k].upto = b[k - 1].upto + b[k].recs
    BY <1>5
  <2>3. /\ b[k].recs \in Nat /\ b[k - 1].upto \in Nat
        /\ b[1].recs \in Nat /\ b[1].upto \in Nat
    BY <2>1, <1>1, <1>2
  <2> QED BY <2>2, <2>3 DEF Acc
<1>8. ASSUME NEW i \in 1..Len(b), NEW j \in 1..Len(b), i < j
      PROVE  Acc(b, i) + b[j].recs <= Acc(b, j) /\ b[i].upto < b[j].upto
  <2>1. b[i].upto + b[j].recs <= b[j].upto
    BY <1>4, <1>8
  <2>2. /\ b[i].upto \in Nat /\ b[j].upto \in Nat /\ b[j].recs \in Nat /\ 0 < b[j].recs
        /\ b[1].upto \in Nat /\ b[1].recs \in Nat
    BY <1>1, <1>2, <1>3
  <2> QED BY SMTT(30), <2>1, <2>2 DEF Acc
<1>9. Acc(b, 1) = b[1].recs /\ Acc(b, Len(b)) = Total(b)
  BY <1>1, <1>2 DEF Acc, Total
<1> QED BY <1>1, <1>6, <1>7, <1>8, <1>9

\* An append of a drained batch tiles the LSNs it takes: flush_batch gives every
\* member the range that follows its predecessor's.
LEMMA SlicesTile ==
    ASSUME NEW b \in Seq(Member), WellOrdered(b), Contiguous(b), b # <<>>, NEW n \in Nat
    PROVE  Tiles(Slices(b, n + 1), {}, n, n + Total(b))
<1> DEFINE f == n + 1
           S(k) == Slice(b, f, k)
<1>1. /\ \A k \in 1..Len(b) :
            /\ Acc(b, k) \in Nat /\ b[k].recs \in Nat \ {0} /\ b[k].upto \in Nat
            /\ b[k].recs <= Acc(b, k)
      /\ \A k \in 2..Len(b) : Acc(b, k) = Acc(b, k - 1) + b[k].recs
      /\ \A i, j \in 1..Len(b) :
            i < j => Acc(b, i) + b[j].recs <= Acc(b, j) /\ b[i].upto < b[j].upto
      /\ 1 \in 1..Len(b) /\ Acc(b, 1) = b[1].recs
      /\ Len(b) \in 1..Len(b) /\ Acc(b, Len(b)) = Total(b)
  BY PrefixSums
<1>2. \A k \in 1..Len(b) : /\ S(k).first = f + Acc(b, k) - b[k].recs
                           /\ S(k).last = f + Acc(b, k) - 1
                           /\ S(k).sub = b[k].upto
  BY DEF Slice
<1>3. \A e \in Slices(b, f) : \E k \in 1..Len(b) : e = S(k)
  BY DEF Slices
<1>4. \A k \in 1..Len(b) : S(k) \in Slices(b, f)
  BY DEF Slices
<1>5. \A k \in 1..Len(b) : Acc(b, k) <= Total(b)
  <2> TAKE k \in 1..Len(b)
  <2>1. k = Len(b) \/ k < Len(b)
    BY <1>1
  <2> QED BY <1>1, <2>1
<1> HIDE DEF S, f
<1>6. \A i, j \in 1..Len(b) : i < j => S(i).last < S(j).first
  <2> TAKE i, j \in 1..Len(b)
  <2> HAVE i < j
  <2>1. Acc(b, i) + b[j].recs <= Acc(b, j)
    BY <1>1
  <2>2. Acc(b, i) \in Nat /\ Acc(b, j) \in Nat /\ b[j].recs \in Nat
    BY <1>1
  <2>3. S(i).last = f + Acc(b, i) - 1 /\ S(j).first = f + Acc(b, j) - b[j].recs
    BY <1>2
  <2> QED BY <2>1, <2>2, <2>3 DEF f
<1>7. Within(Slices(b, f), n, n + Total(b))
  <2> SUFFICES ASSUME NEW k \in 1..Len(b)
               PROVE  n < S(k).first /\ S(k).first <= S(k).last /\ S(k).last <= n + Total(b)
    BY <1>3 DEF Within
  <2>1. /\ Acc(b, k) \in Nat /\ b[k].recs \in Nat \ {0} /\ b[k].recs <= Acc(b, k)
        /\ Acc(b, k) <= Total(b) /\ Total(b) \in Nat
    BY <1>1, <1>5
  <2>2. S(k).last = f + Acc(b, k) - 1 /\ S(k).first = f + Acc(b, k) - b[k].recs
    BY <1>2
  <2> QED BY <2>1, <2>2 DEF f
<1>8. Disjoint(Slices(b, f))
  <2> SUFFICES ASSUME NEW i \in 1..Len(b), NEW j \in 1..Len(b), S(i) # S(j)
               PROVE  S(i).last < S(j).first \/ S(j).last < S(i).first
    BY <1>3 DEF Disjoint
  <2>1. i < j \/ j < i
    <3>1. i # j
      OBVIOUS
    <3> QED BY <3>1
  <2> QED BY <1>6, <2>1
<1>9. Ordered(Slices(b, f))
  <2> SUFFICES ASSUME NEW i \in 1..Len(b), NEW j \in 1..Len(b), S(i).sub < S(j).sub
               PROVE  S(i).last < S(j).first
    BY <1>3 DEF Ordered
  <2>1. b[i].upto < b[j].upto
    BY <1>2
  <2>2. ~(j < i) /\ i # j
    <3>1. j < i => b[j].upto < b[i].upto
      BY <1>1
    <3>2. b[i].upto \in Nat /\ b[j].upto \in Nat
      BY <1>1
    <3> QED BY <2>1, <3>1, <3>2
  <2> QED BY <1>6, <2>2
<1>10. Covers(Slices(b, f), {}, n, n + Total(b))
  <2> SUFFICES ASSUME NEW m \in (n + 1)..(n + Total(b))
               PROVE  \E k \in 1..Len(b) : m \in S(k).first..S(k).last
    BY <1>4 DEF Covers
  <2> DEFINE K == {k \in 1..Len(b) : m <= n + Acc(b, k)}
  <2>1. K \subseteq Nat /\ K # {}
    <3>1. Len(b) \in K
      BY <1>1
    <3> QED BY <3>1
  <2>2. PICK k \in K : \A i \in K : k <= i
    <3> HIDE DEF K
    <3> QED BY <2>1, LeastNat
  <2>3. k \in 1..Len(b) /\ m <= n + Acc(b, k) /\ m \in Nat
    BY <1>1
  <2>4. m >= S(k).first
    <3>1. CASE k = 1
      BY <3>1, <1>1, <1>2 DEF f
    <3>2. CASE k # 1
      <4>1. k \in 2..Len(b) /\ k - 1 \in 1..Len(b) /\ k - 1 < k
        BY <2>3, <3>2
      <4>2. k - 1 \notin K
        BY <2>2, <4>1
      <4>3. ~(m <= n + Acc(b, k - 1))
        BY <4>1, <4>2
      <4>4. /\ Acc(b, k) = Acc(b, k - 1) + b[k].recs /\ Acc(b, k - 1) \in Nat
            /\ b[k].recs \in Nat
        BY <1>1, <4>1
      <4>5. S(k).first = f + Acc(b, k) - b[k].recs
        BY <1>2, <4>1
      <4> HIDE DEF K
      <4> QED BY <2>3, <4>3, <4>4, <4>5 DEF f
    <3> QED BY <3>1, <3>2
  <2>5. m <= S(k).last /\ S(k).first \in Int /\ S(k).last \in Int
    <3>1. /\ S(k).last = f + Acc(b, k) - 1 /\ S(k).first = f + Acc(b, k) - b[k].recs
          /\ Acc(b, k) \in Nat /\ b[k].recs \in Nat
      BY <1>1, <1>2, <2>3
    <3> HIDE DEF K
    <3> QED BY <2>3, <3>1 DEF f
  <2> QED BY <2>3, <2>4, <2>5
<1> QED BY <1>7, <1>8, <1>9, <1>10 DEF Tiles, f

\* Two stretches of the log, one after the other, make one.
LEMMA TilesJoin ==
    ASSUME NEW E, E \subseteq Entry, NEW F, F \subseteq Entry,
           NEW n \in Nat, NEW m \in Nat, n <= m,
           NEW P, NEW Q, Tiles(E, P, 0, n), Tiles(F, Q, n, m), Before(E, F)
    PROVE  Tiles(E \cup F, P \cup Q, 0, m)
<1>1. \A e \in E \cup F : e.first \in Nat /\ e.last \in Nat /\ e.sub \in Nat
  BY DEF Entry
<1>2. /\ \A e \in E : 0 < e.first /\ e.first <= e.last /\ e.last <= n
      /\ \A e \in F : n < e.first /\ e.first <= e.last /\ e.last <= m
  BY DEF Tiles, Within
<1>3. \A e \in E, g \in F : e.last < g.first
  BY <1>1, <1>2
<1>4. Within(E \cup F, 0, m)
  BY <1>1, <1>2 DEF Within
<1>5. Disjoint(E \cup F)
  BY <1>3 DEF Tiles, Disjoint
<1>6. Ordered(E \cup F)
  <2> SUFFICES ASSUME NEW e \in E \cup F, NEW g \in E \cup F, e.sub < g.sub
               PROVE  e.last < g.first
    BY DEF Ordered
  <2>1. ~(e \in F /\ g \in E)
    BY <1>1 DEF Before
  <2> QED BY <2>1, <1>3 DEF Tiles, Ordered
<1>7. Covers(E \cup F, P \cup Q, 0, m)
  <2> SUFFICES ASSUME NEW x \in 1..m
               PROVE  x \in P \cup Q <=> ~\E e \in E \cup F : x \in e.first..e.last
    BY DEF Covers
  <2>1. CASE x <= n
    <3>1. x \notin Q
      BY <2>1 DEF Tiles
    <3>2. \A e \in F : x \notin e.first..e.last
      BY <1>1, <1>2, <2>1
    <3>3. x \in P <=> ~\E e \in E : x \in e.first..e.last
      BY <2>1 DEF Tiles, Covers
    <3> QED BY <3>1, <3>2, <3>3
  <2>2. CASE ~(x <= n)
    <3>1. x \in (n + 1)..m
      BY <2>2
    <3>2. x \notin P
      BY <2>2 DEF Tiles
    <3>3. \A e \in E : x \notin e.first..e.last
      BY <1>1, <1>2, <2>2
    <3>4. x \in Q <=> ~\E e \in F : x \in e.first..e.last
      BY <3>1 DEF Tiles, Covers
    <3> QED BY <3>2, <3>3, <3>4
  <2> QED BY <2>1, <2>2
<1>8. P \cup Q \subseteq 1..m
  BY DEF Tiles
<1> QED BY <1>4, <1>5, <1>6, <1>7, <1>8 DEF Tiles

\* A stretch of pages only, or an empty one.
LEMMA TilesPages == ASSUME NEW n \in Nat, NEW m \in Nat PROVE Tiles({}, (n + 1)..m, n, m)
BY DEF Tiles, Within, Disjoint, Ordered, Covers

\* An empty stretch.
LEMMA TilesEmpty == ASSUME NEW n \in Nat PROVE Tiles({}, {}, n, n)
BY DEF Tiles, Within, Disjoint, Ordered, Covers

\* The two records of a DDL statement cover the two LSNs it is given.
LEMMA TilesDdl == ASSUME NEW n \in Nat, submitted \in Nat
                  PROVE  Tiles({DdlRecords(n + 1)}, {}, n, n + 2)
<1> DEFINE d == DdlRecords(n + 1)
<1>1. d.first = n + 1 /\ d.last = n + 2 /\ d.sub = submitted
  BY DEF DdlRecords
<1> HIDE DEF d
<1>2. Covers({d}, {}, n, n + 2)
  BY <1>1 DEF Covers
<1>3. Within({d}, n, n + 2) /\ Disjoint({d}) /\ Ordered({d})
  BY <1>1 DEF Within, Disjoint, Ordered
<1> QED BY <1>2, <1>3 DEF Tiles, d

\* The log part of TileInv.
LogTiles ==
    /\ Tiles(wal, pages, 0, durableLsn)
    /\ Tiles(tail, TailPages, durableLsn, tailLsn)
    /\ Before(wal, tail)

\* A durable append of a stretch that was submitted after all of the log.
LEMMA AppendTiles ==
    ASSUME TypeOK, LogTiles, NEW E, E \subseteq Entry, NEW n \in Nat,
           Tiles(E, {}, durableLsn, durableLsn + n), Before(wal, E), AppendWal(E, n)
    PROVE  LogTiles'
<1>1. wal \subseteq Entry /\ durableLsn \in Nat
  BY DEF TypeOK
<1> DEFINE hi == durableLsn + n
<1>2. hi \in Nat /\ durableLsn <= hi
  BY <1>1
<1>2a. Tiles(E, {}, durableLsn, hi) /\ Tiles(wal, pages, 0, durableLsn)
  BY DEF LogTiles
<1>2b. /\ wal' = wal \cup E /\ durableLsn' = hi /\ tail' = {} /\ tailLsn' = hi
       /\ pages' = pages \cup {}
  BY DEF AppendWal
<1> HIDE DEF hi
<1>3. Tiles(wal \cup E, pages \cup {}, 0, hi)
  BY <1>1, <1>2, <1>2a, TilesJoin
<1>4. Tiles({}, (hi + 1)..hi, hi, hi)
  BY <1>2, TilesPages
<1>5. Before(wal', {})
  BY DEF Before
<1>6. TailPages' = (hi + 1)..hi
  BY <1>2b DEF TailPages
<1> QED BY <1>3, <1>4, <1>5, <1>6, <1>2b DEF LogTiles

\* A failed append leaves such a stretch past the end of the log, or nothing.
LEMMA AppendFailsTiles ==
    ASSUME TypeOK, LogTiles, NEW E, E \subseteq Entry, E # {}, NEW n \in Nat,
           Tiles(E, {}, durableLsn, durableLsn + n), Before(wal, E), AppendWalFails(E, n)
    PROVE  LogTiles'
<1>1. durableLsn \in Nat
  BY DEF TypeOK
<1>2. Tiles({}, (durableLsn + 1)..durableLsn, durableLsn, durableLsn) /\ Before(wal, {})
  BY <1>1, TilesPages DEF Before
<1>3. wal' = wal /\ durableLsn' = durableLsn /\ pages' = pages
  BY DEF AppendWalFails
<1>4. CASE tail' = {} /\ tailLsn' = durableLsn
  <2>1. TailPages' = (durableLsn + 1)..durableLsn
    BY <1>3, <1>4 DEF TailPages
  <2> QED BY <2>1, <1>2, <1>3, <1>4 DEF LogTiles
<1>5. CASE tail' = E /\ tailLsn' = durableLsn + n
  <2>1. TailPages' = {}
    BY <1>5 DEF TailPages
  <2> QED BY <2>1, <1>3, <1>5 DEF LogTiles
<1> QED BY <1>4, <1>5 DEF AppendWalFails

\* A step that moves no member and appends nothing keeps the ranges.
LEMMA TileFrame ==
    ASSUME TileInv, UNCHANGED <<logVars, queue, submitted>>,
           \A d \in Conns : batch'[d] = batch[d] \/ batch'[d] = <<>>,
           \A d \in Conns : pc'[d] = "append" => pc[d] = "append" /\ batch'[d] = batch[d]
    PROVE  TileInv'
<1> USE DEF TileInv, logVars, TailPages
<1>1. Contiguous(<<>>)
  BY DEF Contiguous
<1>2. PipeInv'
  <2> SUFFICES ASSUME NEW c \in Conns
        PROVE  /\ Contiguous(batch'[c])
               /\ \A i \in 1..Len(batch'[c]) :
                    /\ batch'[c][i].upto <= submitted
                    /\ \A j \in 1..Len(queue) : batch'[c][i].upto < queue[j].upto
    BY DEF PipeInv
  <2>1. CASE batch'[c] = batch[c]
    BY <2>1 DEF PipeInv
  <2>2. CASE batch'[c] = <<>>
    BY <2>2, <1>1
  <2> QED BY <2>1, <2>2
<1>3. SubInv'
  BY DEF SubInv
<1> QED BY <1>2, <1>3

\* Enqueue: the new member's records follow the last one's.
LEMMA EnqueueTiles == ASSUME NEW c \in Conns, IInv, TileInv, Enqueue(c) PROVE TileInv'
<1> DEFINE x == [conn |-> c, owner |-> txn[c], recs |-> ops[c] + 1, upto |-> submitted']
           n == Len(queue)
<1>1. /\ queue' = Append(queue, x) /\ submitted' = submitted + x.recs
      /\ UNCHANGED <<batch, wal, pages, durableLsn, tail, tailLsn>>
  BY DEF Enqueue, leadVars, logVars, IInv, TypeOK
<1>2. /\ submitted \in Nat /\ x.recs \in Nat \ {0} /\ x.upto = submitted'
      /\ queue \in Seq(Member) /\ n \in Nat
  BY DEF Enqueue, IInv, TypeOK
<1>3. \A d \in Conns : pc'[d] = "append" => pc[d] = "append"
  BY DEF Enqueue, Goto, IInv, TypeOK
<1>4. submitted' \in Nat /\ submitted < submitted' /\ x.upto = submitted + x.recs
  BY <1>1, <1>2
<1>4a. x \in Member
  BY <1>4 DEF IInv, TypeOK, Member
<1> HIDE DEF x
<1>5. /\ Len(queue') = n + 1 /\ queue'[n + 1] = x
      /\ \A i \in 1..n : queue'[i] = queue[i]
  BY <1>1, <1>2, <1>4a
<1>6. Contiguous(queue')
  <2> SUFFICES ASSUME NEW i \in 2..(n + 1)
               PROVE  queue'[i].upto = queue'[i - 1].upto + queue'[i].recs
    BY <1>5 DEF Contiguous
  <2>1. CASE i = n + 1
    <3>1. queue # <<>> /\ n \in 1..n /\ i - 1 = n
      BY <1>2, <2>1
    <3>2. queue[n].upto = submitted
      BY <3>1 DEF TileInv, PipeInv
    <3> QED BY <3>1, <3>2, <2>1, <1>4, <1>5
  <2>2. CASE i # n + 1
    <3>1. i \in 2..n /\ i \in 1..n /\ i - 1 \in 1..n
      BY <1>2, <2>2
    <3> QED BY <3>1, <1>5 DEF TileInv, PipeInv, Contiguous
  <2> QED BY <2>1, <2>2
<1>7. \A d \in Conns : \A i \in 1..Len(batch[d]) : batch[d][i].upto \in Nat
  <2> TAKE d \in Conns
  <2>1. batch[d] \in Seq(Member)
    BY DEF IInv, TypeOK
  <2> QED BY <2>1, MemberFields
<1>8. PipeInv'
  <2>1. queue'[Len(queue')].upto = submitted'
    BY <1>2, <1>5
  <2>2. ASSUME NEW d \in Conns, NEW i \in 1..Len(batch[d])
        PROVE  /\ batch[d][i].upto <= submitted'
               /\ \A j \in 1..(n + 1) : batch[d][i].upto < queue'[j].upto
    <3>1. batch[d][i].upto \in Nat /\ batch[d][i].upto <= submitted
      BY <1>7 DEF TileInv, PipeInv
    <3>2. batch[d][i].upto < submitted'
      BY <3>1, <1>2, <1>4
    <3>3. \A j \in 1..n : batch[d][i].upto < queue[j].upto
      BY DEF TileInv, PipeInv
    <3>4. batch[d][i].upto <= submitted'
      BY <3>1, <3>2, <1>4
    <3>5. ASSUME NEW j \in 1..(n + 1) PROVE batch[d][i].upto < queue'[j].upto
      <4>1. CASE j = n + 1
        BY <4>1, <3>2, <1>2, <1>5
      <4>2. CASE j # n + 1
        <5>1. j \in 1..n
          BY <4>2, <1>2
        <5> QED BY <5>1, <3>3, <1>5
      <4> QED BY <4>1, <4>2
    <3> QED BY <3>4, <3>5
  <2>3. \A d \in Conns : Contiguous(batch[d])
    BY DEF TileInv, PipeInv
  <2> QED BY <2>1, <2>2, <2>3, <1>1, <1>5, <1>6 DEF PipeInv
<1>9. SubInv'
  <2>1. \A e \in wal \cup tail : e.sub \in Nat /\ e.sub <= submitted
    BY DEF TileInv, SubInv, IInv, TypeOK, Entry
  <2>2. \A e \in wal \cup tail : e.sub < submitted' /\ e.sub <= submitted'
    BY <2>1, <1>2, <1>4
  <2>3. Ahead(wal \cup tail, queue')
    <3> SUFFICES ASSUME NEW e \in wal \cup tail, NEW i \in 1..(n + 1)
                 PROVE  e.sub < queue'[i].upto
      BY <1>5 DEF Ahead
    <3>1. CASE i = n + 1
      BY <3>1, <2>2, <1>2, <1>5
    <3>2. CASE i # n + 1
      <4>1. i \in 1..n
        BY <3>2, <1>2
      <4> QED BY <4>1, <1>5 DEF TileInv, SubInv, Ahead
    <3> QED BY <3>1, <3>2
  <2> QED BY <2>2, <2>3, <1>1, <1>3 DEF TileInv, SubInv
<1> QED BY <1>1, <1>8, <1>9 DEF TileInv, TailPages

\* Drain: both halves of the queue keep their order, the batch before the rest.
LEMMA DrainTiles == ASSUME NEW c \in Conns, IInv, TileInv, Drain(c) PROVE TileInv'
<1>1. PICK n \in 1..Len(queue) :
          /\ batch' = [batch EXCEPT ![c] = SubSeq(queue, 1, n)]
          /\ queue' = SubSeq(queue, n + 1, Len(queue))
  BY DEF Drain
<1>2. /\ queue \in Seq(Member) /\ Len(queue) \in Nat /\ n \in Nat /\ n <= Len(queue)
      /\ batch \in [Conns -> Seq(Member)]
  BY DEF IInv, TypeOK
<1>3. /\ UNCHANGED <<wal, pages, durableLsn, tail, tailLsn, submitted>>
      /\ \A d \in Conns \ {c} : pc'[d] = pc[d]
  BY DEF Drain, Goto, logVars, IInv, TypeOK
<1>4. /\ Len(batch'[c]) = n /\ \A i \in 1..n : batch'[c][i] = queue[i]
      /\ \A d \in Conns \ {c} : batch'[d] = batch[d]
  BY <1>1, <1>2
<1>5. /\ Len(queue') = Len(queue) - n
      /\ \A i \in 1..Len(queue') : n + i \in 1..Len(queue) /\ queue'[i] = queue[n + i]
  <2>1. Len(queue') = Len(queue) - n
    BY <1>1, <1>2, TailLength
  <2> QED BY <2>1, <1>1, <1>2
<1>6. Contiguous(queue) /\ \A i \in 2..Len(queue) : queue[i].upto = queue[i - 1].upto + queue[i].recs
  BY DEF TileInv, PipeInv, Contiguous
<1>7. \A i \in 1..Len(queue) : queue[i].upto \in Nat /\ queue[i].recs \in Nat
  BY <1>2, MemberFields
<1>8. \A i, j \in 1..Len(queue) : i < j => queue[i].upto < queue[j].upto
  <2> TAKE i, j \in 1..Len(queue)
  <2> HAVE i < j
  <2>1. queue[i].upto + queue[j].recs <= queue[j].upto /\ 0 < queue[j].recs
    BY DEF IInv, QueueInv, WellOrdered
  <2> QED BY <2>1, <1>7
<1>9. Contiguous(queue')
  <2> SUFFICES ASSUME NEW i \in 2..Len(queue')
               PROVE  queue'[i].upto = queue'[i - 1].upto + queue'[i].recs
    BY DEF Contiguous
  <2>1. i \in 1..Len(queue') /\ i - 1 \in 1..Len(queue')
    BY <1>2, <1>5
  <2>2. n + i \in 2..Len(queue) /\ (n + i) - 1 = n + (i - 1)
    BY <2>1, <1>2, <1>5
  <2> QED BY <2>1, <2>2, <1>5, <1>6
<1>10. Contiguous(batch'[c])
  <2> SUFFICES ASSUME NEW i \in 2..n
               PROVE  batch'[c][i].upto = batch'[c][i - 1].upto + batch'[c][i].recs
    BY <1>4 DEF Contiguous
  <2>1. i \in 1..n /\ i - 1 \in 1..n /\ i \in 2..Len(queue)
    BY <1>2
  <2> QED BY <2>1, <1>4, <1>6
<1>11. PipeInv'
  <2>1. queue' # <<>> => queue'[Len(queue')].upto = submitted
    <3> SUFFICES ASSUME queue' # <<>> PROVE queue'[Len(queue')].upto = submitted
      OBVIOUS
    <3>1. Len(queue') \in 1..Len(queue') /\ n + Len(queue') = Len(queue) /\ queue # <<>>
      <4>1. queue' \in Seq(Member)
        BY <1>1, <1>2
      <4>2. Len(queue') # 0
        BY <4>1
      <4> QED BY <4>1, <4>2, <1>2, <1>5
    <3> QED BY <3>1, <1>5 DEF TileInv, PipeInv
  <2>2. ASSUME NEW d \in Conns
        PROVE  \A i \in 1..Len(batch'[d]) :
                 /\ batch'[d][i].upto <= submitted
                 /\ \A j \in 1..Len(queue') : batch'[d][i].upto < queue'[j].upto
    <3>1. CASE d = c
      <4> SUFFICES ASSUME NEW i \in 1..n
                   PROVE  /\ queue[i].upto <= submitted
                          /\ \A j \in 1..Len(queue') : queue[i].upto < queue'[j].upto
        BY <3>1, <1>4
      <4>1. i \in 1..Len(queue)
        BY <1>2
      <4>2. queue[i].upto <= submitted
        BY <4>1 DEF IInv, QueueInv
      <4>3. ASSUME NEW j \in 1..Len(queue') PROVE queue[i].upto < queue'[j].upto
        <5>1. n + j \in 1..Len(queue) /\ i < n + j
          BY <1>5, <1>2
        <5> QED BY <5>1, <4>1, <1>5, <1>8
      <4> QED BY <4>2, <4>3
    <3>2. CASE d # c
      BY SMTT(30), <3>2, <1>4, <1>5 DEF TileInv, PipeInv
    <3> QED BY <3>1, <3>2
  <2>3. \A d \in Conns : Contiguous(batch'[d])
    BY <1>4, <1>10 DEF TileInv, PipeInv
  <2> QED BY <2>1, <2>2, <2>3, <1>3, <1>9 DEF PipeInv
<1>12. SubInv'
  <2>1. Ahead(wal \cup tail, queue)
    BY DEF TileInv, SubInv
  <2>2. Ahead(wal \cup tail, queue')
    BY <2>1, <1>5 DEF Ahead
  <2>3. Ahead(wal \cup tail, batch'[c])
    <3>1. \A i \in 1..n : i \in 1..Len(queue)
      BY <1>2
    <3> QED BY <2>1, <3>1, <1>4 DEF Ahead
  <2>4. ASSUME NEW d \in Conns, pc'[d] = "append" PROVE Ahead(wal \cup tail, batch'[d])
    <3>1. CASE d # c
      BY <2>4, <3>1, <1>3, <1>4 DEF TileInv, SubInv
    <3> QED BY <2>3, <3>1
  <2> QED BY <2>2, <2>4, <1>3 DEF TileInv, SubInv
<1> QED BY <1>3, <1>11, <1>12 DEF TileInv, TailPages

\* What a leader would append was submitted after the whole log and tiles the
\* LSNs that follow it.
LEMMA BatchTiles ==
    ASSUME NEW c \in Conns, IInv, TileInv, pc[c] = "append"
    PROVE  /\ Slices(batch[c], durableLsn + 1) \subseteq Entry
           /\ Total(batch[c]) \in Nat
           /\ Slices(batch[c], durableLsn + 1) # {}
           /\ Tiles(Slices(batch[c], durableLsn + 1), {}, durableLsn,
                    durableLsn + Total(batch[c]))
           /\ Before(wal, Slices(batch[c], durableLsn + 1))
           /\ \A e \in Slices(batch[c], durableLsn + 1) :
                 e.sub <= submitted /\ \A j \in 1..Len(queue) : e.sub < queue[j].upto
<1> DEFINE b == batch[c]
           S == Slices(b, durableLsn + 1)
<1>1. b \in Seq(Member) /\ WellOrdered(b) /\ b # <<>> /\ durableLsn \in Nat
  BY DEF IInv, TypeOK, BatchInv, BatchPcs
<1>2. Contiguous(b)
  BY DEF TileInv, PipeInv
<1>3. \A e \in S : \E i \in 1..Len(b) : e.sub = b[i].upto
  BY DEF Slices, Slice
<1>4. \A i \in 1..Len(b) : /\ b[i].upto <= submitted
                           /\ \A j \in 1..Len(queue) : b[i].upto < queue[j].upto
  BY DEF TileInv, PipeInv
<1>5. Ahead(wal, b)
  BY DEF TileInv, SubInv, Ahead
<1>6. \A i \in 1..Len(b) : b[i].upto \in Nat
  BY <1>1, MemberFields
<1>7. \A e \in wal : e.sub \in Nat
  BY DEF IInv, TypeOK, Entry
<1> HIDE DEF b
<1>8. S \subseteq Entry /\ Total(b) \in Nat
  BY <1>1, SlicesPastEnd
<1>8a. S # {}
  <2>1. 1 \in 1..Len(b)
    BY <1>1
  <2> QED BY <2>1 DEF Slices
<1>9. Tiles(S, {}, durableLsn, durableLsn + Total(b))
  BY <1>1, <1>2, SlicesTile
<1> HIDE DEF S
<1>10. Before(wal, S)
  BY <1>3, <1>5, <1>6, <1>7 DEF Before, Ahead
<1>11. \A e \in S : e.sub <= submitted /\ \A j \in 1..Len(queue) : e.sub < queue[j].upto
  BY <1>3, <1>4
<1> QED BY <1>8, <1>8a, <1>9, <1>10, <1>11 DEF b, S

\* AppendOk puts the batch's ranges behind the log's.
LEMMA AppendOkTiles == ASSUME NEW c \in Conns, IInv, TileInv, AppendOk(c) PROVE TileInv'
<1> DEFINE S == Slices(batch[c], durableLsn + 1)
<1>1. pc[c] = "append" /\ AppendWal(S, Total(batch[c]))
  BY DEF AppendOk
<1>2. UNCHANGED <<queue, submitted, batch>> /\ wal' = wal \cup S /\ tail' = {}
  BY DEF AppendOk, AppendWal, coordVars
<1>3. \A d \in Conns : pc'[d] # "append"
  BY DEF AppendOk, Goto, IInv, TypeOK, OneLeader, LeaderPcs
<1>4. /\ S \subseteq Entry /\ Total(batch[c]) \in Nat
      /\ S # {} /\ Tiles(S, {}, durableLsn, durableLsn + Total(batch[c])) /\ Before(wal, S)
      /\ \A e \in S : e.sub <= submitted /\ \A j \in 1..Len(queue) : e.sub < queue[j].upto
  BY <1>1, BatchTiles
<1> HIDE DEF S
<1>5. LogTiles'
  BY <1>1, <1>4, AppendTiles DEF IInv, TileInv, LogTiles
<1>6. PipeInv'
  BY <1>2 DEF TileInv, PipeInv
<1>7. SubInv'
  BY <1>2, <1>3, <1>4 DEF TileInv, SubInv, Ahead
<1> QED BY <1>5, <1>6, <1>7 DEF TileInv, LogTiles

\* AppendErr may leave them as the unconfirmed tail.
LEMMA AppendErrTiles == ASSUME NEW c \in Conns, IInv, TileInv, AppendErr(c) PROVE TileInv'
<1> DEFINE S == Slices(batch[c], durableLsn + 1)
<1>1. pc[c] = "append" /\ AppendWalFails(S, Total(batch[c]))
  BY DEF AppendErr
<1>2. UNCHANGED <<queue, submitted, batch>> /\ wal' = wal /\ tail' \subseteq S
  BY DEF AppendErr, AppendWalFails, coordVars
<1>3. \A d \in Conns : pc'[d] # "append"
  BY DEF AppendErr, Goto, IInv, TypeOK, OneLeader, LeaderPcs
<1>4. /\ S \subseteq Entry /\ Total(batch[c]) \in Nat
      /\ S # {} /\ Tiles(S, {}, durableLsn, durableLsn + Total(batch[c])) /\ Before(wal, S)
      /\ \A e \in S : e.sub <= submitted /\ \A j \in 1..Len(queue) : e.sub < queue[j].upto
  BY <1>1, BatchTiles
<1> HIDE DEF S
<1>5. LogTiles'
  BY <1>1, <1>4, AppendFailsTiles DEF IInv, TileInv, LogTiles
<1>6. PipeInv'
  BY <1>2 DEF TileInv, PipeInv
<1>7. SubInv'
  BY <1>2, <1>3, <1>4 DEF TileInv, SubInv, Ahead
<1> QED BY <1>5, <1>6, <1>7 DEF TileInv, LogTiles

\* What do_ddl appends, to a log that no queued or drained commit is waiting for.
LEMMA DdlTiles ==
    ASSUME NEW c \in Conns, IInv, TileInv, pc[c] = "ddl"
    PROVE  /\ {DdlRecords(durableLsn + 1)} \subseteq Entry
           /\ Tiles({DdlRecords(durableLsn + 1)}, {}, durableLsn, durableLsn + 2)
           /\ Before(wal, {DdlRecords(durableLsn + 1)})
           /\ DdlRecords(durableLsn + 1).sub = submitted
           /\ queue = <<>> /\ \A d \in Conns : pc[d] # "append"
<1>1. durableLsn \in Nat /\ submitted \in Nat
  BY DEF IInv, TypeOK
<1>2. queue = <<>> /\ \A d \in Conns : pc[d] # "append"
  BY DEF IInv, DdlInv, OneLeader, LeaderPcs
<1>3. DdlRecords(durableLsn + 1).sub = submitted /\ DdlRecords(durableLsn + 1) \in Entry
  BY <1>1 DEF DdlRecords, Entry, DDL
<1>4. Before(wal, {DdlRecords(durableLsn + 1)})
  BY <1>3 DEF Before, TileInv, SubInv
<1> QED BY <1>1, <1>2, <1>3, <1>4, TilesDdl

\* DdlAppend and DdlAppendErr.
LEMMA DdlAppendTiles ==
    ASSUME NEW c \in Conns, IInv, TileInv, DdlAppend(c) \/ DdlAppendErr(c)
    PROVE  TileInv'
<1> DEFINE D == {DdlRecords(durableLsn + 1)}
<1>1. /\ pc[c] = "ddl" /\ UNCHANGED <<queue, submitted, batch>>
      /\ AppendWal(D, 2) \/ AppendWalFails(D, 2)
      /\ wal' \cup tail' \subseteq wal \cup D
  BY DEF DdlAppend, DdlAppendErr, AppendWal, AppendWalFails, coordVars, leadVars
<1>2. \A d \in Conns : pc[d] # "append" => pc'[d] # "append"
  BY DEF DdlAppend, DdlAppendErr, Goto, IInv, TypeOK
<1>3. /\ D \subseteq Entry /\ D # {} /\ Tiles(D, {}, durableLsn, durableLsn + 2)
      /\ Before(wal, D)
      /\ \A e \in D : e.sub = submitted
      /\ queue = <<>> /\ \A d \in Conns : pc[d] # "append"
  BY <1>1, DdlTiles
<1> HIDE DEF D
<1>4. submitted \in Nat
  BY DEF IInv, TypeOK
<1>5. LogTiles'
  <2>1. TypeOK /\ LogTiles
    BY DEF IInv, TileInv, LogTiles
  <2> QED BY <1>1, <1>3, <2>1, AppendTiles, AppendFailsTiles
<1>6. PipeInv'
  BY <1>1 DEF TileInv, PipeInv
<1>7. SubInv'
  <2>1. \A e \in wal' \cup tail' : e.sub <= submitted
    BY <1>1, <1>3, <1>4 DEF TileInv, SubInv
  <2>2. \A S : Ahead(S, <<>>)
    BY DEF Ahead
  <2> QED BY <1>1, <1>2, <1>3, <2>1, <2>2 DEF SubInv
<1> QED BY <1>5, <1>6, <1>7 DEF TileInv, LogTiles

\* A page of the checkpoint fills the next LSN; one that failed may be left
\* past the end of the log.
LEMMA CheckpointTiles ==
    ASSUME NEW c \in Conns, IInv, TileInv, CheckpointPage(c) \/ CheckpointEnds(c)
    PROVE  TileInv'
<1>1. /\ pc[c] = "ddlPages" /\ wal' = wal /\ UNCHANGED <<queue, submitted, batch>>
      /\ tail' \subseteq tail
  BY DEF CheckpointPage, CheckpointEnds, coordVars, leadVars
<1>2. \A d \in Conns : pc'[d] = "append" => pc[d] = "append"
  BY DEF CheckpointPage, CheckpointEnds, Goto, IInv, TypeOK
<1>3. PipeInv'
  BY <1>1 DEF TileInv, PipeInv
<1>4. SubInv'
  BY <1>1, <1>2 DEF TileInv, SubInv, Ahead
<1>5. wal \subseteq Entry /\ durableLsn \in Nat /\ tailLsn \in Nat
      /\ Tiles(wal, pages, 0, durableLsn) /\ Tiles(tail, TailPages, durableLsn, tailLsn)
      /\ Before(wal, tail)
  BY DEF IInv, TypeOK, TileInv
<1>6. Before(wal', tail')
  BY <1>1, <1>5 DEF Before
<1>7. CASE CheckpointPage(c)
  <2> DEFINE hi == durableLsn + 1
  <2>1. durableLsn' = hi /\ tailLsn' = hi /\ tail' = {} /\ pages' = pages \cup {hi}
    BY <1>7 DEF CheckpointPage
  <2>2. hi \in Nat /\ durableLsn <= hi /\ (durableLsn + 1)..hi = {hi}
    BY <1>5
  <2>3. TailPages' = (hi + 1)..hi
    BY <2>1 DEF TailPages
  <2>4. Tiles({}, {hi}, durableLsn, hi)
    BY <2>2, <1>5, TilesPages
  <2> HIDE DEF hi
  <2>5. Tiles({}, (hi + 1)..hi, hi, hi)
    BY <2>2, TilesPages
  <2>6. Before(wal, {}) /\ {} \subseteq Entry
    BY DEF Before
  <2>7. Tiles(wal \cup {}, pages \cup {hi}, 0, hi)
    BY <1>5, <2>2, <2>4, <2>6, TilesJoin
  <2>8. wal' = wal \cup {}
    BY <1>1
  <2>9. Tiles(wal', pages', 0, durableLsn')
    BY <2>1, <2>7, <2>8
  <2>10. Tiles(tail', TailPages', durableLsn', tailLsn')
    BY <2>1, <2>3, <2>5
  <2> QED BY <2>9, <2>10, <1>3, <1>4, <1>6 DEF TileInv
<1>8. CASE CheckpointEnds(c)
  <2>1. pages' = pages /\ durableLsn' = durableLsn
    BY <1>8 DEF CheckpointEnds
  <2>2. Tiles(wal', pages', 0, durableLsn')
    BY <1>1, <1>5, <2>1
  <2>3. CASE UNCHANGED <<tail, tailLsn>>
    <3>1. TailPages' = TailPages
      BY <2>1, <2>3 DEF TailPages
    <3>2. Tiles(tail', TailPages', durableLsn', tailLsn')
      BY <1>5, <2>1, <2>3, <3>1
    <3> QED BY <2>2, <3>2, <1>3, <1>4, <1>6 DEF TileInv
  <2>4. CASE tail' = {} /\ tailLsn' \in {durableLsn, durableLsn + 1}
    <3>1. TailPages' = (durableLsn + 1)..tailLsn' /\ tailLsn' \in Nat
      BY <1>5, <2>1, <2>4 DEF TailPages
    <3> DEFINE hi == tailLsn'
    <3> HIDE DEF hi
    <3>2. Tiles({}, (durableLsn + 1)..hi, durableLsn, hi)
      BY <1>5, <3>1, TilesPages DEF hi
    <3>3. Tiles(tail', TailPages', durableLsn', tailLsn')
      BY <2>1, <2>4, <3>1, <3>2 DEF hi
    <3> QED BY <2>2, <3>3, <1>3, <1>4, <1>6 DEF TileInv
  <2> QED BY <1>8, <2>3, <2>4 DEF CheckpointEnds
<1> QED BY <1>7, <1>8

\* Replay after a crash takes the unconfirmed tail into the log.
LEMMA CrashTiles == ASSUME IInv, TileInv, CrashAndReopen PROVE TileInv'
<1>1. /\ wal' = wal \cup tail /\ durableLsn' = tailLsn /\ tail' = {} /\ tailLsn' = tailLsn
      /\ pages' = pages \cup TailPages
      /\ queue' = <<>> /\ submitted' = submitted
      /\ \A c \in Conns : pc'[c] = "idle" /\ batch'[c] = <<>>
  BY DEF CrashAndReopen
<1>2. wal \subseteq Entry /\ tail \subseteq Entry /\ durableLsn \in Nat /\ tailLsn \in Nat
      /\ durableLsn <= tailLsn
  BY DEF IInv, TypeOK, TailInv
<1>3. Tiles(wal', pages', 0, durableLsn')
  BY <1>1, <1>2, TilesJoin DEF TileInv
<1>4. Tiles(tail', TailPages', durableLsn', tailLsn') /\ Before(wal', tail')
  BY <1>1, <1>2, TilesPages DEF Before, TailPages
<1>5. PipeInv'
  BY <1>1 DEF PipeInv, Contiguous
<1>6. SubInv'
  BY <1>1 DEF TileInv, SubInv, Ahead
<1> QED BY <1>3, <1>4, <1>5, <1>6 DEF TileInv

\* Every other step leaves the log, the queue and the appending batch alone.
LEMMA OtherTiles ==
    ASSUME NEW c \in Conns, IInv, TileInv,
           \/ HandOffLane(c) \/ Publish(c) \/ Discard(c) \/ Resolve(c)
           \/ Relinquish(c) \/ Reclaim(c) \/ Quiesce(c) \/ DdlNothing(c)
           \/ DdlPublish(c) \/ DdlRelease(c)
           \/ BeginWrite(c) \/ AcquireDml(c) \/ Dml(c) \/ EndWithoutCommit(c)
           \/ BeginDdl(c) \/ AcquireDdl(c) \/ SpuriousWakeup(c)
    PROVE  TileInv'
<1> USE DEF txnVars, laneVars, memberVars, coordVars, leadVars, logVars, storeVars, histVars,
        Goto, AcquireLane
<1>1. pc \in [Conns -> Labels] /\ batch \in [Conns -> Seq(Member)]
  BY DEF IInv, TypeOK
<1>2. /\ UNCHANGED <<wal, pages, durableLsn, tail, tailLsn, queue, submitted>>
      /\ \/ batch' = batch
         \/ batch' = [batch EXCEPT ![c] = <<>>] /\ pc' = [pc EXCEPT ![c] = "relinquish"]
      /\ \A d \in Conns : pc'[d] = "append" => pc[d] = "append"
  <2>1. CASE HandOffLane(c) \/ Publish(c) \/ Discard(c)
    BY <1>1, <2>1 DEF HandOffLane, Publish, Discard
  <2>2. CASE Resolve(c)
    BY <1>1, <2>2 DEF Resolve
  <2>3. CASE Relinquish(c) \/ Reclaim(c) \/ Quiesce(c)
    BY <1>1, <2>3 DEF Relinquish, Reclaim, Quiesce
  <2>4. CASE DdlNothing(c) \/ DdlPublish(c) \/ DdlRelease(c)
    BY <1>1, <2>4 DEF DdlNothing, DdlPublish, DdlRelease
  <2>5. CASE BeginWrite(c) \/ AcquireDml(c) \/ Dml(c) \/ EndWithoutCommit(c)
    BY <1>1, <2>5 DEF BeginWrite, AcquireDml, Dml, EndWithoutCommit
  <2>6. CASE BeginDdl(c) \/ AcquireDdl(c) \/ SpuriousWakeup(c)
    BY <1>1, <2>6 DEF BeginDdl, AcquireDdl, SpuriousWakeup
  <2> QED BY <2>1, <2>2, <2>3, <2>4, <2>5, <2>6
<1>3. /\ \A d \in Conns : batch'[d] = batch[d] \/ batch'[d] = <<>>
      /\ \A d \in Conns : pc'[d] = "append" => pc[d] = "append" /\ batch'[d] = batch[d]
  BY <1>1, <1>2
<1> QED BY <1>2, <1>3, TileFrame

\* TileInv is inductive, relative to IInv.
LEMMA NextTiles == IInv /\ TileInv /\ [Next]_vars => TileInv'
<1> SUFFICES ASSUME IInv, TileInv, [Next]_vars PROVE TileInv'
  OBVIOUS
<1>1. ASSUME NEW c \in Conns, Step(c) PROVE TileInv'
  BY <1>1, OtherTiles, DrainTiles, AppendOkTiles, AppendErrTiles, DdlAppendTiles,
     CheckpointTiles DEF Step
<1>2. ASSUME NEW c \in Conns, Client(c) PROVE TileInv'
  BY <1>2, OtherTiles, EnqueueTiles DEF Client
<1>3. CASE CrashAndReopen
  BY <1>3, CrashTiles
<1>4. CASE UNCHANGED vars
  <2>1. UNCHANGED <<logVars, queue, submitted, batch, pc>>
    BY <1>4 DEF vars, coordVars, leadVars
  <2> QED BY <2>1, TileFrame
<1> QED BY <1>1, <1>2, <1>3, <1>4 DEF Next, Rest

\* flush_batch and do_ddl give out LSNs in submission order, and put_page the
\* ones between, without gap or overlap, for any number of connections, batches,
\* pages, failed appends and crashes:
\* Inner.queue is "in submission (and therefore LSN) order".
THEOREM LsnsAreTiled == Spec => []LsnsTileLog
<1>1. Init => TileInv
  <2> SUFFICES ASSUME Init PROVE TileInv
    OBVIOUS
  <2>1. /\ wal = {} /\ tail = {} /\ durableLsn = 0 /\ tailLsn = 0 /\ submitted = 0
        /\ queue = <<>> /\ \A c \in Conns : batch[c] = <<>>
        /\ pages = {} /\ TailPages = {}
    BY DEF Init, TailPages
  <2>2. Tiles({}, {}, 0, 0)
    BY TilesEmpty
  <2>3. PipeInv /\ SubInv /\ Before(wal, tail)
    BY <2>1 DEF PipeInv, SubInv, Contiguous, Ahead, Before
  <2> QED BY <2>1, <2>2, <2>3 DEF TileInv
<1>2. TileInv => LsnsTileLog
  <2> SUFFICES ASSUME TileInv PROVE LsnsTileLog
    OBVIOUS
  <2>1. Disjoint(wal) /\ Ordered(wal) /\ Covers(wal, pages, 0, durableLsn)
    BY DEF TileInv, Tiles
  <2>2. \A n \in 1..durableLsn :
           n \in pages <=> ~\E e \in wal : n \in e.first..e.last
    BY <2>1 DEF Covers
  <2> QED BY <2>1, <2>2 DEF LsnsTileLog, Disjoint, Ordered
<1> QED BY <1>1, <1>2, Invariance, NextTiles, PTL DEF Spec
=============================================================================
