-------------------------- MODULE ObjectLogProofs --------------------------
(***************************************************************************)
(* Proofs about ObjectLog: the lease's epochs only grow and no two handles *)
(* share one, the log is a gap-free run of slots that holds every append   *)
(* at most once, a writer that was taken over lands at most one segment,   *)
(* and the LSNs a handle hands out are those of recovery until it loses a  *)
(* slot.                                                                   *)
(***************************************************************************)
EXTENDS ObjectLog, InductionLemmas, FiniteSetTheorems

Lease == [epoch : Nat, etag : Nat]
Seg   == [op : Nat, n : Nat]

-----------------------------------------------------------------------------
(* ReplayedTo is a running sum.                                             *)

\* The items of slot t.
Items(segs, t) == IF t \in DOMAIN segs THEN segs[t].n ELSE 0

\* A slot has a number of items.
LEMMA ItemsType ==
    ASSUME NEW D, NEW segs \in [D -> Segment], NEW t
    PROVE  Items(segs, t) \in Nat
  BY DEF Items, Segment

\* r is the running sum of the items of the first s slots.
Running(r, segs, s) ==
    /\ r \in [0..s -> Nat] /\ r[0] = 0
    /\ \A t \in 1..s : r[t] = r[t - 1] + Items(segs, t)

\* ReplayedTo is the last of the running sums.
LEMMA RunningExists ==
    ASSUME NEW D, NEW segs \in [D -> Segment], NEW s \in Nat
    PROVE  \E r : Running(r, segs, s) /\ ReplayedTo(segs, s) = r[s]
<1> DEFINE F      == [t \in 1..s |-> [x \in Nat |-> x + Items(segs, t)]]
           Def(f) == [t \in 0..s |-> IF t = 0 THEN 0
                                     ELSE f[t - 1] + (IF t \in DOMAIN segs
                                                      THEN segs[t].n ELSE 0)]
           last == CHOOSE f : f = Def(f)
<1>1. \E r : Iterates(r, Nat, 0, s, F)
  <2>1. F \in [1..s -> [Nat -> Nat]]
    BY ItemsType
  <2> HIDE DEF F
  <2> QED BY <2>1, IterationExists
<1>2. PICK r : Iterates(r, Nat, 0, s, F)
  BY <1>1
<1>3. Running(r, segs, s)
  BY <1>2 DEF Iterates, Running
<1>4. r = Def(r)
  <2>1. ASSUME NEW t \in 1..s PROVE r[t] = Def(r)[t]
    BY <1>3 DEF Running, Items
  <2>2. r[0] = Def(r)[0]
    BY <1>3 DEF Running
  <2>3. r \in [0..s -> Nat]
    BY <1>3 DEF Running
  <2>4. \A t \in 0..s : r[t] = Def(r)[t]
    <3>1. \A t \in 0..s : t = 0 \/ t \in 1..s
      OBVIOUS
    <3> HIDE DEF Def
    <3> QED BY <2>1, <2>2, <3>1
  <2> QED BY <2>3, <2>4
<1>5. last = Def(last)
  <2> HIDE DEF Def
  <2> QED BY <1>4
<1>6. last[0] = 0 /\ \A t \in 1..s : last[t] = last[t - 1] + Items(segs, t)
  <2>1. ASSUME NEW f, f = Def(f)
        PROVE  f[0] = 0 /\ \A t \in 1..s : f[t] = f[t - 1] + Items(segs, t)
    <3>1. Def(f)[0] = 0 /\ \A t \in 1..s : Def(f)[t] = f[t - 1] + Items(segs, t)
      BY DEF Items
    <3> HIDE DEF Def
    <3> QED BY <2>1, <3>1
  <2> HIDE DEF Def, last
  <2> QED BY <1>5, <2>1
<1>7. AgreeOnSteps(r, last, s)
  <2> HIDE DEF last
  <2> QED BY <1>3, <1>6 DEF AgreeOnSteps, Running
<1>8. r[s] = last[s]
  <2> HIDE DEF last
  <2> QED BY <1>7, IterationUnique
<1>9. ReplayedTo(segs, s) = last[s]
  BY DEF ReplayedTo
<1> HIDE DEF last
<1> QED BY <1>3, <1>8, <1>9

\* Two running sums over the same slots are the same.
LEMMA RunningUnique ==
    ASSUME NEW D, NEW segs \in [D -> Segment], NEW s \in Nat, NEW u \in Nat, s <= u,
           NEW q, Running(q, segs, s), NEW r, Running(r, segs, u)
    PROVE  q[s] = r[s]
<1>1. AgreeOnSteps(q, r, s)
  BY DEF AgreeOnSteps, Running
<1> QED BY <1>1, IterationUnique

\* What ReplayedTo is: nothing before the first slot, then slot by slot.
LEMMA ReplaySteps ==
    ASSUME NEW D, NEW segs \in [D -> Segment]
    PROVE  /\ ReplayedTo(segs, 0) = 0
           /\ \A s \in Nat : ReplayedTo(segs, s) \in Nat
           /\ \A s \in Nat :
                 ReplayedTo(segs, s + 1) = ReplayedTo(segs, s) + Items(segs, s + 1)
<1>1. \A s \in Nat : ReplayedTo(segs, s) \in Nat
  <2> TAKE s \in Nat
  <2>1. PICK r : Running(r, segs, s) /\ ReplayedTo(segs, s) = r[s]
    BY RunningExists
  <2> QED BY <2>1 DEF Running
<1>2. ReplayedTo(segs, 0) = 0
  <2>1. PICK r : Running(r, segs, 0) /\ ReplayedTo(segs, 0) = r[0]
    BY RunningExists
  <2> QED BY <2>1 DEF Running
<1>3. ASSUME NEW s \in Nat
      PROVE  ReplayedTo(segs, s + 1) = ReplayedTo(segs, s) + Items(segs, s + 1)
  <2>1. PICK q : Running(q, segs, s) /\ ReplayedTo(segs, s) = q[s]
    BY RunningExists
  <2>2. s + 1 \in Nat
    OBVIOUS
  <2>3. PICK r : Running(r, segs, s + 1) /\ ReplayedTo(segs, s + 1) = r[s + 1]
    BY <2>2, RunningExists
  <2>4. q[s] = r[s]
    BY <2>1, <2>2, <2>3, RunningUnique
  <2>5. s + 1 \in 1..(s + 1) /\ (s + 1) - 1 = s
    OBVIOUS
  <2>6. r[s + 1] = r[s] + Items(segs, s + 1)
    BY <2>3, <2>5 DEF Running
  <2> QED BY <2>1, <2>3, <2>4, <2>6
<1> QED BY <1>1, <1>2, <1>3

\* Later slots have later LSNs.
LEMMA ReplayMonotone ==
    ASSUME NEW D, NEW segs \in [D -> Segment], NEW s \in Nat, NEW t \in Nat, s <= t
    PROVE  ReplayedTo(segs, s) <= ReplayedTo(segs, t)
<1> DEFINE T == {d \in Nat : ReplayedTo(segs, s) <= ReplayedTo(segs, s + d)}
<1>1. 0 \in T
  BY ReplaySteps
<1>2. ASSUME NEW d \in Nat, d \in T PROVE d + 1 \in T
  <2>1. s + d \in Nat /\ s + (d + 1) = (s + d) + 1
    OBVIOUS
  <2>2. /\ ReplayedTo(segs, (s + d) + 1)
             = ReplayedTo(segs, s + d) + Items(segs, (s + d) + 1)
        /\ ReplayedTo(segs, s) \in Nat /\ ReplayedTo(segs, s + d) \in Nat
    BY <2>1, ReplaySteps
  <2>3. Items(segs, (s + d) + 1) \in Nat
    BY ItemsType
  <2>4. ReplayedTo(segs, s) <= ReplayedTo(segs, s + d)
    BY <1>2
  <2>5. ReplayedTo(segs, s) <= ReplayedTo(segs, (s + d) + 1)
    BY <2>2, <2>3, <2>4
  <2> QED BY <2>1, <2>5
<1>3. \A d \in Nat : d \in T
  <2> HIDE DEF T
  <2> QED BY <1>1, <1>2, NatInductionSet
<1>4. t - s \in Nat /\ s + (t - s) = t
  OBVIOUS
<1>5. t - s \in T
  BY <1>3, <1>4
<1> QED BY <1>4, <1>5

\* Logs that agree on the first k slots give them the same LSNs.
LEMMA ReplayAgrees ==
    ASSUME NEW D, NEW segs \in [D -> Segment], NEW E, NEW more \in [E -> Segment],
           NEW k \in Nat, \A t \in 1..k : Items(segs, t) = Items(more, t)
    PROVE  \A s \in 0..k : ReplayedTo(segs, s) = ReplayedTo(more, s)
<1> DEFINE T == {s \in Nat : s <= k => ReplayedTo(segs, s) = ReplayedTo(more, s)}
<1>1. 0 \in T
  BY ReplaySteps
<1>2. ASSUME NEW s \in Nat, s \in T PROVE s + 1 \in T
  <2> SUFFICES ASSUME s + 1 <= k
               PROVE  ReplayedTo(segs, s + 1) = ReplayedTo(more, s + 1)
    OBVIOUS
  <2>1. s <= k /\ s + 1 \in 1..k
    OBVIOUS
  <2>2. ReplayedTo(segs, s) = ReplayedTo(more, s)
    BY <1>2, <2>1
  <2>3. ReplayedTo(segs, s + 1) = ReplayedTo(segs, s) + Items(segs, s + 1)
    BY ReplaySteps
  <2>4. ReplayedTo(more, s + 1) = ReplayedTo(more, s) + Items(more, s + 1)
    BY ReplaySteps
  <2>5. Items(segs, s + 1) = Items(more, s + 1)
    BY <2>1
  <2> QED BY <2>2, <2>3, <2>4, <2>5
<1>3. \A s \in Nat : s \in T
  <2> HIDE DEF T
  <2> QED BY <1>1, <1>2, NatInductionSet
<1> QED BY <1>3

-----------------------------------------------------------------------------
(* The inductive invariant, in its parts.                                   *)

\* The steps of append_segment after its check_fence.
Appending == {"put", "rescan", "recheck"}

\* What a handle has seen of the lease is what it was, a swap that still finds
\* the etag finds the epoch too, and the epochs held are distinct and not ahead.
LeaseInv ==
    /\ lease.etag = 0 => lease.epoch = 0
    /\ \A h \in Handles :
          /\ seen[h].etag <= lease.etag
          /\ seen[h].etag = lease.etag => seen[h].epoch = lease.epoch
          /\ pc[h] \in {"renewCas", "relCas"} => token[h] = seen[h].epoch
    /\ TokensDistinct

\* The slots are 1..k and nobody is further than k + 1; an append in progress has
\* an id that neither the log nor another append has.
Contiguous == \E k \in Nat : Slots = 1..k /\ \A h \in Handles : nextSeq[h] \in 1..(k + 1)

OpsInv ==
    /\ \A s \in Slots : log[s].op <= opCount
    /\ \A s, t \in Slots : log[s].op = log[t].op => s = t
    /\ \A h \in Handles : pc[h] \in Appending =>
          /\ seg[h].op <= opCount
          /\ \A s \in Slots : log[s].op # seg[h].op
          /\ \A g \in Handles : pc[g] \in Appending /\ seg[g].op = seg[h].op => g = h

\* Who landed a segment after losing the lease has left append_segment, and the
\* epoch it lost will not come back.
StaleInv ==
    \A h \in Handles :
        \/ stale[h] = 0
        \/ stale[h] = 1 /\ token[h] < lease.epoch /\ pc[h] \notin Appending

\* A handle's next LSN is at most the one recovery would give its next slot.
LsnInv ==
    /\ \A h \in Handles :
          /\ nextLsn[h] >= 1
          /\ pc[h] # "closed" => nextLsn[h] <= ReplayLsn(nextSeq[h] - 1) + 1
          /\ pc[h] # "closed" /\ ~skipped[h] =>
                nextLsn[h] = ReplayLsn(nextSeq[h] - 1) + 1
    /\ \A a \in acked : a.slot \in Slots /\ a.last <= ReplayLsn(a.slot)

\* An append that returned is in its slot, and returned once.
AckInv ==
    /\ \A a \in acked : a.slot \in Slots /\ log[a.slot].op = a.op
    /\ \A a, b \in acked : a.op = b.op => a = b

LogInv == TypeOK /\ LeaseInv /\ Contiguous /\ OpsInv /\ StaleInv /\ LsnInv /\ AckInv

-----------------------------------------------------------------------------
(* What the steps have in common.                                           *)

\* scan_next_seq finds the slot behind the last.
LEMMA ScanFinds ==
    ASSUME NEW k \in Nat, Slots = 1..k
    PROVE  ScanNextSeq = k + 1
<1> DEFINE T == Slots \cup {0}
<1>1. T \subseteq Nat /\ T # {} /\ \A x \in T : x <= k
  OBVIOUS
<1>2. Max(T) \in T /\ \A y \in T : y <= Max(T)
  <2> HIDE DEF T
  <2> QED BY <1>1, MaxOfBounded
<1>3. k \in T
  OBVIOUS
<1>4. Max(T) = k
  <2>1. Max(T) <= k /\ k <= Max(T) /\ Max(T) \in Nat
    BY <1>1, <1>2, <1>3
  <2> HIDE DEF T
  <2> QED BY <2>1
<1> QED BY <1>4 DEF ScanNextSeq

\* A segment that lands does so behind the last slot, whoever puts it.
LEMMA LandsAtEnd ==
    ASSUME TypeOK, NEW k \in Nat, Slots = 1..k, NEW h \in Handles,
           nextSeq[h] \in 1..(k + 1), Land(h, nextSeq[h])
    PROVE  /\ nextSeq[h] = k + 1
           /\ Slots' = 1..(k + 1)
           /\ log' \in [1..(k + 1) -> Segment]
           /\ log'[k + 1].op = seg[h].op /\ log'[k + 1].n = seg[h].n
           /\ \A t \in 1..k : log'[t] = log[t]
<1>1. nextSeq[h] = k + 1
  BY DEF Land
<1>2. 1..k \cup {k + 1} = 1..(k + 1)
  OBVIOUS
<1>3. [by |-> h, epoch |-> token[h], op |-> seg[h].op, n |-> seg[h].n] \in Segment
  BY DEF TypeOK, Segment
<1>4. \A t \in 1..k : log[t] \in Segment
  BY DEF TypeOK
<1>5. log' = [t \in 1..(k + 1) |->
                IF t = k + 1
                THEN [by |-> h, epoch |-> token[h], op |-> seg[h].op, n |-> seg[h].n]
                ELSE log[t]]
  BY <1>1, <1>2 DEF Land
<1>6. \A t \in 1..(k + 1) : t = k + 1 \/ t \in 1..k
  OBVIOUS
<1>7. log' \in [1..(k + 1) -> Segment]
  BY <1>3, <1>4, <1>5, <1>6
<1>8. Slots' = 1..(k + 1)
  BY <1>5 DEF Slots
<1>9. log'[k + 1].op = seg[h].op /\ log'[k + 1].n = seg[h].n
  BY <1>5
<1>10. \A t \in 1..k : log'[t] = log[t]
  BY <1>5
<1> QED BY <1>1, <1>7, <1>8, <1>9, <1>10

\* An empty bucket satisfies the invariant.
LEMMA InitInv == Init => LogInv
<1> SUFFICES ASSUME Init PROVE LogInv
  OBVIOUS
<1> USE DEF Init
<1>1. Slots = {} /\ Slots = 1..0
  BY DEF Slots
<1>2. TypeOK
  BY <1>1 DEF TypeOK, NoSeg, Pcs, Outcomes
<1>3. LeaseInv
  BY DEF LeaseInv, TokensDistinct
<1>4. Contiguous
  BY <1>1 DEF Contiguous
<1>5. OpsInv
  BY <1>1 DEF OpsInv, Appending
<1>6. StaleInv
  BY DEF StaleInv
<1>7. LsnInv
  <2>1. log \in [{} -> Segment]
    OBVIOUS
  <2>2. ReplayLsn(0) = 0
    BY <2>1, ReplaySteps DEF ReplayLsn
  <2>3. 1 - 1 = 0
    OBVIOUS
  <2> QED BY <2>2, <2>3 DEF LsnInv
<1>8. AckInv
  BY DEF AckInv
<1> QED BY <1>2, <1>3, <1>4, <1>5, <1>6, <1>7, <1>8 DEF LogInv

-----------------------------------------------------------------------------
(* Types.                                                                   *)

\* Every request and every answer, lost or not, keeps the types.
LEMMA NextType == LogInv /\ [Next]_vars => TypeOK'
<1> SUFFICES ASSUME LogInv, [Next]_vars PROVE TypeOK'
  OBVIOUS
<1>0. TypeOK
  BY DEF LogInv
<1>b. UNCHANGED log => (Slots \subseteq Nat /\ log \in [Slots -> Segment])'
  BY <1>0 DEF TypeOK, Slots
<1> USE <1>0, LogBounds DEF TypeOK, Pcs, Outcomes, handleVars, histVars, Goto, Return
<1>1. CASE UNCHANGED vars
  BY <1>1, <1>b DEF vars
<1>a. PICK k \in Nat : Slots = 1..k /\ \A h \in Handles : nextSeq[h] \in 1..(k + 1)
  BY DEF LogInv, Contiguous
<1>2. ASSUME NEW h \in Handles, Recover(h) PROVE TypeOK'
  <2>1. ScanNextSeq \in Nat
    BY <1>a, ScanFinds
  <2>2. ReplayLsn(ScanNextSeq) \in Nat
    BY <2>1, ReplaySteps DEF ReplayLsn
  <2> QED BY <1>2, <1>b, <2>1, <2>2 DEF Recover
<1>3. ASSUME NEW h \in Handles, AcquireRead(h) PROVE TypeOK'
  BY <1>3, <1>b DEF AcquireRead
<1>4. ASSUME NEW h \in Handles, AcquireCas(h) PROVE TypeOK'
  <2>1. pc' \in [Handles -> Pcs] /\ outcome' \in [Handles -> Outcomes]
    BY ZenonT(30), <1>4 DEF AcquireCas, WriteLease, NextEpoch, Lease
  <2>2. lease' \in Lease
    BY <1>4 DEF AcquireCas, WriteLease, NextEpoch, Lease
  <2>3. token' \in [Handles -> Nat] /\ stale' \in [Handles -> Nat]
    <3>1. NextEpoch(h) \in Nat
      BY DEF NextEpoch
    <3>2. token' = token \/ token' = [token EXCEPT ![h] = NextEpoch(h)]
      BY <1>4 DEF AcquireCas
    <3>3. stale' = stale \/ stale' = [stale EXCEPT ![h] = 0]
      BY <1>4 DEF AcquireCas
    <3>4. token' \in [Handles -> Nat]
      BY <3>1, <3>2
    <3>5. stale' \in [Handles -> Nat]
      <4>1. stale \in [Handles -> Nat]
        OBVIOUS
      <4> HIDE <1>0, LogBounds DEF TypeOK
      <4> QED BY <3>3, <4>1
    <3> QED BY <3>4, <3>5
  <2>4. attempt' \in [Handles -> Nat]
    BY <1>4 DEF AcquireCas, WriteLease, NextEpoch, Lease
  <2> QED BY <1>4, <1>b, <2>1, <2>2, <2>3, <2>4 DEF AcquireCas, WriteLease, NextEpoch, Lease
<1>5. ASSUME NEW h \in Handles, CheckFence(h) PROVE TypeOK'
  <2>1. pc' \in [Handles -> Pcs] /\ outcome' \in [Handles -> Outcomes]
    BY <1>5 DEF CheckFence, Seg
  <2>2. seg' \in [Handles -> Seg]
    <3>1. \/ seg' = seg
          \/ \E n \in 1..MaxItems : seg' = [seg EXCEPT ![h] = [op |-> opCount', n |-> n]]
      BY <1>5 DEF CheckFence
    <3>2. opCount' \in Nat /\ MaxItems \in Nat /\ seg \in [Handles -> Seg]
      BY <1>5 DEF CheckFence, Seg
    <3> HIDE <1>0, LogBounds DEF TypeOK
    <3> QED BY <3>1, <3>2 DEF Seg
  <2>3. attempt' \in [Handles -> Nat]
    <3>1. attempt' = attempt \/ attempt' = [attempt EXCEPT ![h] = 0]
      BY <1>5 DEF CheckFence
    <3>2. attempt \in [Handles -> Nat]
      OBVIOUS
    <3> HIDE <1>0, LogBounds DEF TypeOK
    <3> QED BY <3>1, <3>2
  <2> QED BY <1>5, <1>b, <2>1, <2>2, <2>3 DEF CheckFence, Seg
<1>6. ASSUME NEW h \in Handles, PutTaken(h) PROVE TypeOK'
  BY <1>6, <1>b DEF PutTaken
<1>7. ASSUME NEW h \in Handles, Recheck(h) PROVE TypeOK'
  <2>1. pc' \in [Handles -> Pcs] /\ outcome' \in [Handles -> Outcomes]
    BY <1>7 DEF Recheck, NoSeg, Seg
  <2>2. seg' \in [Handles -> Seg]
    <3>1. seg' = seg \/ seg' = [seg EXCEPT ![h] = NoSeg]
      BY <1>7 DEF Recheck
    <3>2. seg \in [Handles -> Seg] /\ NoSeg \in Seg
      BY DEF Seg, NoSeg
    <3> HIDE <1>0, LogBounds DEF TypeOK
    <3> QED BY <3>1, <3>2
  <2>3. attempt' \in [Handles -> Nat]
    BY <1>7 DEF Recheck, NoSeg, Seg
  <2> QED BY <1>7, <1>b, <2>1, <2>2, <2>3 DEF Recheck, NoSeg, Seg
<1>8. ASSUME NEW h \in Handles, RenewStart(h) PROVE TypeOK'
  BY <1>8, <1>b DEF RenewStart
<1>9. ASSUME NEW h \in Handles, RenewRead(h) PROVE TypeOK'
  <2>1. pc' \in [Handles -> Pcs] /\ outcome' \in [Handles -> Outcomes]
    BY <1>9 DEF RenewRead, LeaseRead, Lease
  <2>2. seen' \in [Handles -> Lease]
    BY <1>9 DEF RenewRead, LeaseRead, Lease
  <2> QED BY <1>9, <1>b, <2>1, <2>2 DEF RenewRead, LeaseRead, Lease
<1>10. ASSUME NEW h \in Handles, RenewCas(h) PROVE TypeOK'
  <2>1. pc' \in [Handles -> Pcs] /\ outcome' \in [Handles -> Outcomes]
    BY ZenonT(30), <1>10 DEF RenewCas, WriteLease, Lease
  <2>2. lease' \in Lease
    BY <1>10 DEF RenewCas, WriteLease, Lease
  <2>3. attempt' \in [Handles -> Nat]
    BY <1>10 DEF RenewCas, WriteLease, Lease
  <2> QED BY <1>10, <1>b, <2>1, <2>2, <2>3 DEF RenewCas, WriteLease, Lease
<1>11. ASSUME NEW h \in Handles, ReleaseRead(h) PROVE TypeOK'
  <2>1. pc' \in [Handles -> Pcs] /\ outcome' \in [Handles -> Outcomes]
    BY <1>11 DEF ReleaseRead, LeaseRead, Lease
  <2>2. seen' \in [Handles -> Lease]
    BY <1>11 DEF ReleaseRead, LeaseRead, Lease
  <2> QED BY <1>11, <1>b, <2>1, <2>2 DEF ReleaseRead, LeaseRead, Lease
<1>12. ASSUME NEW h \in Handles, ReleaseCas(h) PROVE TypeOK'
  BY <1>12, <1>b DEF ReleaseCas, WriteLease
<1>13. ASSUME NEW h \in Handles, RequestFails(h) PROVE TypeOK'
  BY <1>13, <1>b DEF RequestFails, GiveUp, NoSeg
<1>14. ASSUME NEW h \in Handles, CasAnswerLost(h) PROVE TypeOK'
  BY <1>14, <1>b DEF CasAnswerLost, GiveUp, NoSeg, WriteLease, NextEpoch
<1>15. ASSUME NEW h \in Handles, Crash(h) PROVE TypeOK'
  BY <1>15, <1>b DEF Crash, NoSeg
<1>16. ASSUME NEW h \in Handles, Rescan(h) PROVE TypeOK'
  <2>1. ScanNextSeq \in Nat
    BY <1>a, ScanFinds
  <2> QED BY <1>16, <1>b, <2>1 DEF Rescan
<1>17. ASSUME NEW h \in Handles, PutOk(h) \/ FlushFails(h) \/ PutAnswerLost(h) PROVE TypeOK'
  <2>1. Land(h, nextSeq[h])
    BY <1>17 DEF PutOk, FlushFails, PutAnswerLost
  <2>2. Slots' = 1..(k + 1) /\ log' \in [1..(k + 1) -> Segment]
    BY <1>a, <2>1, LandsAtEnd
  <2>3. (Slots \subseteq Nat /\ log \in [Slots -> Segment])'
    BY <2>2
  <2>4. stale' \in [Handles -> Nat]
    BY <2>1 DEF Land
  <2>5. LastLsn(h) \in Nat /\ LastLsn(h) + 1 \in Nat
    <3>1. nextLsn[h] \in Nat /\ nextLsn[h] >= 1 /\ seg[h].n \in Nat
      BY DEF LogInv, LsnInv
    <3> QED BY <3>1 DEF LastLsn
  <2>6. CASE PutOk(h)
    <3>1. acked' \subseteq [op : Nat, slot : Nat, last : Nat]
      BY <2>5, <2>6 DEF PutOk
    <3> QED BY <2>3, <2>4, <2>5, <2>6, <3>1 DEF PutOk, NoSeg
  <2>7. CASE FlushFails(h)
    BY <2>3, <2>4, <2>5, <2>7 DEF FlushFails, GiveUp, NoSeg
  <2>8. CASE PutAnswerLost(h)
    BY <2>3, <2>4, <2>8 DEF PutAnswerLost, GiveUp, NoSeg
  <2> QED BY <1>17, <2>6, <2>7, <2>8
<1> QED
  BY <1>1, <1>2, <1>3, <1>4, <1>5, <1>6, <1>7, <1>8, <1>9, <1>10,
     <1>11, <1>12, <1>13, <1>14, <1>15, <1>16, <1>17
  DEF Next, Rest

-----------------------------------------------------------------------------
(* The lease.                                                               *)

\* The lease is swapped only by who has seen it, for a greater epoch or the same.
LEMMA NextLease == LogInv /\ [Next]_vars => LeaseInv' /\ lease'.epoch >= lease.epoch
<1> SUFFICES ASSUME LogInv, [Next]_vars PROVE LeaseInv' /\ lease'.epoch >= lease.epoch
  OBVIOUS
<1>0. TypeOK /\ LeaseInv
  BY DEF LogInv
<1> USE <1>0 DEF TypeOK, LeaseInv, TokensDistinct, handleVars, histVars, Goto, Return,
        GiveUp, WriteLease, NextEpoch, LeaseRead
<1>1. CASE UNCHANGED <<lease, token, seen, pc>>
  BY <1>1
<1>2. ASSUME NEW h \in Handles, UNCHANGED <<lease, token, seen>>,
             NEW l, l \notin {"renewCas", "relCas"}, Goto(h, l)
      PROVE  LeaseInv' /\ lease'.epoch >= lease.epoch
  BY <1>2
<1>3. ASSUME NEW h \in Handles, AcquireRead(h)
      PROVE  LeaseInv' /\ lease'.epoch >= lease.epoch
  BY <1>3 DEF AcquireRead
<1>4. ASSUME NEW h \in Handles, AcquireCas(h)
      PROVE  LeaseInv' /\ lease'.epoch >= lease.epoch
  <2>1. CASE lease.etag = seen[h].etag
    <3>1. lease' = [epoch |-> lease.epoch + 1, etag |-> lease.etag + 1]
      BY <1>4, <2>1 DEF AcquireCas
    <3>2. /\ lease'.epoch = lease.epoch + 1 /\ lease'.etag = lease.etag + 1
          /\ lease.epoch \in Nat /\ lease.etag \in Nat
      BY <3>1
    <3>3. /\ token' = [token EXCEPT ![h] = lease.epoch + 1] /\ UNCHANGED seen
          /\ pc' = [pc EXCEPT ![h] = "idle"]
      BY <1>4, <2>1 DEF AcquireCas
    <3> QED BY <3>2, <3>3
  <2>2. CASE lease.etag # seen[h].etag
    <3>1. /\ UNCHANGED <<lease, token, seen>>
          /\ Goto(h, "closed") \/ Goto(h, "acqRead")
      BY <1>4, <2>2 DEF AcquireCas
    <3> QED BY <1>2, <3>1
  <2> QED BY <2>1, <2>2
<1>5. ASSUME NEW h \in Handles, RenewRead(h) \/ ReleaseRead(h)
      PROVE  LeaseInv' /\ lease'.epoch >= lease.epoch
  <2>1. CASE token[h] # lease.epoch
    <3>1. UNCHANGED <<lease, token, seen>> /\ Goto(h, "idle")
      BY <1>5, <2>1 DEF RenewRead, ReleaseRead
    <3> QED BY <1>2, <3>1
  <2>2. CASE token[h] = lease.epoch
    <3>1. /\ UNCHANGED <<lease, token>> /\ seen' = [seen EXCEPT ![h] = lease]
          /\ \E l : pc' = [pc EXCEPT ![h] = l]
      BY <1>5, <2>2 DEF RenewRead, ReleaseRead
    <3> QED BY <2>2, <3>1
  <2> QED BY <2>1, <2>2
<1>6. ASSUME NEW h \in Handles, RenewCas(h) \/ ReleaseCas(h)
      PROVE  LeaseInv' /\ lease'.epoch >= lease.epoch
  BY <1>6 DEF RenewCas, ReleaseCas
<1>7. ASSUME NEW h \in Handles, CasAnswerLost(h)
      PROVE  LeaseInv' /\ lease'.epoch >= lease.epoch
  BY <1>7 DEF CasAnswerLost
<1>8. ASSUME NEW h \in Handles, Crash(h)
      PROVE  LeaseInv' /\ lease'.epoch >= lease.epoch
  BY <1>8 DEF Crash
<1>9. ASSUME NEW h \in Handles,
             \/ Recover(h) \/ CheckFence(h) \/ PutOk(h) \/ FlushFails(h) \/ PutTaken(h)
             \/ Rescan(h) \/ Recheck(h) \/ RenewStart(h) \/ RequestFails(h)
             \/ PutAnswerLost(h)
      PROVE  LeaseInv' /\ lease'.epoch >= lease.epoch
  <2>1. UNCHANGED <<lease, token, seen>>
    BY <1>9 DEF Recover, CheckFence, PutOk, FlushFails, PutTaken, Rescan, Recheck,
                RenewStart, RequestFails, PutAnswerLost
  <2>2. \E l : l \notin {"renewCas", "relCas"} /\ Goto(h, l)
    BY <1>9 DEF Recover, CheckFence, PutOk, FlushFails, PutTaken, Rescan, Recheck,
                RenewStart, RequestFails, PutAnswerLost
  <2> QED BY <1>2, <2>1, <2>2
<1> QED
  BY <1>1, <1>3, <1>4, <1>5, <1>6, <1>7, <1>8, <1>9 DEF Next, Rest, vars

-----------------------------------------------------------------------------
(* The log.  Only a put adds to it, and only behind its last slot.          *)

Puts(h) == PutOk(h) \/ FlushFails(h) \/ PutAnswerLost(h)

\* A slot is put only where a handle has seen the end of the log.
LEMMA NextContiguous == LogInv /\ [Next]_vars => Contiguous'
<1> SUFFICES ASSUME LogInv, [Next]_vars PROVE Contiguous'
  OBVIOUS
<1>0. TypeOK
  BY DEF LogInv
<1>a. PICK k \in Nat : Slots = 1..k /\ \A h \in Handles : nextSeq[h] \in 1..(k + 1)
  BY DEF LogInv, Contiguous
<1>b. nextSeq \in [Handles -> Nat]
  BY <1>0 DEF TypeOK
<1> USE DEF handleVars, histVars
<1>1. CASE UNCHANGED <<log, nextSeq>>
  BY <1>1, <1>a DEF Contiguous, Slots
<1>2. ASSUME NEW h \in Handles, Recover(h) \/ Rescan(h)
      PROVE  Contiguous'
  <2>1. ScanNextSeq = k + 1
    BY <1>a, ScanFinds
  <2>2. Slots' = Slots /\ nextSeq' = [nextSeq EXCEPT ![h] = k + 1]
    BY <1>2, <2>1 DEF Recover, Rescan, Slots
  <2>3. \A g \in Handles : nextSeq'[g] \in 1..(k + 1)
    BY <1>a, <1>b, <2>2
  <2> QED BY <1>a, <2>2, <2>3 DEF Contiguous
<1>3. ASSUME NEW h \in Handles, Crash(h)
      PROVE  Contiguous'
  <2>1. Slots' = Slots /\ nextSeq' = [nextSeq EXCEPT ![h] = 1]
    BY <1>3 DEF Crash, Slots
  <2>2. \A g \in Handles : nextSeq'[g] \in 1..(k + 1)
    BY <1>a, <1>b, <2>1
  <2> QED BY <1>a, <2>1, <2>2 DEF Contiguous
<1>4. ASSUME NEW h \in Handles, Puts(h)
      PROVE  Contiguous'
  <2>1. Land(h, nextSeq[h])
    BY <1>4 DEF Puts, PutOk, FlushFails, PutAnswerLost
  <2>2. nextSeq[h] = k + 1 /\ Slots' = 1..(k + 1)
    BY <1>0, <1>a, <2>1, LandsAtEnd
  <2>3. nextSeq' = nextSeq \/ nextSeq' = [nextSeq EXCEPT ![h] = @ + 1]
    BY <1>4 DEF Puts, PutOk, FlushFails, PutAnswerLost
  <2>4. \A g \in Handles : nextSeq'[g] \in 1..((k + 1) + 1)
    BY <1>a, <1>b, <2>2, <2>3
  <2>5. k + 1 \in Nat
    OBVIOUS
  <2> QED BY <2>2, <2>4, <2>5 DEF Contiguous
<1>5. ASSUME NEW h \in Handles,
             \/ AcquireRead(h) \/ AcquireCas(h) \/ CheckFence(h) \/ PutTaken(h)
             \/ Recheck(h) \/ RenewStart(h) \/ RenewRead(h) \/ RenewCas(h)
             \/ ReleaseRead(h) \/ ReleaseCas(h) \/ RequestFails(h) \/ CasAnswerLost(h)
      PROVE  UNCHANGED <<log, nextSeq>>
  BY <1>5 DEF AcquireRead, AcquireCas, CheckFence, PutTaken, Recheck, RenewStart, RenewRead,
              RenewCas, ReleaseRead, ReleaseCas, RequestFails, CasAnswerLost
<1> QED
  BY <1>1, <1>2, <1>3, <1>4, <1>5 DEF Next, Rest, vars, Puts

\* An id is given to one append, which lands it once or not at all.
LEMMA NextOps == LogInv /\ [Next]_vars => OpsInv'
<1> SUFFICES ASSUME LogInv, [Next]_vars PROVE OpsInv'
  OBVIOUS
<1>0. TypeOK /\ OpsInv
  BY DEF LogInv
<1>a. PICK k \in Nat : Slots = 1..k /\ \A h \in Handles : nextSeq[h] \in 1..(k + 1)
  BY DEF LogInv, Contiguous
<1> USE <1>0 DEF TypeOK, Appending, handleVars, histVars, Goto, Return
<1>b. \A s \in Slots : log[s].op \in Nat
  BY DEF Segment
<1>1. CASE UNCHANGED <<log, pc, seg, opCount>>
  BY <1>1 DEF OpsInv, Slots
\* A step out of append_segment, or one within it.
<1>2. ASSUME NEW h \in Handles, UNCHANGED <<log, opCount>>,
             NEW l, Goto(h, l), l \in Appending => pc[h] \in Appending /\ UNCHANGED seg,
             seg' = seg \/ seg' = [seg EXCEPT ![h] = NoSeg]
      PROVE  OpsInv'
  <2>1. \A g \in Handles : pc'[g] \in Appending => pc[g] \in Appending /\ seg'[g] = seg[g]
    BY <1>2
  <2>2. UNCHANGED Slots
    BY <1>2 DEF Slots
  <2> QED BY <1>2, <2>1, <2>2 DEF OpsInv
<1>3. ASSUME NEW h \in Handles, CheckFence(h)
      PROVE  OpsInv'
  <2>1. CASE token[h] # lease.epoch
    <3>1. /\ UNCHANGED <<log, seg>> /\ opCount' = opCount + 1 /\ Slots' = Slots
          /\ pc' = [pc EXCEPT ![h] = "idle"]
      BY <1>3, <2>1 DEF CheckFence, Slots
    <3>2. \A g \in Handles : pc'[g] \in Appending => pc[g] \in Appending
      BY <3>1
    <3>3. \A s \in Slots : log[s].op <= opCount'
      BY <1>b, <3>1 DEF OpsInv
    <3>4. \A g \in Handles : pc[g] \in Appending => seg[g].op <= opCount'
      BY <3>1 DEF OpsInv
    <3> QED BY <3>1, <3>2, <3>3, <3>4 DEF OpsInv
  <2>2. CASE token[h] = lease.epoch
    <3>1. PICK n \in 1..MaxItems : seg' = [seg EXCEPT ![h] = [op |-> opCount', n |-> n]]
      BY <1>3, <2>2 DEF CheckFence
    <3>2. /\ UNCHANGED log /\ opCount' = opCount + 1 /\ Slots' = Slots
          /\ pc' = [pc EXCEPT ![h] = "put"]
      BY <1>3, <2>2 DEF CheckFence, Slots
    <3>3. /\ seg'[h].op = opCount + 1
          /\ \A g \in Handles : g # h => seg'[g] = seg[g] /\ pc'[g] = pc[g]
      BY <3>1, <3>2
    <3>4. \A s \in Slots : log[s].op <= opCount' /\ log[s].op # opCount + 1
      BY <1>b, <3>2 DEF OpsInv
    <3>5. \A g \in Handles : g # h /\ pc[g] \in Appending =>
             seg[g].op <= opCount' /\ seg[g].op # opCount + 1
      BY <3>2 DEF OpsInv
    <3> QED BY <3>2, <3>3, <3>4, <3>5 DEF OpsInv
  <2> QED BY <2>1, <2>2
<1>4. ASSUME NEW h \in Handles, Puts(h)
      PROVE  OpsInv'
  <2>1. Land(h, nextSeq[h])
    BY <1>4 DEF Puts, PutOk, FlushFails, PutAnswerLost
  <2>2. /\ Slots' = 1..(k + 1) /\ log'[k + 1].op = seg[h].op
        /\ \A t \in 1..k : log'[t] = log[t]
    BY <1>a, <2>1, LandsAtEnd
  <2>3. /\ pc[h] = "put" /\ UNCHANGED opCount /\ seg' = [seg EXCEPT ![h] = NoSeg]
        /\ pc' = [pc EXCEPT ![h] = "idle"]
    BY <1>4 DEF Puts, PutOk, FlushFails, PutAnswerLost, GiveUp
  <2>4. \A t \in 1..(k + 1) : t = k + 1 \/ t \in 1..k
    OBVIOUS
  <2>5. \A g \in Handles : pc'[g] \in Appending =>
           pc[g] \in Appending /\ g # h /\ seg'[g] = seg[g]
    BY <2>3
  <2>6. \A t \in 1..k : log[t].op # seg[h].op /\ log[t].op <= opCount
    BY <1>a, <2>3 DEF OpsInv
  <2>7. /\ \A s \in Slots' : log'[s].op <= opCount'
        /\ \A s, t \in Slots' : log'[s].op = log'[t].op => s = t
    <3>1. \A s, t \in 1..k : log[s].op = log[t].op => s = t
      BY <1>a DEF OpsInv
    <3>2. seg[h].op <= opCount
      BY <2>3 DEF OpsInv
    <3> HIDE <1>0 DEF TypeOK
    <3> QED BY <2>2, <2>3, <2>4, <2>6, <3>1, <3>2
  <2>8. ASSUME NEW g \in Handles, pc'[g] \in Appending
        PROVE  /\ seg'[g].op <= opCount'
               /\ \A s \in Slots' : log'[s].op # seg'[g].op
    <3>1. /\ seg'[g] = seg[g] /\ seg[g].op <= opCount /\ seg[g].op # seg[h].op
          /\ \A s \in 1..k : log[s].op # seg[g].op
      BY <1>a, <2>3, <2>5, <2>8 DEF OpsInv
    <3> HIDE <1>0 DEF TypeOK
    <3> QED BY <2>2, <2>3, <2>4, <3>1
  <2>9. \A g, f \in Handles : pc'[g] \in Appending /\ pc'[f] \in Appending
                                /\ seg'[f].op = seg'[g].op => f = g
    BY <2>5 DEF OpsInv
  <2> QED BY <2>7, <2>8, <2>9 DEF OpsInv
<1>5. ASSUME NEW h \in Handles,
             \/ Recover(h) \/ AcquireRead(h) \/ AcquireCas(h) \/ PutTaken(h) \/ Rescan(h)
             \/ Recheck(h) \/ RenewStart(h) \/ RenewRead(h) \/ RenewCas(h)
             \/ ReleaseRead(h) \/ ReleaseCas(h)
             \/ RequestFails(h) \/ CasAnswerLost(h) \/ Crash(h)
      PROVE  OpsInv'
  <2>1. UNCHANGED <<log, opCount>>
    BY <1>5 DEF Recover, AcquireRead, AcquireCas, PutTaken, Rescan, Recheck, RenewStart,
                RenewRead, RenewCas, ReleaseRead, ReleaseCas, RequestFails, CasAnswerLost,
                Crash
  <2>2. seg' = seg \/ seg' = [seg EXCEPT ![h] = NoSeg]
    BY <1>5 DEF Recover, AcquireRead, AcquireCas, PutTaken, Rescan, Recheck, RenewStart,
                RenewRead, RenewCas, ReleaseRead, ReleaseCas, RequestFails, CasAnswerLost,
                Crash, GiveUp
  <2>3. \E l : Goto(h, l) /\ (l \in Appending => pc[h] \in Appending /\ UNCHANGED seg)
    BY <1>5 DEF Recover, AcquireRead, AcquireCas, PutTaken, Rescan, Recheck, RenewStart,
                RenewRead, RenewCas, ReleaseRead, ReleaseCas, RequestFails, CasAnswerLost,
                Crash, GiveUp, LeaseRead
  <2> QED BY <1>2, <2>1, <2>2, <2>3
<1> QED
  BY <1>1, <1>3, <1>4, <1>5 DEF Next, Rest, vars, Puts

-----------------------------------------------------------------------------
(* Fencing.                                                                 *)

\* A second segment of a handle that was taken over is stopped by check_fence.
LEMMA NextStale == LogInv /\ [Next]_vars => StaleInv'
<1> SUFFICES ASSUME LogInv, [Next]_vars PROVE StaleInv'
  OBVIOUS
<1>0. /\ token \in [Handles -> Nat] /\ stale \in [Handles -> Nat] /\ StaleInv
      /\ lease.epoch \in Nat /\ pc \in [Handles -> Pcs]
  BY DEF LogInv, TypeOK
<1>a. lease'.epoch \in Nat /\ lease'.epoch >= lease.epoch
  BY NextType, NextLease DEF TypeOK
<1>b. \A h \in Handles : token[h] <= lease.epoch
  BY DEF LogInv, LeaseInv, TokensDistinct
<1> USE <1>0 DEF Appending, handleVars, histVars, Goto, Return
<1>1. CASE UNCHANGED <<token, stale, pc>>
  BY <1>1, <1>a DEF StaleInv
\* A step that does not enter append_segment.
<1>2. ASSUME NEW h \in Handles, UNCHANGED <<token, stale>>, NEW l, Goto(h, l),
             l \in Appending => pc[h] \in Appending
      PROVE  StaleInv'
  <2>1. \A g \in Handles : pc'[g] \in Appending => pc[g] \in Appending
    BY <1>2
  <2> QED BY <1>2, <1>a, <2>1 DEF StaleInv
<1>3. ASSUME NEW h \in Handles, AcquireCas(h)
      PROVE  StaleInv'
  <2>1. CASE lease.etag = seen[h].etag
    <3>1. /\ \A g \in Handles : g # h => token'[g] = token[g] /\ stale'[g] = stale[g]
                                          /\ pc'[g] = pc[g]
          /\ stale'[h] = 0
      BY <1>3, <2>1 DEF AcquireCas
    <3> QED BY <1>a, <3>1 DEF StaleInv
  <2>2. CASE lease.etag # seen[h].etag
    <3>1. UNCHANGED <<token, stale>> /\ (Goto(h, "closed") \/ Goto(h, "acqRead"))
      BY <1>3, <2>2 DEF AcquireCas
    <3> QED BY <1>2, <3>1
  <2> QED BY <2>1, <2>2
<1>4. ASSUME NEW h \in Handles, CheckFence(h)
      PROVE  StaleInv'
  <2>1. CASE token[h] # lease.epoch
    <3>1. UNCHANGED <<token, stale>> /\ Goto(h, "idle")
      BY <1>4, <2>1 DEF CheckFence
    <3> QED BY <1>2, <3>1
  <2>2. CASE token[h] = lease.epoch
    <3>1. UNCHANGED <<token, stale, lease>> /\ pc' = [pc EXCEPT ![h] = "put"]
      BY <1>4, <2>2 DEF CheckFence
    <3>2. stale[h] = 0
      BY <2>2 DEF StaleInv
    <3> QED BY <3>1, <3>2 DEF StaleInv
  <2> QED BY <2>1, <2>2
<1>5. ASSUME NEW h \in Handles, Puts(h)
      PROVE  StaleInv'
  <2>1. /\ pc[h] = "put" /\ UNCHANGED <<token, lease>> /\ Land(h, nextSeq[h])
        /\ pc' = [pc EXCEPT ![h] = "idle"]
    BY <1>5 DEF Puts, PutOk, FlushFails, PutAnswerLost, GiveUp
  <2>2. stale[h] = 0
    BY <2>1 DEF StaleInv
  <2>3. CASE token[h] = lease.epoch
    <3>1. UNCHANGED stale
      BY <2>1, <2>3 DEF Land
    <3> QED BY <2>1, <2>2, <3>1 DEF StaleInv
  <2>4. CASE token[h] # lease.epoch
    <3>1. stale' = [stale EXCEPT ![h] = 1] /\ token[h] < lease.epoch
      BY <1>b, <2>1, <2>2, <2>4 DEF Land
    <3> QED BY <2>1, <3>1 DEF StaleInv
  <2> QED BY <2>3, <2>4
<1>6. ASSUME NEW h \in Handles, Crash(h)
      PROVE  StaleInv'
  <2>1. /\ \A g \in Handles : g # h => token'[g] = token[g] /\ stale'[g] = stale[g]
                                        /\ pc'[g] = pc[g]
        /\ stale'[h] = 0 /\ UNCHANGED lease
    BY <1>6 DEF Crash
  <2> QED BY <2>1 DEF StaleInv
<1>7. ASSUME NEW h \in Handles,
             \/ Recover(h) \/ AcquireRead(h) \/ PutTaken(h) \/ Rescan(h)
             \/ Recheck(h) \/ RenewStart(h) \/ RenewRead(h) \/ RenewCas(h)
             \/ ReleaseRead(h) \/ ReleaseCas(h) \/ RequestFails(h) \/ CasAnswerLost(h)
      PROVE  StaleInv'
  <2>1. UNCHANGED <<token, stale>>
    BY <1>7 DEF Recover, AcquireRead, PutTaken, Rescan, Recheck, RenewStart, RenewRead,
                RenewCas, ReleaseRead, ReleaseCas, RequestFails, CasAnswerLost
  <2>2. \E l : Goto(h, l) /\ (l \in Appending => pc[h] \in Appending)
    BY <1>7 DEF Recover, AcquireRead, PutTaken, Rescan, Recheck, RenewStart, RenewRead,
                RenewCas, ReleaseRead, ReleaseCas, RequestFails, CasAnswerLost,
                GiveUp, LeaseRead
  <2> QED BY <1>2, <2>1, <2>2
<1> QED
  BY <1>1, <1>3, <1>4, <1>5, <1>6, <1>7 DEF Next, Rest, vars, Puts

-----------------------------------------------------------------------------
(* LSNs.                                                                    *)

\* What the invariant says of one handle, given its next slot.
LsnOf(h) ==
    /\ nextLsn[h] >= 1
    /\ pc[h] # "closed" => nextLsn[h] <= ReplayLsn(nextSeq[h] - 1) + 1
    /\ pc[h] # "closed" /\ ~skipped[h] => nextLsn[h] = ReplayLsn(nextSeq[h] - 1) + 1

\* The LSN a handle keeps follows the slots it has put, as replay_log would count.
LEMMA NextLsns == LogInv /\ [Next]_vars => LsnInv'
<1> SUFFICES ASSUME LogInv, [Next]_vars PROVE LsnInv'
  OBVIOUS
<1>0. /\ TypeOK /\ LsnInv
      /\ nextSeq \in [Handles -> Nat] /\ nextLsn \in [Handles -> Nat]
      /\ skipped \in [Handles -> BOOLEAN] /\ pc \in [Handles -> Pcs]
      /\ log \in [Slots -> Segment]
  BY DEF LogInv, TypeOK
<1>a. PICK k \in Nat : Slots = 1..k /\ \A h \in Handles : nextSeq[h] \in 1..(k + 1)
  BY DEF LogInv, Contiguous
<1>b. \A s \in Nat : ReplayLsn(s) \in Nat
  BY <1>0, ReplaySteps DEF ReplayLsn
<1>c. \A h \in Handles : LsnOf(h)
  BY <1>0 DEF LsnInv, LsnOf
<1>d. \A h \in Handles : nextSeq[h] - 1 \in 0..k
  BY <1>a
<1> USE DEF handleVars, histVars, Goto, Return
\* The log stays: only the handle that moves can be wrong.
<1>1. ASSUME UNCHANGED <<log, acked>>, \A h \in Handles : LsnOf(h)'
      PROVE  LsnInv'
  <2>1. Slots' = Slots /\ \A s : ReplayLsn(s)' = ReplayLsn(s)
    BY <1>1 DEF Slots, ReplayLsn
  <2>2. \A a \in acked' : a.slot \in Slots' /\ a.last <= ReplayedTo(log', a.slot)
    BY <1>0, <1>1, <2>1 DEF LsnInv, ReplayLsn
  <2> QED BY <1>1, <2>2 DEF LsnInv, LsnOf, ReplayLsn
<1>2. ASSUME NEW g \in Handles, UNCHANGED log, nextLsn'[g] = nextLsn[g],
             nextSeq'[g] = nextSeq[g], skipped'[g] = skipped[g],
             pc'[g] # "closed" => pc[g] # "closed"
      PROVE  LsnOf(g)'
  BY <1>2, <1>c DEF LsnOf, ReplayLsn
<1>3. CASE UNCHANGED <<log, nextLsn, nextSeq, skipped, acked, pc>>
  BY <1>1, <1>2, <1>3
<1>4. ASSUME NEW h \in Handles,
             \/ AcquireRead(h) \/ AcquireCas(h) \/ CheckFence(h) \/ PutTaken(h)
             \/ Recheck(h) \/ RenewStart(h) \/ RenewRead(h) \/ RenewCas(h)
             \/ ReleaseRead(h) \/ ReleaseCas(h) \/ RequestFails(h) \/ CasAnswerLost(h)
      PROVE  LsnInv'
  <2>1. UNCHANGED <<log, nextLsn, nextSeq, skipped, acked>>
    BY <1>4 DEF AcquireRead, AcquireCas, CheckFence, PutTaken, Recheck, RenewStart,
                RenewRead, RenewCas, ReleaseRead, ReleaseCas, RequestFails, CasAnswerLost
  <2>2. pc[h] # "closed" /\ \E l : Goto(h, l)
    BY <1>4 DEF AcquireRead, AcquireCas, CheckFence, PutTaken, Recheck, RenewStart,
                RenewRead, RenewCas, ReleaseRead, ReleaseCas, RequestFails, CasAnswerLost,
                LeaseRead, GiveUp
  <2>3. \A g \in Handles : pc'[g] # "closed" => pc[g] # "closed"
    BY <1>0, <2>2
  <2>4. \A g \in Handles : LsnOf(g)'
    BY <1>2, <2>1, <2>3
  <2> QED BY <1>1, <2>1, <2>4
<1>5. ASSUME NEW h \in Handles, Recover(h)
      PROVE  LsnInv'
  <2>1. ScanNextSeq = k + 1
    BY <1>a, ScanFinds
  <2>2. ReplayLsn(k + 1) = ReplayLsn(k)
    <3>1. Items(log, k + 1) = 0
      BY <1>a DEF Items, Slots
    <3>2. ReplayedTo(log, k + 1) = ReplayedTo(log, k) + Items(log, k + 1)
      BY <1>0, ReplaySteps
    <3> QED BY <1>b, <3>1, <3>2 DEF ReplayLsn
  <2>3. /\ nextSeq' = [nextSeq EXCEPT ![h] = k + 1]
        /\ nextLsn' = [nextLsn EXCEPT ![h] = ReplayLsn(k) + 1]
        /\ skipped' = [skipped EXCEPT ![h] = FALSE]
        /\ pc' = [pc EXCEPT ![h] = "acqRead"]
        /\ UNCHANGED <<log, acked>>
    BY <1>5, <2>1, <2>2 DEF Recover
  <2>4. ReplayLsn(nextSeq[h] - 1)' = ReplayLsn(k)
    <3>1. nextSeq'[h] - 1 = k
      BY <1>0, <2>3
    <3> QED BY <2>3, <3>1 DEF ReplayLsn
  <2>5. LsnOf(h)'
    <3>1. nextLsn'[h] = ReplayLsn(k) + 1 /\ ReplayLsn(k) \in Nat
      BY <1>0, <1>b, <2>3
    <3> QED BY <2>4, <3>1 DEF LsnOf
  <2>6. ASSUME NEW g \in Handles, g # h PROVE LsnOf(g)'
    BY <1>0, <1>2, <2>3, <2>6
  <2> QED BY <1>1, <2>3, <2>5, <2>6
<1>6. ASSUME NEW h \in Handles, Rescan(h)
      PROVE  LsnInv'
  <2>1. ScanNextSeq = k + 1
    BY <1>a, ScanFinds
  <2>2. /\ nextSeq' = [nextSeq EXCEPT ![h] = k + 1]
        /\ skipped' = [skipped EXCEPT ![h] = TRUE]
        /\ pc' = [pc EXCEPT ![h] = "recheck"] /\ pc[h] # "closed"
        /\ UNCHANGED <<log, acked, nextLsn>>
    BY <1>6, <2>1 DEF Rescan
  <2>3. ReplayLsn(nextSeq[h] - 1) <= ReplayLsn(k)
    <3>1. nextSeq[h] - 1 \in Nat /\ nextSeq[h] - 1 <= k
      BY <1>d
    <3> QED BY <1>0, <3>1, ReplayMonotone DEF ReplayLsn
  <2>4. nextSeq'[h] - 1 = k /\ nextLsn'[h] = nextLsn[h] /\ skipped'[h]
    BY <1>0, <2>2
  <2>5. ReplayLsn(nextSeq[h] - 1)' = ReplayLsn(k)
    BY <2>2, <2>4 DEF ReplayLsn
  <2>6. nextLsn[h] >= 1 /\ nextLsn[h] <= ReplayLsn(nextSeq[h] - 1) + 1
    BY <1>c, <2>2 DEF LsnOf
  <2>7. LsnOf(h)'
    <3>1. ReplayLsn(nextSeq[h] - 1) \in Nat /\ ReplayLsn(k) \in Nat /\ nextLsn[h] \in Nat
      BY <1>0, <1>b, <1>d
    <3>2. nextLsn[h] <= ReplayLsn(k) + 1
      BY <2>3, <2>6, <3>1
    <3> QED BY <2>4, <2>5, <2>6, <3>2 DEF LsnOf
  <2>8. ASSUME NEW g \in Handles, g # h PROVE LsnOf(g)'
    BY <1>0, <1>2, <2>2, <2>8
  <2> QED BY <1>1, <2>2, <2>7, <2>8
<1>7. ASSUME NEW h \in Handles, Crash(h)
      PROVE  LsnInv'
  <2>1. /\ nextSeq' = [nextSeq EXCEPT ![h] = 1] /\ nextLsn' = [nextLsn EXCEPT ![h] = 1]
        /\ skipped' = [skipped EXCEPT ![h] = FALSE]
        /\ pc' = [pc EXCEPT ![h] = "closed"]
        /\ UNCHANGED <<log, acked>>
    BY <1>7 DEF Crash
  <2>2. LsnOf(h)'
    BY <1>0, <2>1 DEF LsnOf
  <2>3. ASSUME NEW g \in Handles, g # h PROVE LsnOf(g)'
    BY <1>0, <1>2, <2>1, <2>3
  <2> QED BY <1>1, <2>1, <2>2, <2>3
<1>8. ASSUME NEW h \in Handles, Puts(h)
      PROVE  LsnInv'
  <2>1. Land(h, nextSeq[h]) /\ pc[h] # "closed" /\ pc' = [pc EXCEPT ![h] = "idle"]
    BY <1>8 DEF Puts, PutOk, FlushFails, PutAnswerLost, GiveUp
  <2>2. /\ nextSeq[h] = k + 1 /\ Slots' = 1..(k + 1)
        /\ log' \in [1..(k + 1) -> Segment]
        /\ log'[k + 1].n = seg[h].n
        /\ \A t \in 1..k : log'[t] = log[t]
    BY <1>0, <1>a, <2>1, LandsAtEnd
  <2>3. \A s \in 0..k : ReplayedTo(log, s) = ReplayedTo(log', s)
    <3>1. DOMAIN log = 1..k /\ DOMAIN log' = 1..(k + 1)
      BY <1>a, <2>2 DEF Slots
    <3>2. \A t \in 1..k : Items(log, t) = Items(log', t)
      BY <2>2, <3>1 DEF Items
    <3> QED BY <1>0, <2>2, <3>2, ReplayAgrees
  <2>4. ReplayedTo(log', k + 1) = ReplayedTo(log, k) + seg[h].n
    <3>1. ReplayedTo(log', k + 1) = ReplayedTo(log', k) + Items(log', k + 1)
      BY <2>2, ReplaySteps
    <3>2. Items(log', k + 1) = seg[h].n
      BY <2>2 DEF Items
    <3> QED BY <2>3, <3>1, <3>2
  <2>5. seg[h].n \in Nat
    BY <1>0 DEF TypeOK
  <2>6. ASSUME NEW g \in Handles, nextLsn'[g] = nextLsn[g], nextSeq'[g] = nextSeq[g],
               skipped'[g] = skipped[g], pc'[g] # "closed" => pc[g] # "closed"
        PROVE  LsnOf(g)'
    <3>1. ReplayedTo(log, nextSeq[g] - 1) = ReplayedTo(log', nextSeq'[g] - 1)
      BY <1>d, <2>3, <2>6
    <3> QED BY <1>c, <2>6, <3>1 DEF LsnOf, ReplayLsn
  <2>7. ASSUME NEW g \in Handles, g # h PROVE LsnOf(g)'
    <3>1. /\ nextLsn'[g] = nextLsn[g] /\ nextSeq'[g] = nextSeq[g]
          /\ pc'[g] = pc[g]
      BY <1>0, <1>8, <2>1, <2>7 DEF Puts, PutOk, FlushFails, PutAnswerLost
    <3>2. skipped'[g] = skipped[g]
      BY <1>8 DEF Puts, PutOk, FlushFails, PutAnswerLost
    <3> QED BY <2>6, <3>1, <3>2
  <2>8. nextLsn[h] \in Nat /\ nextLsn[h] >= 1 /\ ReplayLsn(k) \in Nat
        /\ nextLsn[h] <= ReplayLsn(k) + 1 /\ (~skipped[h] => nextLsn[h] = ReplayLsn(k) + 1)
    <3>1. nextSeq[h] - 1 = k
      BY <2>2
    <3>2. LsnOf(h)
      BY <1>c
    <3> QED BY <1>0, <1>b, <2>1, <3>1, <3>2 DEF LsnOf
  <2>9. CASE PutAnswerLost(h)
    <3>1. /\ nextLsn'[h] = nextLsn[h] /\ nextSeq'[h] = nextSeq[h]
          /\ UNCHANGED <<skipped, acked>>
      BY <2>9 DEF PutAnswerLost
    <3>2. LsnOf(h)'
      BY <2>1, <2>6, <3>1
    <3>3. \A a \in acked : a.slot \in Slots' /\ a.last <= ReplayedTo(log', a.slot)
      BY <1>0, <1>a, <2>2, <2>3 DEF LsnInv, ReplayLsn
    <3> QED BY <2>7, <3>1, <3>2, <3>3 DEF LsnInv, LsnOf, ReplayLsn
  <2>10. CASE PutOk(h) \/ FlushFails(h)
    <3>1. /\ nextLsn' = [nextLsn EXCEPT ![h] = nextLsn[h] + seg[h].n - 1 + 1]
          /\ nextSeq' = [nextSeq EXCEPT ![h] = nextSeq[h] + 1]
          /\ UNCHANGED skipped
          /\ acked' \subseteq acked \cup {[op |-> seg[h].op, slot |-> k + 1,
                                      last |-> nextLsn[h] + seg[h].n - 1]}
      BY <2>2, <2>10 DEF PutOk, FlushFails, LastLsn
    <3>2. nextLsn'[h] = nextLsn[h] + seg[h].n /\ nextSeq'[h] - 1 = k + 1
      BY <1>0, <2>2, <2>5, <2>8, <3>1
    <3>3. ReplayLsn(nextSeq[h] - 1)' = ReplayLsn(k) + seg[h].n
      BY <2>4, <3>2 DEF ReplayLsn
    <3>4. LsnOf(h)'
      <4>1. nextLsn'[h] >= 1 /\ nextLsn'[h] <= (ReplayLsn(k) + seg[h].n) + 1
        BY <2>5, <2>8, <3>2
      <4>2. ~skipped'[h] => nextLsn'[h] = (ReplayLsn(k) + seg[h].n) + 1
        BY <2>5, <2>8, <3>1, <3>2
      <4> QED BY <3>3, <4>1, <4>2 DEF LsnOf
    <3>5. ASSUME NEW a \in acked'
          PROVE  a.slot \in Slots' /\ a.last <= ReplayedTo(log', a.slot)
      <4>1. CASE a \in acked
        BY <1>0, <1>a, <2>2, <2>3, <4>1 DEF LsnInv, ReplayLsn
      <4>2. CASE a = [op |-> seg[h].op, slot |-> k + 1, last |-> nextLsn[h] + seg[h].n - 1]
        <5>1. a.slot = k + 1 /\ a.last = nextLsn[h] + seg[h].n - 1
          BY <4>2
        <5> QED BY <2>2, <2>4, <2>5, <2>8, <5>1 DEF ReplayLsn
      <4> QED BY <3>1, <4>1, <4>2
    <3> QED BY <2>7, <3>4, <3>5 DEF LsnInv, LsnOf, ReplayLsn
  <2> QED BY <1>8, <2>9, <2>10 DEF Puts
<1> QED
  BY <1>3, <1>4, <1>5, <1>6, <1>7, <1>8 DEF Next, Rest, vars, Puts

-----------------------------------------------------------------------------
(* The appends that returned.                                               *)

\* What lands later lands elsewhere and is another append.
LEMMA NextAcks == LogInv /\ [Next]_vars => AckInv'
<1> SUFFICES ASSUME LogInv, [Next]_vars PROVE AckInv'
  OBVIOUS
<1>0. TypeOK /\ OpsInv /\ AckInv
  BY DEF LogInv
<1>a. PICK k \in Nat : Slots = 1..k /\ \A h \in Handles : nextSeq[h] \in 1..(k + 1)
  BY DEF LogInv, Contiguous
<1>1. CASE UNCHANGED <<log, acked>>
  BY <1>0, <1>1 DEF AckInv, Slots
<1>2. ASSUME NEW h \in Handles, Puts(h)
      PROVE  AckInv'
  <2>1. Land(h, nextSeq[h]) /\ pc[h] = "put"
    BY <1>2 DEF Puts, PutOk, FlushFails, PutAnswerLost
  <2>2. /\ nextSeq[h] = k + 1 /\ Slots' = 1..(k + 1) /\ log'[k + 1].op = seg[h].op
        /\ \A t \in 1..k : log'[t] = log[t]
    BY <1>0, <1>a, <2>1, LandsAtEnd
  <2>3. acked' \subseteq acked \cup {[op |-> seg[h].op, slot |-> k + 1, last |-> LastLsn(h)]}
    BY <1>2, <2>2 DEF Puts, PutOk, FlushFails, PutAnswerLost, histVars
  <2>4. \A s \in Slots : log[s].op # seg[h].op
    BY <1>0, <2>1 DEF OpsInv, Appending
  <2>5. ASSUME NEW a \in acked
        PROVE  a.slot \in Slots' /\ log'[a.slot].op = a.op /\ a.op # seg[h].op
    <3>1. a.slot \in 1..k /\ log[a.slot].op = a.op
      BY <1>0, <1>a DEF AckInv
    <3> QED BY <1>a, <2>2, <2>4, <3>1
  <2>6. ASSUME NEW a \in acked'
        PROVE  \/ a \in acked
               \/ /\ a = [op |-> seg[h].op, slot |-> k + 1, last |-> LastLsn(h)]
                  /\ a.op = seg[h].op /\ a.slot = k + 1
    BY <2>3
  <2>7. ASSUME NEW a \in acked' PROVE a.slot \in Slots' /\ log'[a.slot].op = a.op
    BY <2>2, <2>5, <2>6
  <2>8. ASSUME NEW a \in acked', NEW b \in acked', a.op = b.op PROVE a = b
    <3>1. a \in acked /\ b \in acked => a = b
      BY <1>0, <2>8 DEF AckInv
    <3> QED BY <2>5, <2>6, <2>8, <3>1
  <2> QED BY <2>7, <2>8 DEF AckInv
<1> QED
  BY <1>1, <1>2 DEF Next, Puts, Rest, vars, handleVars, histVars, Recover, AcquireRead,
     AcquireCas, CheckFence, PutTaken, Rescan, Recheck, RenewStart, RenewRead, RenewCas,
     ReleaseRead, ReleaseCas, RequestFails, CasAnswerLost, Crash

-----------------------------------------------------------------------------
(* The theorems.                                                            *)

\* Every step preserves the inductive invariant.
LEMMA NextInv == LogInv /\ [Next]_vars => LogInv'
  BY NextType, NextLease, NextContiguous, NextOps, NextStale, NextLsns, NextAcks DEF LogInv

\* The inductive invariant holds in every state, for any number of handles and any
\* bounds.
THEOREM LogInvariance == Spec => []LogInv
  BY InitInv, NextInv, PTL DEF Spec

\* No two handles hold tokens of the same epoch, although the lease is read and
\* swapped in two requests, either of which may be lost (acquire_fence).
THEOREM EpochsAreDistinct == Spec => []TokensDistinct
<1>1. LogInv => TokensDistinct
  BY DEF LogInv, LeaseInv
<1> QED
  BY <1>1, LogInvariance, PTL

\* No request of any handle winds the lease's epoch back: what is fenced stays
\* fenced (renew_fence, release_fence).
THEOREM EpochsOnlyGrow == Spec => EpochNeverRegresses
<1>1. LogInv /\ [Next]_vars => [lease'.epoch >= lease.epoch]_vars
  BY NextLease
<1> QED
  BY <1>1, LogInvariance, PTL DEF Spec, EpochNeverRegresses

\* The log has no gaps, no append is in it twice, and one that returned is in the
\* slot it was put in and in no other, whoever races whom for a slot and whichever
\* answers are lost (append_segment).
THEOREM LogIsExact == Spec => []LogExact
<1>1. LogInv => LogExact
  <2> SUFFICES ASSUME LogInv PROVE LogExact
    OBVIOUS
  <2>1. PICK k \in Nat : Slots = 1..k
    BY DEF LogInv, Contiguous
  <2>2. Cardinality(1..k) = k
    <3>1. Cardinality(1..k) = IF 1 > k THEN 0 ELSE k - 1 + 1
      BY FS_Interval
    <3> QED BY <3>1
  <2>3. ASSUME NEW a \in acked PROVE {s \in Slots : log[s].op = a.op} = {a.slot}
    <3>1. a.slot \in Slots /\ log[a.slot].op = a.op
      BY DEF LogInv, AckInv
    <3> QED BY <3>1 DEF LogInv, OpsInv
  <2> QED BY <2>1, <2>2, <2>3 DEF LogExact, LogInv, OpsInv, AckInv
<1> QED
  BY <1>1, LogInvariance, PTL

\* A writer that was taken over lands at most the one segment whose check_fence
\* had passed (append_segment).
THEOREM FencingLetsOneThrough == Spec => []StaleLandsOnce
<1>1. LogInv => StaleLandsOnce
  BY DEF LogInv, StaleInv, StaleLandsOnce
<1> QED
  BY <1>1, LogInvariance, PTL

\* The LSNs an append returns are recovery's, and never past them, until the
\* handle loses a slot (append_segment, replay_log).
THEOREM LsnsAreRecoverys == Spec => []LsnExactUntilSlotLost
<1>1. LogInv => LsnExactUntilSlotLost
  BY DEF LogInv, LsnInv, LsnExactUntilSlotLost
<1> QED
  BY <1>1, LogInvariance, PTL
=============================================================================
