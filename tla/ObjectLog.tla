----------------------------- MODULE ObjectLog -----------------------------
(***************************************************************************)
(* The commit log and the writer lease of ObjectStorage                    *)
(* (storage/src/object/mod.rs) over an object store.  A handle is one      *)
(* ObjectStorage with the token its engine holds; several handles (in      *)
(* several processes) may be open on the same bucket.  Every object-store  *)
(* request is a step of its own, so that a lease read before another       *)
(* handle's write and used after it is a behaviour of the model.           *)
(*                                                                         *)
(* The object store is external: put-if-absent, put-if-match, get and list *)
(* are atomic and strongly consistent (object/store.rs), and a request may *)
(* fail before it is applied or after (object/fault.rs).  A segment's      *)
(* contents are abstracted to its number of items.                         *)
(***************************************************************************)
EXTENDS Integers, FiniteSets, FiniteSetsExt

CONSTANTS
    Handles,           \* ObjectStorage instances on one database prefix
    cas_max_retries,   \* ObjectStorageConfig.cas_max_retries
    MaxItems,          \* bound: items of a segment
    MaxOps,            \* bound: appends started
    MaxLease,          \* bound: writes of the lease object
    MaxFaults          \* bound: failed requests

ASSUME LogBounds ==
    /\ cas_max_retries \in Nat
    /\ MaxItems \in Nat
    /\ MaxOps \in Nat
    /\ MaxLease \in Nat
    /\ MaxFaults \in Nat

VARIABLES
    lease,     \* the lease object: its epoch and its etag
    log,       \* the log/<seq> objects: slot -> segment
    pc,        \* the request each handle makes next
    token,     \* FenceToken.epoch held (0: none)
    nextSeq,   \* Inner.next_seq
    nextLsn,   \* Inner.next_lsn
    seg,       \* the segment being appended: op id and item count
    attempt,   \* CAS attempts of the running operation
    seen,      \* the lease as last read, etag included
    outcome,   \* what the handle's last operation returned
    skipped,   \* history: the handle has lost a slot since it was opened
    stale,     \* history: segments landed under the token after it was fenced
    acked,     \* history: appends that returned: op, slot, LSN returned
    opCount,   \* appends started
    faults     \* requests failed

handleVars == <<pc, token, nextSeq, nextLsn, seg, attempt, seen, outcome>>
histVars   == <<skipped, stale, acked>>
vars == <<lease, log, handleVars, histVars, opCount, faults>>

NoSeg == [op |-> 0, n |-> 0]

\* Log slots in use, and the LSN replay_log gives the last item of slot s of a
\* log, reading the slots in order.
Slots == DOMAIN log
ReplayedTo(segs, s) ==
    LET last[t \in 0..s] ==
          IF t = 0 THEN 0
          ELSE last[t - 1] + (IF t \in DOMAIN segs THEN segs[t].n ELSE 0)
    IN last[s]
ReplayLsn(s) == ReplayedTo(log, s)

\* scan_next_seq: highest existing slot + 1.
ScanNextSeq == Max(Slots \cup {0}) + 1

Init ==
    /\ lease = [epoch |-> 0, etag |-> 0]
    /\ log = [s \in {} |-> NoSeg]
    /\ pc = [h \in Handles |-> "closed"]
    /\ token = [h \in Handles |-> 0]
    /\ nextSeq = [h \in Handles |-> 1]
    /\ nextLsn = [h \in Handles |-> 1]
    /\ seg = [h \in Handles |-> NoSeg]
    /\ attempt = [h \in Handles |-> 0]
    /\ seen = [h \in Handles |-> [epoch |-> 0, etag |-> 0]]
    /\ outcome = [h \in Handles |-> "none"]
    /\ skipped = [h \in Handles |-> FALSE]
    /\ stale = [h \in Handles |-> 0]
    /\ acked = {}
    /\ opCount = 0
    /\ faults = 0

Goto(h, l) == pc' = [pc EXCEPT ![h] = l]
Return(h, l, r) == Goto(h, l) /\ outcome' = [outcome EXCEPT ![h] = r]

\* A write of the lease object changes its etag.
WriteLease(e) == /\ lease.etag < MaxLease
                 /\ lease' = [epoch |-> e, etag |-> lease.etag + 1]

(* ------------------------ opening a handle ----------------------------- *)

\* ObjectStorage::open: recover lists and replays the durable log.
Recover(h) ==
    /\ pc[h] = "closed"
    /\ lease.etag < MaxLease
    /\ nextSeq' = [nextSeq EXCEPT ![h] = ScanNextSeq]
    /\ nextLsn' = [nextLsn EXCEPT ![h] = ReplayLsn(ScanNextSeq) + 1]
    /\ skipped' = [skipped EXCEPT ![h] = FALSE]
    /\ attempt' = [attempt EXCEPT ![h] = 0]
    /\ Return(h, "acqRead", "none")
    /\ UNCHANGED <<lease, log, token, seg, seen, stale, acked,
                   opCount, faults>>

\* acquire_fence, loop body: read the lease ...
AcquireRead(h) ==
    /\ pc[h] = "acqRead"
    /\ seen' = [seen EXCEPT ![h] = lease]
    /\ Goto(h, "acqCas")
    /\ UNCHANGED <<lease, log, token, nextSeq, nextLsn, seg, attempt,
                   outcome, histVars, opCount, faults>>

\* Mutant: a lease that has a holder on record is taken over as it stands.
EpochReused(h) == IF seen[h].epoch = 0 THEN 1 ELSE seen[h].epoch

\* A new holder strictly increases the epoch ...
NextEpoch(h) == seen[h].epoch + 1

\* ... with a CAS on the lease's etag, or retries.
AcquireCas(h) ==
    /\ pc[h] = "acqCas"
    /\ \/ /\ lease.etag = seen[h].etag
          /\ WriteLease(NextEpoch(h))
          /\ token' = [token EXCEPT ![h] = NextEpoch(h)]
          /\ stale' = [stale EXCEPT ![h] = 0]
          /\ Return(h, "idle", "ok")
          /\ UNCHANGED attempt
       \/ /\ lease.etag # seen[h].etag
          /\ attempt' = [attempt EXCEPT ![h] = @ + 1]
          /\ IF attempt[h] + 1 > cas_max_retries
             THEN Return(h, "closed", "contended")
             ELSE Goto(h, "acqRead") /\ UNCHANGED outcome
          /\ UNCHANGED <<lease, token, stale>>
    /\ UNCHANGED <<log, nextSeq, nextLsn, seg, seen, skipped, acked, opCount, faults>>

\* A request failed: the operation the handle is in returns Transient, except
\* release_fence, which ignores the fate of its swap.
GiveUp(h) ==
    /\ faults < MaxFaults
    /\ faults' = faults + 1
    /\ seg' = [seg EXCEPT ![h] = NoSeg]
    /\ Return(h, IF pc[h] \in {"acqRead", "acqCas"} THEN "closed" ELSE "idle",
              IF pc[h] = "relCas" THEN "ok" ELSE "transient")

(* ----------------------------- append ---------------------------------- *)

\* Mutant: the fence is not checked before the put.
FenceUnchecked(h) ==
    /\ pc[h] = "idle"
    /\ opCount < MaxOps
    /\ opCount' = opCount + 1
    /\ \E n \in 1..MaxItems : seg' = [seg EXCEPT ![h] = [op |-> opCount', n |-> n]]
    /\ attempt' = [attempt EXCEPT ![h] = 0]
    /\ Goto(h, "put")
    /\ UNCHANGED <<lease, log, token, nextSeq, nextLsn, seen, outcome,
                   histVars, faults>>

\* append_segment: check_fence, before the handle's lock is taken.
CheckFence(h) ==
    /\ pc[h] = "idle"
    /\ opCount < MaxOps
    /\ opCount' = opCount + 1
    /\ \/ /\ token[h] # lease.epoch
          /\ Return(h, "idle", "fenced")
          /\ UNCHANGED <<seg, attempt>>
       \/ /\ token[h] = lease.epoch
          /\ \E n \in 1..MaxItems :
                seg' = [seg EXCEPT ![h] = [op |-> opCount', n |-> n]]
          /\ attempt' = [attempt EXCEPT ![h] = 0]
          /\ Goto(h, "put")
          /\ UNCHANGED outcome
    /\ UNCHANGED <<lease, log, token, nextSeq, nextLsn, seen, histVars,
                   faults>>

\* The segment lands in slot s of the bucket.
Land(h, s) ==
    /\ s \notin Slots
    /\ log' = [t \in Slots \cup {s} |->
                 IF t = s THEN [by |-> h, epoch |-> token[h], op |-> seg[h].op,
                                n |-> seg[h].n]
                 ELSE log[t]]
    /\ stale' = IF token[h] = lease.epoch THEN stale
                ELSE [stale EXCEPT ![h] = @ + 1]

\* Mutant: the last LSN off by one.
LastLsnPast(h) == nextLsn[h] + seg[h].n

\* The LSN of the segment's last item.
LastLsn(h) == nextLsn[h] + seg[h].n - 1

\* put_if_absent succeeded: assign LSNs and advance.
PutOk(h) ==
    /\ pc[h] = "put"
    /\ Land(h, nextSeq[h])
    /\ nextLsn' = [nextLsn EXCEPT ![h] = LastLsn(h) + 1]
    /\ nextSeq' = [nextSeq EXCEPT ![h] = @ + 1]
    /\ acked' = acked \cup {[op |-> seg[h].op, slot |-> nextSeq[h], last |-> LastLsn(h)]}
    /\ seg' = [seg EXCEPT ![h] = NoSeg]
    /\ Return(h, "idle", "ok")
    /\ UNCHANGED <<lease, token, attempt, seen, skipped, opCount, faults>>

\* The segment (of page images) is durable, but it filled the memtable and the
\* flush that follows in the same call fails.
FlushFails(h) ==
    /\ pc[h] = "put"
    /\ Land(h, nextSeq[h])
    /\ nextLsn' = [nextLsn EXCEPT ![h] = LastLsn(h) + 1]
    /\ nextSeq' = [nextSeq EXCEPT ![h] = @ + 1]
    /\ GiveUp(h)
    /\ UNCHANGED <<lease, token, attempt, seen, skipped, acked, opCount>>

\* The slot is taken: refresh next_seq from the bucket ...
PutTaken(h) ==
    /\ pc[h] = "put"
    /\ nextSeq[h] \in Slots
    /\ Goto(h, "rescan")
    /\ UNCHANGED <<lease, log, token, nextSeq, nextLsn, seg, attempt, seen,
                   outcome, histVars, opCount, faults>>

Rescan(h) ==
    /\ pc[h] = "rescan"
    /\ nextSeq' = [nextSeq EXCEPT ![h] = ScanNextSeq]
    /\ skipped' = [skipped EXCEPT ![h] = TRUE]
    /\ Goto(h, "recheck")
    /\ UNCHANGED <<lease, log, token, nextLsn, seg, attempt, seen, outcome,
                   stale, acked, opCount, faults>>

\* ... then check again that the lease is ours, and retry.
Recheck(h) ==
    /\ pc[h] = "recheck"
    /\ \/ /\ token[h] # lease.epoch
          /\ Return(h, "idle", "fenced")
          /\ seg' = [seg EXCEPT ![h] = NoSeg]
          /\ UNCHANGED attempt
       \/ /\ token[h] = lease.epoch
          /\ attempt' = [attempt EXCEPT ![h] = @ + 1]
          /\ IF attempt[h] + 1 > cas_max_retries
             THEN Return(h, "idle", "contended") /\ seg' = [seg EXCEPT ![h] = NoSeg]
             ELSE Goto(h, "put") /\ UNCHANGED <<outcome, seg>>
    /\ UNCHANGED <<lease, log, token, nextSeq, nextLsn, seen, histVars,
                   opCount, faults>>

(* ------------------------- renew and release --------------------------- *)

\* renew_fence and release_fence read the lease first ...
LeaseRead(h, from, to, fenced) ==
    /\ pc[h] = from
    /\ \/ /\ token[h] # lease.epoch
          /\ Return(h, "idle", fenced)
          /\ UNCHANGED seen
       \/ /\ token[h] = lease.epoch
          /\ seen' = [seen EXCEPT ![h] = lease]
          /\ Goto(h, to)
          /\ UNCHANGED outcome

RenewStart(h) ==
    /\ pc[h] = "idle"
    /\ lease.etag < MaxLease
    /\ attempt' = [attempt EXCEPT ![h] = 0]
    /\ Goto(h, "renewRead")
    /\ UNCHANGED <<lease, log, token, nextSeq, nextLsn, seg, seen, outcome,
                   histVars, opCount, faults>>

RenewRead(h) ==
    /\ LeaseRead(h, "renewRead", "renewCas", "fenced")
    /\ UNCHANGED <<lease, log, token, nextSeq, nextLsn, seg, attempt,
                   histVars, opCount, faults>>

\* ... renew re-stamps it under the same epoch, retrying a lost CAS ...
RenewCas(h) ==
    /\ pc[h] = "renewCas"
    /\ \/ /\ lease.etag = seen[h].etag
          /\ WriteLease(token[h])
          /\ Return(h, "idle", "ok")
          /\ UNCHANGED attempt
       \/ /\ lease.etag # seen[h].etag
          /\ attempt' = [attempt EXCEPT ![h] = @ + 1]
          /\ IF attempt[h] + 1 > cas_max_retries
             THEN Return(h, "idle", "contended")
             ELSE Goto(h, "renewRead") /\ UNCHANGED outcome
          /\ UNCHANGED lease
    /\ UNCHANGED <<log, token, nextSeq, nextLsn, seg, seen, histVars,
                   opCount, faults>>

ReleaseRead(h) ==
    /\ lease.etag < MaxLease
    /\ LeaseRead(h, "idle", "relCas", "ok")
    /\ UNCHANGED <<lease, log, token, nextSeq, nextLsn, seg, attempt, histVars,
                   opCount, faults>>

\* ... and release marks it expired, keeping the epoch; a lost CAS is ignored.
ReleaseCas(h) ==
    /\ pc[h] = "relCas"
    /\ \/ /\ lease.etag = seen[h].etag
          /\ WriteLease(token[h])
       \/ /\ lease.etag # seen[h].etag
          /\ UNCHANGED lease
    /\ Return(h, "idle", "ok")
    /\ UNCHANGED <<log, token, nextSeq, nextLsn, seg, attempt, seen,
                   histVars, opCount, faults>>

(* ----------------------------- failures -------------------------------- *)

\* A request fails before the store applies it.
RequestFails(h) ==
    /\ pc[h] \notin {"closed", "idle"}
    /\ GiveUp(h)
    /\ UNCHANGED <<lease, log, token, nextSeq, nextLsn, attempt, seen,
                   histVars, opCount>>

\* Mutant: a put whose answer was lost is tried again like any other.
PutTriedAgain(h) ==
    /\ pc[h] = "put"
    /\ Land(h, nextSeq[h])
    /\ faults < MaxFaults
    /\ faults' = faults + 1
    /\ UNCHANGED <<lease, handleVars, skipped, acked, opCount>>

\* The put is applied but its answer is lost.
PutAnswerLost(h) ==
    /\ pc[h] = "put"
    /\ Land(h, nextSeq[h])
    /\ GiveUp(h)
    /\ UNCHANGED <<lease, token, nextSeq, nextLsn, attempt, seen, skipped,
                   acked, opCount>>

CasAnswerLost(h) ==
    /\ pc[h] \in {"acqCas", "renewCas", "relCas"}
    /\ lease.etag = seen[h].etag
    /\ WriteLease(IF pc[h] = "acqCas" THEN NextEpoch(h) ELSE token[h])
    /\ GiveUp(h)
    /\ UNCHANGED <<log, token, nextSeq, nextLsn, attempt, seen, histVars,
                   opCount>>

\* The process holding the handle stops (or drops it) at any point.
Crash(h) ==
    /\ pc[h] # "closed"
    /\ Return(h, "closed", "none")
    /\ token' = [token EXCEPT ![h] = 0]
    /\ nextSeq' = [nextSeq EXCEPT ![h] = 1]
    /\ nextLsn' = [nextLsn EXCEPT ![h] = 1]
    /\ seg' = [seg EXCEPT ![h] = NoSeg]
    /\ attempt' = [attempt EXCEPT ![h] = 0]
    /\ seen' = [seen EXCEPT ![h] = [epoch |-> 0, etag |-> 0]]
    /\ skipped' = [skipped EXCEPT ![h] = FALSE]
    /\ stale' = [stale EXCEPT ![h] = 0]
    /\ UNCHANGED <<lease, log, acked, opCount, faults>>

\* Nothing left to do within the bounds.
Rest ==
    /\ \A h \in Handles : pc[h] = "closed"
    /\ UNCHANGED vars

Next ==
    \/ \E h \in Handles :
          \/ Recover(h) \/ AcquireRead(h) \/ AcquireCas(h)
          \/ CheckFence(h) \/ PutOk(h) \/ FlushFails(h) \/ PutTaken(h) \/ Rescan(h)
          \/ Recheck(h)
          \/ RenewStart(h) \/ RenewRead(h) \/ RenewCas(h)
          \/ ReleaseRead(h) \/ ReleaseCas(h)
          \/ RequestFails(h) \/ PutAnswerLost(h) \/ CasAnswerLost(h) \/ Crash(h)
    \/ Rest

Spec == Init /\ [][Next]_vars

-----------------------------------------------------------------------------
(* Properties.                                                              *)

Pcs == {"closed", "acqRead", "acqCas", "idle", "put", "rescan", "recheck",
        "renewRead", "renewCas", "relCas"}
Outcomes == {"none", "ok", "fenced", "contended", "transient"}
Segment == [by : Handles, epoch : Nat, op : Nat, n : Nat]

TypeOK ==
    /\ lease \in [epoch : Nat, etag : Nat]
    /\ Slots \subseteq Nat /\ log \in [Slots -> Segment]
    /\ pc \in [Handles -> Pcs]
    /\ token \in [Handles -> Nat]
    /\ nextSeq \in [Handles -> Nat]
    /\ nextLsn \in [Handles -> Nat]
    /\ seg \in [Handles -> [op : Nat, n : Nat]]
    /\ attempt \in [Handles -> Nat]
    /\ seen \in [Handles -> [epoch : Nat, etag : Nat]]
    /\ outcome \in [Handles -> Outcomes]
    /\ skipped \in [Handles -> BOOLEAN]
    /\ stale \in [Handles -> Nat]
    /\ acked \subseteq [op : Nat, slot : Nat, last : Nat]
    /\ opCount \in Nat
    /\ faults \in Nat

\* No two handles ever hold tokens of the same epoch, and none is ahead of the
\* durable lease, although the lease is read and swapped in two requests
\* (acquire_fence: "a new holder strictly increases the epoch").
TokensDistinct ==
    \A h \in Handles :
        /\ token[h] <= lease.epoch
        /\ \A g \in Handles : token[h] # 0 /\ token[h] = token[g] => g = h

\* Renewals, releases and lost answers never wind the epoch back: a fenced
\* token stays fenced (renew_fence, release_fence).
EpochNeverRegresses == [][lease'.epoch >= lease.epoch]_vars

\* The log is a contiguous run of slots, and every append lands in at most one:
\* no handle, however stale its view, claims a slot that leaves a gap for
\* replay_log to skip, and none that lost a slot or an answer lands its segment
\* a second time; and an append that returned is in the slot it was put in, for good,
\* and in no other (scan_next_seq, the retry loop of append_segment).
LogExact ==
    /\ Slots = 1..Cardinality(Slots)
    /\ \A s, t \in Slots : log[s].op = log[t].op => s = t
    /\ \A a \in acked : {s \in Slots : log[s].op = a.op} = {a.slot}
    /\ \A a, b \in acked : a.op = b.op => a = b

\* What fencing guarantees: a writer that has been taken over lands at most the
\* one segment whose check_fence had already passed.
StaleLandsOnce == \A h \in Handles : stale[h] <= 1

\* The LSN an append returns is the one recovery will give the same record, as
\* long as the handle has lost no slot since it was opened.
LsnExactUntilSlotLost ==
    \A h \in Handles :
        /\ pc[h] # "closed" /\ ~skipped[h] =>
              nextLsn[h] = ReplayLsn(nextSeq[h] - 1) + 1
        /\ \A a \in acked : a.last <= ReplayLsn(a.slot)

\* types.rs: LSNs are "strictly monotonic, gap-free per database, never reused":
\* the LSN returned for a segment is its LSN in the log.
LsnExact == \A a \in acked : a.last = ReplayLsn(a.slot)

\* mod.rs: "a successful CAS is the commit point and is the fence ... a stale
\* writer fences itself off": nothing lands under a superseded token.
StaleWriterFenced == \A h \in Handles : stale[h] = 0
=============================================================================
