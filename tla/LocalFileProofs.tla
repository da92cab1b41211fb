-------------------------- MODULE LocalFileProofs --------------------------
(***************************************************************************)
(* Proofs about LocalFile and Branch: replaying the acknowledged frames    *)
(* gives what the operations left in memory; as long as a branch is not    *)
(* opened while an append runs, the file starts with every acknowledged    *)
(* frame; and a branch is a private copy of its parent up to the fork.     *)
(***************************************************************************)
EXTENDS Branch, InductionLemmas, SequenceTheorems

-----------------------------------------------------------------------------
(* Recovered and Recover.                                                   *)

\* The greater of two numbers, as recover takes it for epochs, floors and ids.
LEMMA MaxOfTwo ==
    ASSUME NEW a \in Nat, NEW b \in Nat
    PROVE  /\ Max({a, b}) \in Nat
           /\ a <= b => Max({a, b}) = b
<1>1. Max({a, b}) \in {a, b} /\ \A y \in {a, b} : y <= Max({a, b})
  <2>1. {a, b} \subseteq Nat /\ {a, b} # {} /\ a + b \in Nat
        /\ \A x \in {a, b} : x <= a + b
    OBVIOUS
  <2> QED BY <2>1, MaxOfBounded
<1> QED BY <1>1

\* An empty file recovers to a state of the right type.
LEMMA FreshType == Fresh \in Inner
  BY DEF Fresh, Inner

\* The fields of Inner.
LEMMA InnerFields ==
    ASSUME NEW s \in Inner
    PROVE  /\ s.next_lsn \in Nat \ {0} /\ s.durable_lsn \in Nat /\ s.commit_lsn \in Nat
           /\ s.epoch \in Nat /\ s.floor \in Nat /\ s.pages \in [Pages -> Seq(Nat)]
           /\ s.branches \in SUBSET [id : Nat, base : Nat] /\ s.next_branch_id \in Nat
  BY DEF Inner

\* What a frame of each tag carries.
LEMMA FrameFields ==
    ASSUME NEW f \in Frame
    PROVE  \/ f.tag = "wal" /\ f.n \in Nat \ {0}
           \/ f.tag = "page" /\ f.page \in Pages
           \/ f.tag = "fence" /\ f.epoch \in Nat
           \/ f.tag = "floor" /\ f.floor \in Nat
           \/ f.tag = "branch" /\ f.id \in Nat /\ f.base \in Nat
           \/ f.tag = "branch_del" /\ f.id \in Nat
  BY DEF Frame

\* Bytes that do not parse are not a frame.
LEMMA TornIsNoFrame == Torn \notin Frame
  BY FrameFields DEF Torn

\* Applying one frame keeps the types.
LEMMA RecoveredType ==
    ASSUME NEW s \in Inner, NEW f \in Frame
    PROVE  Recovered(s, f) \in Inner
<1> USE InnerFields
<1>1. CASE f.tag = "wal"
  <2>1. f.n \in Nat \ {0}
    BY <1>1, FrameFields
  <2>2. s.next_lsn + f.n - 1 \in Nat /\ (s.next_lsn + f.n - 1) + 1 \in Nat \ {0}
    BY <2>1
  <2>3. Recovered(s, f) = [s EXCEPT !.next_lsn = (s.next_lsn + f.n - 1) + 1,
                                    !.durable_lsn = s.next_lsn + f.n - 1,
                                    !.commit_lsn = s.next_lsn + f.n - 1]
    BY <1>1 DEF Recovered
  <2> QED BY <2>2, <2>3 DEF Inner
<1>2. CASE f.tag = "page"
  <2>1. f.page \in Pages
    BY <1>2, FrameFields
  <2>2. Append(s.pages[f.page], s.next_lsn) \in Seq(Nat)
    BY <2>1
  <2>3. [s.pages EXCEPT ![f.page] = Append(@, s.next_lsn)] \in [Pages -> Seq(Nat)]
    BY <2>1, <2>2
  <2>4. Recovered(s, f)
          = [s EXCEPT !.next_lsn = s.next_lsn + 1, !.durable_lsn = s.next_lsn,
                      !.pages = [s.pages EXCEPT ![f.page] = Append(@, s.next_lsn)]]
    BY <1>2 DEF Recovered
  <2>5. s.next_lsn + 1 \in Nat \ {0} /\ s.next_lsn \in Nat
    OBVIOUS
  <2> QED BY <2>3, <2>4, <2>5 DEF Inner
<1>3. CASE f.tag = "fence"
  <2>1. Max({s.epoch, f.epoch}) \in Nat
    BY <1>3, FrameFields, MaxOfTwo
  <2>2. Recovered(s, f) = [s EXCEPT !.epoch = Max({s.epoch, f.epoch})]
    BY <1>3 DEF Recovered
  <2> QED BY <2>1, <2>2 DEF Inner
<1>4. CASE f.tag = "floor"
  <2>1. Max({s.floor, f.floor}) \in Nat
    BY <1>4, FrameFields, MaxOfTwo
  <2>2. Recovered(s, f) = [s EXCEPT !.floor = Max({s.floor, f.floor})]
    BY <1>4 DEF Recovered
  <2> QED BY <2>1, <2>2 DEF Inner
<1>5. CASE f.tag = "branch"
  <2>1. f.id \in Nat /\ f.base \in Nat /\ f.id + 1 \in Nat
    BY <1>5, FrameFields
  <2>2. Max({s.next_branch_id, f.id + 1}) \in Nat
    BY <2>1, MaxOfTwo
  <2>3. s.branches \cup {[id |-> f.id, base |-> f.base]} \in SUBSET [id : Nat, base : Nat]
    BY <2>1
  <2>4. Recovered(s, f) = [s EXCEPT !.branches = s.branches \cup {[id |-> f.id, base |-> f.base]},
                                    !.next_branch_id = Max({s.next_branch_id, f.id + 1})]
    BY <1>5 DEF Recovered
  <2> QED BY <2>2, <2>3, <2>4 DEF Inner
<1>6. CASE f.tag = "branch_del"
  <2>1. {b \in s.branches : b.id # f.id} \in SUBSET [id : Nat, base : Nat]
    OBVIOUS
  <2>2. Recovered(s, f) = [s EXCEPT !.branches = {b \in s.branches : b.id # f.id}]
    BY <1>6 DEF Recovered
  <2> QED BY <2>1, <2>2 DEF Inner
<1> QED
  BY <1>1, <1>2, <1>3, <1>4, <1>5, <1>6, FrameFields

\* r is the state after each of the first n frames.
Replays(r, frames, n) ==
    /\ r \in [0..n -> Inner] /\ r[0] = Fresh
    /\ \A k \in 1..n : r[k] = Recovered(r[k - 1], frames[k])

\* Recover goes through the frames one by one, from the empty state.
LEMMA ReplaysExists ==
    ASSUME NEW frames \in Seq(Frame)
    PROVE  \E r : Replays(r, frames, Len(frames)) /\ Recover(frames) = r[Len(frames)]
<1> DEFINE n      == Len(frames)
           F      == [k \in 1..n |-> [s \in Inner |-> Recovered(s, frames[k])]]
           Def(f) == [k \in 0..n |-> IF k = 0 THEN Fresh ELSE Recovered(f[k - 1], frames[k])]
           after  == CHOOSE f : f = Def(f)
<1>0. n \in Nat /\ \A k \in 1..n : frames[k] \in Frame
  OBVIOUS
<1>1. \E r : Iterates(r, Inner, Fresh, n, F)
  <2>1. F \in [1..n -> [Inner -> Inner]]
    <3> HIDE DEF n
    <3> QED BY <1>0, RecoveredType
  <2> HIDE DEF F, n
  <2> QED BY <1>0, <2>1, FreshType, IterationExists
<1>2. PICK r : Iterates(r, Inner, Fresh, n, F)
  BY <1>1
<1> HIDE DEF n
<1>3. Replays(r, frames, n)
  BY <1>2 DEF Iterates, Replays
<1>4. r = Def(r)
  <2>1. \A k \in 0..n : r[k] = Def(r)[k]
    <3>1. \A k \in 0..n : k = 0 \/ k \in 1..n
      BY <1>0
    <3>2. ASSUME NEW k \in 1..n PROVE r[k] = Def(r)[k]
      BY <1>0, <1>3 DEF Replays
    <3>3. r[0] = Def(r)[0]
      BY <1>0, <1>3 DEF Replays
    <3> HIDE DEF Def
    <3> QED BY <3>1, <3>2, <3>3
  <2>2. r \in [0..n -> Inner]
    BY <1>3 DEF Replays
  <2> QED BY <2>1, <2>2
<1>5. after = Def(after)
  <2> HIDE DEF Def
  <2> QED BY <1>4
<1>6. after[0] = Fresh /\ \A k \in 1..n : after[k] = Recovered(after[k - 1], frames[k])
  <2>1. ASSUME NEW f, f = Def(f)
        PROVE  f[0] = Fresh /\ \A k \in 1..n : f[k] = Recovered(f[k - 1], frames[k])
    <3>1. Def(f)[0] = Fresh /\ \A k \in 1..n : Def(f)[k] = Recovered(f[k - 1], frames[k])
      BY <1>0
    <3> HIDE DEF Def
    <3> QED BY <2>1, <3>1
  <2> HIDE DEF Def, after
  <2> QED BY <1>5, <2>1
<1>7. AgreeOnSteps(r, after, n)
  <2> HIDE DEF after
  <2> QED BY <1>3, <1>6 DEF AgreeOnSteps, Replays
<1>8. r[n] = after[n]
  <2> HIDE DEF after
  <2> QED BY <1>0, <1>7, IterationUnique
<1>9. Recover(frames) = after[n]
  BY DEF Recover, n
<1> HIDE DEF after
<1> QED BY <1>3, <1>8, <1>9 DEF n

\* Any sequence of frames recovers to a state of the right type.
LEMMA RecoverType ==
    ASSUME NEW frames \in Seq(Frame)
    PROVE  Recover(frames) \in Inner
<1>1. PICK r : Replays(r, frames, Len(frames)) /\ Recover(frames) = r[Len(frames)]
  BY ReplaysExists
<1>2. Len(frames) \in 0..Len(frames)
  OBVIOUS
<1> QED BY <1>1, <1>2 DEF Replays

\* No frames recover to the empty state.
LEMMA RecoverEmpty == Recover(<<>>) = Fresh
<1>1. <<>> \in Seq(Frame) /\ Len(<<>>) = 0
  OBVIOUS
<1>2. PICK r : Replays(r, <<>>, 0) /\ Recover(<<>>) = r[0]
  BY <1>1, ReplaysExists
<1> QED BY <1>2 DEF Replays

\* One more frame is one more step of recovery.
LEMMA RecoverAppend ==
    ASSUME NEW frames \in Seq(Frame), NEW f \in Frame
    PROVE  Recover(Append(frames, f)) = Recovered(Recover(frames), f)
<1> DEFINE more == Append(frames, f)
           n    == Len(frames)
<1>1. /\ more \in Seq(Frame) /\ Len(more) = n + 1 /\ n \in Nat
      /\ more[n + 1] = f /\ \A k \in 1..n : more[k] = frames[k]
  OBVIOUS
<1> HIDE DEF more
<1>2. PICK q : Replays(q, frames, n) /\ Recover(frames) = q[n]
  BY ReplaysExists
<1>3. PICK r : Replays(r, more, n + 1) /\ Recover(more) = r[n + 1]
  BY <1>1, ReplaysExists
<1> HIDE DEF n
<1>4. q[n] = r[n]
  <2>1. AgreeOnSteps(q, r, n)
    BY <1>1, <1>2, <1>3 DEF AgreeOnSteps, Replays
  <2> QED BY <1>1, <2>1, IterationUnique
<1>5. n + 1 \in 1..(n + 1) /\ (n + 1) - 1 = n
  BY <1>1
<1>6. r[n + 1] = Recovered(r[n], f)
  BY <1>1, <1>3, <1>5 DEF Replays
<1> QED BY <1>2, <1>3, <1>4, <1>6 DEF more

-----------------------------------------------------------------------------
(* GoodPrefix.                                                              *)

FileSeq == Seq(Frame \cup {Torn})

\* It is the longest prefix without a torn entry.
LEMMA GoodPrefixIs ==
    ASSUME NEW f \in FileSeq
    PROVE  \E n \in 0..Len(f) :
              /\ GoodPrefix(f) = SubSeq(f, 1, n)
              /\ \A i \in 1..n : f[i] # Torn
              /\ \A k \in 0..Len(f) : (\A i \in 1..k : f[i] # Torn) => k <= n
<1> DEFINE T == {k \in 0 .. Len(f) : \A i \in 1 .. k : f[i] # Torn}
<1>1. T \subseteq Nat /\ 0 \in T /\ Len(f) \in Nat /\ \A x \in T : x <= Len(f)
  BY DEF FileSeq
<1>2. Max(T) \in T /\ \A y \in T : y <= Max(T)
  <2> HIDE DEF T
  <2> QED BY <1>1, MaxOfBounded
<1>3. GoodPrefix(f) = SubSeq(f, 1, Max(T))
  BY DEF GoodPrefix
<1>4. Max(T) \in 0..Len(f) /\ \A i \in 1..Max(T) : f[i] # Torn
  BY <1>2
<1>5. \A k \in 0..Len(f) : (\A i \in 1..k : f[i] # Torn) => k <= Max(T)
  BY <1>2
<1> HIDE DEF T
<1> QED BY <1>3, <1>4, <1>5

\* The first n elements of a sequence.
LEMMA PrefixType ==
    ASSUME NEW S, NEW s \in Seq(S), NEW n \in 0..Len(s)
    PROVE  /\ SubSeq(s, 1, n) \in Seq(S) /\ Len(SubSeq(s, 1, n)) = n
           /\ \A i \in 1..n : SubSeq(s, 1, n)[i] = s[i]
  OBVIOUS

\* What read_log keeps of a file is a sequence of frames.
LEMMA GoodPrefixType ==
    ASSUME NEW f \in FileSeq
    PROVE  GoodPrefix(f) \in Seq(Frame)
<1>1. PICK n \in 0..Len(f) : GoodPrefix(f) = SubSeq(f, 1, n) /\ \A i \in 1..n : f[i] # Torn
  BY GoodPrefixIs
<1>2. \A i \in 1..n : f[i] \in Frame
  BY <1>1 DEF FileSeq
<1>3. 1 \in Int /\ n \in Int
  BY DEF FileSeq
<1>4. SubSeq(f, 1, n) \in Seq(Frame)
  BY <1>2, <1>3, SubSeqProperties
<1> QED BY <1>1, <1>4

-----------------------------------------------------------------------------
(* Types, and memory as the replay of the acknowledged frames.              *)

\* The append in progress is one of the operations on the memory it will update.
LocalInv ==
    /\ TypeOK
    /\ MemoryIsReplay
    /\ end = Len(acked)
    /\ step # "idle" => writing \in Operations

\* The frame an operation writes, and what it takes from the memory it was made of.
LEMMA OperationsType ==
    ASSUME TypeOK, NEW f \in Operations
    PROVE  /\ f \in Frame
           /\ f.tag = "fence" => f.epoch = mem.epoch + 1
           /\ f.tag = "floor" => f.floor \in mem.floor .. mem.durable_lsn
           /\ f.tag = "branch" => f.id = mem.next_branch_id
<1>0. /\ mem.epoch \in Nat /\ mem.floor \in Nat /\ mem.durable_lsn \in Nat
      /\ mem.next_branch_id \in Nat /\ mem.branches \in SUBSET [id : Nat, base : Nat]
  BY InnerFields DEF TypeOK
<1>1. CASE f \in {AppendWal(n) : n \in 1 .. MaxRecords}
  BY <1>1, LocalFileBounds DEF AppendWal, Frame
<1>2. CASE f \in {PutPage(p) : p \in Pages}
  BY <1>2 DEF PutPage, Frame
<1>3. CASE f = AcquireFence
  BY <1>0, <1>3 DEF AcquireFence, Frame
<1>4. CASE f \in SetRetentionFloor
  BY <1>0, <1>4 DEF SetRetentionFloor, Frame
<1>5. CASE f \in CreateBranch
  <2>1. \A m \in CommitMarks : m \in Nat
    <3> TAKE m \in CommitMarks
    <3>1. PICK k \in 0..Len(acked) : m = Recover(SubSeq(acked, 1, k)).commit_lsn
      BY DEF CommitMarks
    <3>2. SubSeq(acked, 1, k) \in Seq(Frame)
      BY PrefixType DEF TypeOK
    <3> QED BY <3>1, <3>2, RecoverType, InnerFields
  <2> QED BY <1>0, <1>5, <2>1 DEF CreateBranch, Frame
<1>6. CASE f \in DeleteBranch
  BY <1>0, <1>6 DEF DeleteBranch, Frame
<1> QED
  BY <1>1, <1>2, <1>3, <1>4, <1>5, <1>6 DEF Operations

\* What the bounds count stays a number.
LEMMA CountType ==
    ASSUME TypeOK, NEW fld \in {"fails", "opens", "crashes"}, NEW b, Count(fld, b)
    PROVE  count' \in [fails : Nat, opens : Nat, crashes : Nat]
  BY DEF Count, TypeOK

\* The file with its first n entries kept, holes read as torn.
LEMMA PaddedType ==
    ASSUME NEW f \in FileSeq, NEW n \in Nat
    PROVE  [i \in 1 .. n |-> IF i \in DOMAIN f THEN f[i] ELSE Torn] \in FileSeq
<1>1. DOMAIN f = 1..Len(f) /\ \A i \in 1..Len(f) : f[i] \in Frame \cup {Torn}
  BY DEF FileSeq
<1>2. \A i \in 1..n : (IF i \in DOMAIN f THEN f[i] ELSE Torn) \in Frame \cup {Torn}
  BY <1>1
<1> QED BY <1>2 DEF FileSeq

\* What an operation does to memory is what recovery will do with its frame.
LEMMA AppendReplays ==
    ASSUME TypeOK, step = "written", writing \in Operations, AppendOk
    PROVE  mem' = Recovered(mem, writing)
<1>0. /\ writing \in Frame
      /\ writing.tag = "fence" => writing.epoch = mem.epoch + 1
      /\ writing.tag = "floor" => writing.floor \in mem.floor .. mem.durable_lsn
      /\ writing.tag = "branch" => writing.id = mem.next_branch_id
  BY OperationsType
<1>1. /\ mem.next_lsn \in Nat \ {0} /\ mem.epoch \in Nat /\ mem.floor \in Nat
      /\ mem.durable_lsn \in Nat /\ mem.next_branch_id \in Nat
  BY InnerFields DEF TypeOK
<1>2. CASE writing.tag = "wal"
  <2>1. writing.n \in Nat \ {0}
    BY <1>0, <1>2, FrameFields
  <2>2. mem.next_lsn + writing.n = (mem.next_lsn + writing.n - 1) + 1
    BY <1>1, <2>1
  <2> QED BY <1>2, <2>2 DEF AppendOk, Recovered
<1>3. CASE writing.tag = "page"
  BY <1>3 DEF AppendOk, Recovered
<1>4. CASE writing.tag = "fence"
  <2>1. Max({mem.epoch, writing.epoch}) = writing.epoch
    BY <1>0, <1>1, <1>4, MaxOfTwo
  <2> QED BY <1>4, <2>1 DEF AppendOk, Recovered
<1>5. CASE writing.tag = "floor"
  <2>1. Max({mem.floor, writing.floor}) = writing.floor
    BY <1>0, <1>1, <1>5, MaxOfTwo
  <2> QED BY <1>5, <2>1 DEF AppendOk, Recovered
<1>6. CASE writing.tag = "branch"
  <2>1. Max({mem.next_branch_id, writing.id + 1}) = mem.next_branch_id + 1
    BY <1>0, <1>1, <1>6, MaxOfTwo
  <2>2. mem' = [mem EXCEPT !.next_branch_id = @ + 1,
                     !.branches = @ \cup {[id |-> writing.id, base |-> writing.base]}]
    BY <1>6 DEF AppendOk
  <2>3. Recovered(mem, writing)
          = [mem EXCEPT !.branches = @ \cup {[id |-> writing.id, base |-> writing.base]},
                        !.next_branch_id = mem.next_branch_id + 1]
    BY <1>6, <2>1 DEF Recovered
  <2> QED BY <2>2, <2>3 DEF TypeOK, Inner
<1>7. CASE writing.tag = "branch_del"
  BY <1>7 DEF AppendOk, Recovered
<1> QED
  BY <1>0, <1>2, <1>3, <1>4, <1>5, <1>6, <1>7, FrameFields

\* An empty file and an empty memory agree.
LEMMA InitLocal == Init => LocalInv
<1> SUFFICES ASSUME Init PROVE LocalInv
  OBVIOUS
<1>1. TypeOK
  BY FreshType DEF Init, TypeOK
<1>2. MemoryIsReplay
  BY RecoverEmpty DEF Init, MemoryIsReplay
<1> QED BY <1>1, <1>2 DEF Init, LocalInv

\* Every step keeps memory the replay of the acknowledged frames.
LEMMA NextLocal == LocalInv /\ [Next]_vars => LocalInv'
<1> SUFFICES ASSUME LocalInv, [Next]_vars PROVE LocalInv'
  OBVIOUS
<1>0. /\ TypeOK /\ MemoryIsReplay /\ end = Len(acked)
      /\ step # "idle" => writing \in Operations
  BY DEF LocalInv
<1>a. file \in FileSeq /\ acked \in Seq(Frame) /\ end \in Nat
  BY <1>0 DEF TypeOK, FileSeq
\* Steps that leave memory and the acknowledged frames alone.
<1>b. ASSUME UNCHANGED <<mem, acked, end>>, TypeOK',
             step' # "idle" => writing' \in Operations
      PROVE  LocalInv'
  <2>1. Operations' = Operations
    BY <1>b DEF Operations, AcquireFence, SetRetentionFloor, CreateBranch, DeleteBranch,
                CommitMarks
  <2> QED BY <1>0, <1>b, <2>1 DEF LocalInv, MemoryIsReplay
<1>1. CASE UNCHANGED vars
  <2>1. TypeOK'
    BY <1>0, <1>1 DEF vars, TypeOK
  <2> QED BY <1>0, <1>1, <1>b, <2>1 DEF vars
<1>2. ASSUME NEW f \in Operations, StartAppend(f)
      PROVE  LocalInv'
  <2>1. f \in Frame
    BY <1>0, OperationsType
  <2>2. file' \in FileSeq
    <3>1. [i \in 1 .. end |-> IF i \in DOMAIN file THEN file[i] ELSE Torn] \in FileSeq
      BY <1>a, PaddedType
    <3>2. <<Torn>> \in FileSeq
      BY DEF FileSeq
    <3>3. \A s, t \in FileSeq : s \o t \in FileSeq
      BY DEF FileSeq
    <3> QED BY <1>2, <3>1, <3>2, <3>3 DEF StartAppend
  <2>3. TypeOK'
    BY <1>0, <1>2, <2>1, <2>2 DEF StartAppend, TypeOK, FileSeq
  <2> QED BY <1>2, <1>b, <2>3 DEF StartAppend
<1>3. CASE WriteAll
  <2>1. writing \in Frame
    BY <1>0, <1>3 DEF WriteAll, TypeOK
  <2>2. file' \in FileSeq
    <3>1. [i \in 1 .. end |-> IF i \in DOMAIN file THEN file[i] ELSE Torn] \in FileSeq
      BY <1>a, PaddedType
    <3>2. <<writing>> \in FileSeq /\ Torn \in Frame \cup {Torn}
      BY <2>1 DEF FileSeq
    <3>3. \A s, t \in FileSeq : s \o t \in FileSeq /\ Append(s \o t, Torn) \in FileSeq
      BY DEF FileSeq
    <3> QED BY <1>3, <3>1, <3>2, <3>3 DEF WriteAll
  <2>3. TypeOK'
    BY <1>0, <1>3, <2>1, <2>2 DEF WriteAll, TypeOK, FileSeq
  <2> QED BY <1>0, <1>3, <1>b, <2>3 DEF WriteAll
<1>4. CASE AppendFails
  <2>1. count' \in [fails : Nat, opens : Nat, crashes : Nat]
    BY <1>0, <1>4, CountType DEF AppendFails
  <2>2. TypeOK'
    BY <1>0, <1>4, <2>1 DEF AppendFails, TypeOK
  <2> QED BY <1>4, <1>b, <2>2 DEF AppendFails
<1>5. CASE AppendOk
  <2>1. writing \in Frame /\ writing \in Operations
    BY <1>0, <1>5 DEF AppendOk, TypeOK
  <2>2. mem' = Recovered(mem, writing)
    BY <1>0, <1>5, <2>1, AppendReplays DEF AppendOk
  <2>3. mem' \in Inner
    BY <1>0, <2>1, <2>2, RecoveredType DEF TypeOK
  <2>4. /\ acked' = Append(acked, writing) /\ end' = end + 1 /\ step' = "idle"
        /\ writing' = Torn /\ UNCHANGED <<file, opener, count>>
    BY <1>5 DEF AppendOk
  <2>5. acked' \in Seq(Frame) /\ end' = Len(acked')
    BY <1>0, <1>a, <2>1, <2>4
  <2>6. mem' = Recover(acked')
    BY <1>0, <1>a, <2>1, <2>2, <2>4, RecoverAppend DEF MemoryIsReplay
  <2>7. TypeOK'
    BY <1>0, <2>3, <2>4, <2>5 DEF TypeOK
  <2> QED BY <2>4, <2>5, <2>6, <2>7 DEF LocalInv, MemoryIsReplay
<1>6. CASE OpenRead
  <2>1. count' \in [fails : Nat, opens : Nat, crashes : Nat]
    BY <1>0, <1>6, CountType DEF OpenRead
  <2>2. Len(GoodPrefix(file)) \in Nat
    BY <1>a, GoodPrefixType
  <2>3. TypeOK'
    BY <1>0, <1>6, <2>1, <2>2 DEF OpenRead, TypeOK
  <2> QED BY <1>0, <1>6, <1>b, <2>3 DEF OpenRead
<1>7. CASE OpenHeal
  <2>1. opener.end \in Nat /\ Len(file) \in Nat
    BY <1>0, <1>a DEF TypeOK, FileSeq
  <2>2. Min({opener.end, Len(file)}) \in 0..Len(file)
    <3>1. {opener.end, Len(file)} \subseteq Nat /\ {opener.end, Len(file)} # {}
      BY <2>1
    <3>2. /\ Min({opener.end, Len(file)}) \in {opener.end, Len(file)}
          /\ Min({opener.end, Len(file)}) <= Len(file)
      BY <3>1, MinOfNats
    <3> QED BY <2>1, <3>2
  <2>3. file' \in FileSeq
    BY <1>7, <1>a, <2>2, PrefixType DEF OpenHeal, FileSeq
  <2>4. TypeOK'
    BY <1>0, <1>7, <2>3 DEF OpenHeal, TypeOK, FileSeq
  <2> QED BY <1>0, <1>7, <1>b, <2>4 DEF OpenHeal
<1>8. CASE CrashAndReopen
  <2>1. count' \in [fails : Nat, opens : Nat, crashes : Nat]
    BY <1>0, <1>8, CountType DEF CrashAndReopen
  <2>2. SubSeq(file, 1, Min({end, Len(file)})) \in FileSeq
    <3>1. end \in Nat /\ Len(file) \in Nat
      BY <1>a DEF FileSeq
    <3>2. Min({end, Len(file)}) \in {end, Len(file)} /\ Min({end, Len(file)}) <= Len(file)
      BY <3>1, MinOfNats
    <3>3. Min({end, Len(file)}) \in 0..Len(file)
      BY <3>1, <3>2
    <3> QED BY <1>a, <3>3, PrefixType DEF FileSeq
  <2>3. PICK f \in FileSeq : /\ file' = GoodPrefix(f) /\ end' = Len(GoodPrefix(f))
                             /\ mem' = Recover(GoodPrefix(f)) /\ acked' = GoodPrefix(f)
    BY <1>8, <1>a, <2>2 DEF CrashAndReopen
  <2>4. GoodPrefix(f) \in Seq(Frame)
    BY GoodPrefixType
  <2>5. mem' \in Inner
    BY <2>3, <2>4, RecoverType
  <2>6. file' \in Seq(Frame \cup {Torn})
    BY <2>3, <2>4
  <2>7. end' \in Nat /\ acked' \in Seq(Frame)
    BY <2>3, <2>4
  <2>8. TypeOK'
    BY <1>8, <2>1, <2>5, <2>6, <2>7 DEF CrashAndReopen, TypeOK
  <2> QED BY <1>8, <2>3, <2>8 DEF CrashAndReopen, LocalInv, MemoryIsReplay
<1> QED
  BY <1>1, <1>2, <1>3, <1>4, <1>5, <1>6, <1>7, <1>8 DEF Next, Rest

-----------------------------------------------------------------------------
(* The file holds what was acknowledged.                                    *)

\* With no open in the middle of an append, the file's first frames are the
\* acknowledged ones, a written frame follows them, and the second handle has
\* seen them all.
Held ==
    /\ end <= Len(file)
    /\ \A i \in 1..end : file[i] = acked[i]
    /\ step = "written" => Len(file) > end /\ file[end + 1] = writing
    /\ opener.pc = "heal" => step = "idle" /\ end <= opener.end

SurvivalInv == LocalInv /\ Held

\* A frame is written behind the acknowledged ones and changes none of them.
LEMMA WritesBehind ==
    ASSUME LocalInv, Held, NEW f, NEW g \in FileSeq,
           g = [i \in 1 .. end |-> IF i \in DOMAIN file THEN file[i] ELSE Torn] \o <<f>>
    PROVE  Len(g) = end + 1 /\ g[end + 1] = f /\ \A i \in 1..end : g[i] = acked[i]
<1> DEFINE kept == [i \in 1 .. end |-> IF i \in DOMAIN file THEN file[i] ELSE Torn]
<1>1. file \in FileSeq /\ end \in Nat /\ end <= Len(file)
  BY DEF LocalInv, TypeOK, FileSeq, Held
<1>2. DOMAIN file = 1..Len(file)
  BY <1>1 DEF FileSeq
<1>3. kept \in FileSeq /\ Len(kept) = end
  BY <1>1, PaddedType DEF FileSeq
<1>4. \A i \in 1..end : kept[i] = acked[i]
  BY <1>1, <1>2 DEF Held
<1> HIDE DEF kept
<1>5. g = kept \o <<f>>
  BY DEF kept
<1> QED BY <1>1, <1>3, <1>4, <1>5 DEF FileSeq

\* As long as no branch is opened while an append runs, neither a heal nor a failed
\* or cut write touches an acknowledged frame.
LEMMA NextHeld == ~OpenWhileWriting => (SurvivalInv /\ [Next]_vars => Held')
<1> SUFFICES ASSUME ~OpenWhileWriting, SurvivalInv, [Next]_vars PROVE Held'
  OBVIOUS
<1>0. LocalInv /\ Held /\ TypeOK
  BY DEF SurvivalInv, LocalInv
<1>a. /\ file \in FileSeq /\ acked \in Seq(Frame) /\ end \in Nat /\ end = Len(acked)
      /\ file' \in FileSeq
  BY <1>0, NextLocal DEF LocalInv, TypeOK, FileSeq
<1>1. CASE UNCHANGED vars
  BY <1>0, <1>1 DEF vars, Held
<1>2. ASSUME NEW f \in Operations, StartAppend(f)
      PROVE  Held'
  <2>1. Len(file') = end + 1 /\ \A i \in 1..end : file'[i] = acked[i]
    <3>1. file' = [i \in 1 .. end |-> IF i \in DOMAIN file THEN file[i] ELSE Torn] \o <<Torn>>
      BY <1>2 DEF StartAppend
    <3> QED BY <1>0, <1>a, <3>1, WritesBehind
  <2> QED BY <1>2, <1>a, <2>1 DEF StartAppend, Held
<1>3. CASE WriteAll
  <2> DEFINE whole == [i \in 1 .. end |-> IF i \in DOMAIN file THEN file[i] ELSE Torn]
                        \o <<writing>>
  <2>0. whole \in FileSeq
    <3>1. [i \in 1 .. end |-> IF i \in DOMAIN file THEN file[i] ELSE Torn] \in FileSeq
      BY <1>a, PaddedType
    <3>2. <<writing>> \in FileSeq
      BY <1>0, <1>3 DEF WriteAll, TypeOK, FileSeq
    <3>3. \A s, t \in FileSeq : s \o t \in FileSeq
      BY DEF FileSeq
    <3> QED BY <3>1, <3>2, <3>3
  <2>1. /\ Len(whole) = end + 1 /\ whole[end + 1] = writing
        /\ \A i \in 1..end : whole[i] = acked[i]
    BY <1>0, <2>0, WritesBehind
  <2>2. file' = whole \/ file' = Append(whole, Torn)
    BY <1>3 DEF WriteAll
  <2> HIDE DEF whole
  <2>3. Append(whole, Torn) \in FileSeq /\ Len(Append(whole, Torn)) = end + 2
        /\ \A i \in 1..(end + 1) : Append(whole, Torn)[i] = whole[i]
    BY <1>a, <2>0, <2>1 DEF FileSeq
  <2>4. /\ Len(file') > end /\ end <= Len(file') /\ file'[end + 1] = writing
        /\ \A i \in 1..end : file'[i] = acked[i]
    BY <1>a, <2>1, <2>2, <2>3
  <2>5. opener.pc # "heal"
    BY <1>0, <1>3 DEF WriteAll, Held
  <2> QED BY <1>3, <2>4, <2>5 DEF WriteAll, Held
<1>4. CASE AppendFails
  BY <1>0, <1>4 DEF AppendFails, Held
<1>5. CASE AppendOk
  <2>1. /\ acked' = Append(acked, writing) /\ end' = end + 1 /\ step' = "idle"
        /\ UNCHANGED <<file, opener>> /\ step = "written"
    BY <1>5 DEF AppendOk
  <2>2. Len(file) > end /\ file[end + 1] = writing /\ opener.pc # "heal"
    BY <1>0, <2>1 DEF Held
  <2>3. \A i \in 1..(end + 1) : i = end + 1 \/ i \in 1..end
    BY <1>a
  <2>4. writing \in Frame
    BY <1>0, <2>1 DEF TypeOK
  <2>5. acked'[end + 1] = writing /\ \A i \in 1..end : acked'[i] = acked[i]
    BY <1>a, <2>1, <2>4
  <2>6. \A i \in 1..(end + 1) : file[i] = acked'[i]
    BY <1>0, <2>2, <2>3, <2>5 DEF Held
  <2>7. end + 1 <= Len(file)
    BY <1>a, <2>2 DEF FileSeq
  <2> QED BY <2>1, <2>2, <2>6, <2>7 DEF Held
<1>6. CASE OpenRead
  <2>1. PICK n \in 0..Len(file) :
           /\ GoodPrefix(file) = SubSeq(file, 1, n)
           /\ \A k \in 0..Len(file) : (\A i \in 1..k : file[i] # Torn) => k <= n
    BY <1>a, GoodPrefixIs
  <2>2. \A i \in 1..end : file[i] # Torn
    BY <1>0, <1>a, TornIsNoFrame DEF Held
  <2>3. end <= n
    BY <1>0, <1>a, <2>1, <2>2 DEF Held
  <2>4. Len(GoodPrefix(file)) = n
    BY <1>a, <2>1, PrefixType DEF FileSeq
  <2>5. /\ opener' = [pc |-> "heal", end |-> n] /\ step = "idle"
        /\ UNCHANGED <<file, end, step, acked, writing>>
    BY <1>6, <2>4 DEF OpenRead
  <2> QED BY <1>0, <2>3, <2>5 DEF Held
<1>7. CASE OpenHeal
  <2>1. /\ opener.end \in Nat /\ Len(file) \in Nat /\ end <= opener.end
        /\ end <= Len(file) /\ step = "idle"
    BY <1>0, <1>7, <1>a DEF TypeOK, FileSeq, OpenHeal, Held
  <2> DEFINE m == Min({opener.end, Len(file)})
  <2>2. m \in {opener.end, Len(file)} /\ m <= Len(file)
    <3>1. {opener.end, Len(file)} \subseteq Nat /\ {opener.end, Len(file)} # {}
      BY <2>1
    <3> QED BY <3>1, MinOfNats
  <2> HIDE DEF m
  <2>3. m \in 0..Len(file) /\ end <= m
    BY <1>a, <2>1, <2>2
  <2>4. file' = SubSeq(file, 1, m)
    BY <1>7 DEF OpenHeal, m
  <2>5. Len(file') = m /\ \A i \in 1..m : file'[i] = file[i]
    BY <1>a, <2>3, <2>4, PrefixType DEF FileSeq
  <2>6. /\ opener' = [pc |-> "idle", end |-> 0]
        /\ UNCHANGED <<end, step, acked, writing>>
    BY <1>7 DEF OpenHeal
  <2>7. \A i \in 1..end : i \in 1..m /\ file[i] = acked[i]
    BY <1>0, <1>a, <2>3 DEF Held
  <2> QED BY <2>1, <2>3, <2>5, <2>6, <2>7 DEF Held
<1>8. CASE CrashAndReopen
  <2>1. /\ file' = acked' /\ end' = Len(file') /\ step' = "idle"
        /\ opener' = [pc |-> "idle", end |-> 0]
    BY <1>8 DEF CrashAndReopen
  <2>2. Len(file') \in Nat
    BY <1>a DEF FileSeq
  <2> QED BY <2>1, <2>2 DEF Held
<1> QED
  BY <1>1, <1>2, <1>3, <1>4, <1>5, <1>6, <1>7, <1>8 DEF Next, Rest

\* A file that starts with the acknowledged frames recovers to them and more.
LEMMA RecoversAcked ==
    ASSUME NEW a \in Seq(Frame), NEW f \in FileSeq, Len(a) <= Len(f),
           \A i \in 1..Len(a) : f[i] = a[i]
    PROVE  IsPrefix(a, GoodPrefix(f))
<1>1. PICK n \in 0..Len(f) :
         /\ GoodPrefix(f) = SubSeq(f, 1, n)
         /\ \A k \in 0..Len(f) : (\A i \in 1..k : f[i] # Torn) => k <= n
  BY GoodPrefixIs
<1>2. \A i \in 1..Len(a) : f[i] # Torn
  BY TornIsNoFrame
<1>3. Len(a) <= n
  BY <1>1, <1>2 DEF FileSeq
<1> DEFINE good == SubSeq(f, 1, n)
<1>4. good \in FileSeq /\ Len(good) = n /\ \A i \in 1..n : good[i] = f[i]
  BY PrefixType DEF FileSeq
<1> HIDE DEF good
<1>5. Len(a) <= Len(good) /\ \A i \in 1..Len(a) : good[i] = a[i]
  BY <1>3, <1>4
<1>6. SubSeq(a, 1, Len(a)) = SubSeq(good, 1, Len(a))
  BY <1>4, <1>5 DEF FileSeq
<1>7. IsPrefix(a, good)
  BY <1>5, <1>6 DEF IsPrefix
<1> QED BY <1>1, <1>7 DEF good

\* What the file holds in its first frames, recovery finds.
LEMMA HeldSurvives == SurvivalInv => AckedSurvives
<1> SUFFICES ASSUME SurvivalInv PROVE AckedSurvives
  OBVIOUS
<1>1. /\ file \in FileSeq /\ acked \in Seq(Frame) /\ end = Len(acked)
      /\ end <= Len(file) /\ \A i \in 1..end : file[i] = acked[i]
  BY DEF SurvivalInv, LocalInv, TypeOK, FileSeq, Held
<1> QED BY <1>1, RecoversAcked DEF AckedSurvives

\* No step takes an acknowledgement back.
LEMMA NextKeepsAcked == SurvivalInv /\ [Next]_vars => IsPrefix(acked, acked')
<1> SUFFICES ASSUME SurvivalInv, [Next]_vars PROVE IsPrefix(acked, acked')
  OBVIOUS
<1>1. /\ file \in FileSeq /\ acked \in Seq(Frame) /\ end = Len(acked) /\ end \in Nat
      /\ end <= Len(file) /\ \A i \in 1..end : file[i] = acked[i]
  BY DEF SurvivalInv, LocalInv, TypeOK, FileSeq, Held
<1>2. CASE UNCHANGED acked
  BY <1>1, <1>2 DEF IsPrefix
<1>3. CASE AppendOk
  <2>1. acked' = Append(acked, writing) /\ writing \in Frame
    BY <1>3 DEF AppendOk, SurvivalInv, LocalInv, TypeOK
  <2> QED BY <1>1, <2>1 DEF IsPrefix
<1>4. CASE CrashAndReopen
  <2> DEFINE cut == SubSeq(file, 1, Min({end, Len(file)}))
  <2>1. Min({end, Len(file)}) = end
    <3>1. Len(file) \in Nat
      BY <1>1 DEF FileSeq
    <3>2. {end, Len(file)} \subseteq Nat /\ {end, Len(file)} # {}
      BY <1>1, <3>1
    <3>3. Min({end, Len(file)}) \in {end, Len(file)} /\ Min({end, Len(file)}) <= end
      BY <3>2, MinOfNats
    <3> QED BY <1>1, <3>1, <3>3
  <2>2. cut \in FileSeq /\ Len(cut) = end /\ \A i \in 1..end : cut[i] = file[i]
    <3>1. end \in 0..Len(file)
      BY <1>1 DEF FileSeq
    <3>2. cut = SubSeq(file, 1, end)
      BY <2>1
    <3> HIDE DEF cut
    <3> QED BY <1>1, <3>1, <3>2, PrefixType DEF FileSeq
  <2> HIDE DEF cut
  <2>3. acked' = GoodPrefix(file) \/ acked' = GoodPrefix(cut)
    BY <1>4 DEF CrashAndReopen, cut
  <2>4. IsPrefix(acked, GoodPrefix(file))
    BY <1>1, RecoversAcked
  <2>5. IsPrefix(acked, GoodPrefix(cut))
    BY <1>1, <2>2, RecoversAcked
  <2> QED BY <2>3, <2>4, <2>5
<1> QED
  BY <1>2, <1>3, <1>4
  DEF Next, Rest, vars, StartAppend, WriteAll, AppendFails, OpenRead, OpenHeal

-----------------------------------------------------------------------------
(* The theorems.                                                            *)

\* Types and the replay invariant hold whatever appends fail, whenever a crash
\* comes and whenever a second handle heals the file.
THEOREM LocalInvariance == Spec => []LocalInv
  BY InitLocal, NextLocal, PTL DEF Spec

\* An open rebuilds from the acknowledged frames exactly what the operations had
\* left in memory (recover against append_wal, put_page, acquire_fence and the
\* others).
THEOREM MemoryReplays == Spec => []MemoryIsReplay
<1>1. LocalInv => MemoryIsReplay
  BY DEF LocalInv
<1> QED
  BY <1>1, LocalInvariance, PTL

\* With no branch opened while an append runs, the file holds what was
\* acknowledged.
THEOREM SurvivalInvariance == ~OpenWhileWriting => (Spec => []SurvivalInv)
<1> SUFFICES ASSUME ~OpenWhileWriting PROVE Spec => []SurvivalInv
  OBVIOUS
<1>1. Init => SurvivalInv
  BY InitLocal DEF SurvivalInv, Held, Init
<1>2. SurvivalInv /\ [Next]_vars => SurvivalInv'
  BY NextHeld, NextLocal DEF SurvivalInv
<1> QED
  BY <1>1, <1>2, PTL DEF Spec

\* Whatever fails or crashes, recovery would find every acknowledged frame, as
\* long as no branch is opened while an append runs (append_frame, read_log,
\* open) ...
THEOREM AcknowledgedSurvives == ~OpenWhileWriting => (Spec => []AckedSurvives)
<1> SUFFICES ASSUME ~OpenWhileWriting PROVE Spec => []AckedSurvives
  OBVIOUS
<1>1. SurvivalInv => AckedSurvives
  BY HeldSurvives
<1> QED
  BY <1>1, SurvivalInvariance, PTL

\* ... and when a crash comes, at whichever byte of an append, it does.
THEOREM AcknowledgedAccumulates == ~OpenWhileWriting => (Spec => AcksAccumulate)
<1> SUFFICES ASSUME ~OpenWhileWriting PROVE Spec => AcksAccumulate
  OBVIOUS
<1>1. SurvivalInv /\ [Next]_vars => [IsPrefix(acked, acked')]_vars
  BY NextKeepsAcked
<1> QED
  BY <1>1, SurvivalInvariance, PTL DEF Spec, AcksAccumulate

-----------------------------------------------------------------------------
(* Prefixes of a file.                                                      *)

\* Memory after the first k frames.
At(s, k) == Recover(SubSeq(s, 1, k))

\* The states recovery goes through.
LEMMA AtSteps ==
    ASSUME NEW s \in Seq(Frame)
    PROVE  /\ At(s, 0) = Fresh
           /\ At(s, Len(s)) = Recover(s)
           /\ \A k \in 0..Len(s) : At(s, k) \in Inner
           /\ \A k \in 1..Len(s) :
                 s[k] \in Frame /\ k - 1 \in 0..Len(s) /\ At(s, k) = Recovered(At(s, k - 1), s[k])
<1>1. At(s, 0) = Fresh
  <2>1. SubSeq(s, 1, 0) = <<>>
    OBVIOUS
  <2> QED BY <2>1, RecoverEmpty DEF At
<1>2. At(s, Len(s)) = Recover(s)
  <2>1. SubSeq(s, 1, Len(s)) = s
    OBVIOUS
  <2> QED BY <2>1 DEF At
<1>3. ASSUME NEW k \in 0..Len(s) PROVE At(s, k) \in Inner
  BY PrefixType, RecoverType DEF At
<1>4. ASSUME NEW k \in 1..Len(s)
      PROVE  s[k] \in Frame /\ k - 1 \in 0..Len(s) /\ At(s, k) = Recovered(At(s, k - 1), s[k])
  <2>1. s[k] \in Frame /\ k - 1 \in 0..Len(s)
    OBVIOUS
  <2>2. SubSeq(s, 1, k - 1) \in Seq(Frame)
    BY <2>1, PrefixType
  <2>3. SubSeq(s, 1, k) = Append(SubSeq(s, 1, k - 1), s[k])
    OBVIOUS
  <2> QED BY <2>1, <2>2, <2>3, RecoverAppend DEF At
<1> QED BY <1>1, <1>2, <1>3, <1>4

\* A file that starts like another is recovered like it.
LEMMA AtOfPrefix ==
    ASSUME NEW s \in Seq(Frame), NEW t \in Seq(Frame), NEW k \in 0..Len(s), k <= Len(t),
           \A i \in 1..k : s[i] = t[i]
    PROVE  At(s, k) = At(t, k)
<1>1. SubSeq(s, 1, k) = SubSeq(t, 1, k)
  OBVIOUS
<1> QED BY <1>1 DEF At

\* The frames up to the k-th, recovered.
LEMMA AtOfSubSeq ==
    ASSUME NEW s \in Seq(Frame), NEW n \in 0..Len(s), NEW k \in 0..n
    PROVE  At(SubSeq(s, 1, n), k) = At(s, k)
<1>1. SubSeq(s, 1, n) \in Seq(Frame) /\ Len(SubSeq(s, 1, n)) = n
      /\ \A i \in 1..n : SubSeq(s, 1, n)[i] = s[i]
  BY PrefixType
<1> DEFINE t == SubSeq(s, 1, n)
<1> HIDE DEF t
<1>2. t \in Seq(Frame) /\ Len(t) = n /\ \A i \in 1..k : t[i] = s[i]
  BY <1>1 DEF t
<1>3. k \in 0..Len(t) /\ k <= Len(s)
  BY <1>2
<1>4. At(t, k) = At(s, k)
  BY <1>2, <1>3, AtOfPrefix
<1> QED BY <1>4 DEF t

-----------------------------------------------------------------------------
(* What a frame does to LSNs, marks, page versions and branches.            *)

\* LSNs are handed out without a gap, and page versions are LSNs.
Counted(m) ==
    /\ m.next_lsn = m.durable_lsn + 1
    /\ m.commit_lsn <= m.durable_lsn
    /\ \A p \in Pages : \A v \in Range(m.pages[p]) : v \in 1 .. m.durable_lsn

\* Later memory: marks and the floor have not gone down, page versions are kept
\* and new ones are above the old durable mark.
Extends(m, l) ==
    /\ m.durable_lsn <= l.durable_lsn /\ m.commit_lsn <= l.commit_lsn /\ m.floor <= l.floor
    /\ \A p \in Pages :
          /\ Range(m.pages[p]) \subseteq Range(l.pages[p])
          /\ \A v \in Range(l.pages[p]) : v \in Range(m.pages[p]) \/ v > m.durable_lsn

\* The elements of a sequence with one more.
LEMMA RangeOfAppend ==
    ASSUME NEW s \in Seq(Nat), NEW x \in Nat
    PROVE  Range(Append(s, x)) = Range(s) \cup {x}
<1> DEFINE t == Append(s, x)
<1>1. /\ DOMAIN s = 1..Len(s) /\ DOMAIN t = 1..(Len(s) + 1) /\ Len(s) \in Nat
      /\ t[Len(s) + 1] = x /\ \A i \in 1..Len(s) : t[i] = s[i]
  OBVIOUS
<1> HIDE DEF t
<1>2. Range(t) = Range(s) \cup {x}
  <2>1. \A i \in 1..(Len(s) + 1) : i = Len(s) + 1 \/ i \in 1..Len(s)
    BY <1>1
  <2>2. Range(t) \subseteq Range(s) \cup {x}
    BY <1>1, <2>1 DEF Range
  <2>3. \A i \in 1..Len(s) : i \in 1..(Len(s) + 1)
    BY <1>1
  <2>4. Len(s) + 1 \in 1..(Len(s) + 1)
    BY <1>1
  <2>5. Range(s) \cup {x} \subseteq Range(t)
    BY <1>1, <2>3, <2>4 DEF Range
  <2> QED BY <2>2, <2>5
<1> QED BY <1>2 DEF t

\* The fields after each kind of frame.
LEMMA RecoveredFields ==
    ASSUME NEW s \in Inner, NEW f \in Frame
    PROVE  LET r == Recovered(s, f)
           IN  /\ f.tag = "wal" =>
                    /\ r.next_lsn = s.next_lsn + f.n /\ r.durable_lsn = s.next_lsn + f.n - 1
                    /\ r.commit_lsn = s.next_lsn + f.n - 1
               /\ f.tag = "page" =>
                    /\ r.next_lsn = s.next_lsn + 1 /\ r.durable_lsn = s.next_lsn
                    /\ r.commit_lsn = s.commit_lsn
                    /\ r.pages = [s.pages EXCEPT ![f.page] = Append(@, s.next_lsn)]
               /\ f.tag \notin {"wal", "page"} =>
                    /\ r.next_lsn = s.next_lsn /\ r.durable_lsn = s.durable_lsn
                    /\ r.commit_lsn = s.commit_lsn
               /\ f.tag # "page" => r.pages = s.pages
               /\ f.tag = "floor" => r.floor = Max({s.floor, f.floor})
               /\ f.tag # "floor" => r.floor = s.floor
               /\ f.tag = "branch" => r.branches = s.branches \cup {[id |-> f.id, base |-> f.base]}
               /\ f.tag # "branch" => r.branches \subseteq s.branches
<1> USE InnerFields
<1>1. CASE f.tag = "wal"
  <2>1. f.n \in Nat \ {0}
    BY <1>1, FrameFields
  <2>2. Recovered(s, f) = [s EXCEPT !.next_lsn = (s.next_lsn + f.n - 1) + 1,
                                    !.durable_lsn = s.next_lsn + f.n - 1,
                                    !.commit_lsn = s.next_lsn + f.n - 1]
    BY <1>1 DEF Recovered
  <2>3. (s.next_lsn + f.n - 1) + 1 = s.next_lsn + f.n
    BY <2>1
  <2> QED BY <1>1, <2>2, <2>3 DEF Inner
<1>2. CASE f.tag = "page"
  <2>1. Recovered(s, f)
          = [s EXCEPT !.next_lsn = s.next_lsn + 1, !.durable_lsn = s.next_lsn,
                      !.pages = [s.pages EXCEPT ![f.page] = Append(@, s.next_lsn)]]
    BY <1>2 DEF Recovered
  <2> QED BY <1>2, <2>1 DEF Inner
<1>3. CASE f.tag = "fence"
  <2>1. Recovered(s, f) = [s EXCEPT !.epoch = Max({s.epoch, f.epoch})]
    BY <1>3 DEF Recovered
  <2> QED BY <1>3, <2>1 DEF Inner
<1>4. CASE f.tag = "floor"
  <2>1. Recovered(s, f) = [s EXCEPT !.floor = Max({s.floor, f.floor})]
    BY <1>4 DEF Recovered
  <2> QED BY <1>4, <2>1 DEF Inner
<1>5. CASE f.tag = "branch"
  <2>1. Recovered(s, f) = [s EXCEPT !.branches = s.branches \cup {[id |-> f.id, base |-> f.base]},
                                    !.next_branch_id = Max({s.next_branch_id, f.id + 1})]
    BY <1>5 DEF Recovered
  <2> QED BY <1>5, <2>1 DEF Inner
<1>6. CASE f.tag = "branch_del"
  <2>1. Recovered(s, f) = [s EXCEPT !.branches = {b \in s.branches : b.id # f.id}]
    BY <1>6 DEF Recovered
  <2> QED BY <1>6, <2>1 DEF Inner
<1> QED
  BY <1>1, <1>2, <1>3, <1>4, <1>5, <1>6, FrameFields

\* One frame keeps LSNs gap-free ...
LEMMA RecoveredCounted ==
    ASSUME NEW s \in Inner, NEW f \in Frame, Counted(s)
    PROVE  Counted(Recovered(s, f)) /\ Extends(s, Recovered(s, f))
<1> DEFINE r == Recovered(s, f)
<1>0. /\ s.next_lsn \in Nat \ {0} /\ s.durable_lsn \in Nat /\ s.commit_lsn \in Nat
      /\ s.floor \in Nat /\ s.pages \in [Pages -> Seq(Nat)]
  BY InnerFields
<1>a. s.next_lsn = s.durable_lsn + 1 /\ s.commit_lsn <= s.durable_lsn
  BY DEF Counted
<1>c. \A p \in Pages : \A v \in Range(s.pages[p]) : v \in 1 .. s.durable_lsn
  BY DEF Counted
<1>b. r.floor \in Nat /\ s.floor <= r.floor
  <2>1. CASE f.tag = "floor"
    <3>1. f.floor \in Nat
      BY <2>1, FrameFields
    <3>2. Max({s.floor, f.floor}) \in Nat /\ s.floor <= Max({s.floor, f.floor})
      <4>1. {s.floor, f.floor} \subseteq Nat /\ {s.floor, f.floor} # {}
            /\ s.floor + f.floor \in Nat
            /\ \A x \in {s.floor, f.floor} : x <= s.floor + f.floor
        BY <1>0, <3>1
      <4>2. Max({s.floor, f.floor}) \in {s.floor, f.floor}
            /\ \A y \in {s.floor, f.floor} : y <= Max({s.floor, f.floor})
        BY <4>1, MaxOfBounded
      <4> QED BY <4>1, <4>2
    <3> QED BY <2>1, <3>2, RecoveredFields
  <2>2. CASE f.tag # "floor"
    <3>1. r.floor = s.floor
      BY <2>2, RecoveredFields
    <3> HIDE DEF r
    <3> QED BY <1>0, <3>1
  <2> QED BY <2>1, <2>2
<1>1. CASE f.tag = "wal"
  <2>1. f.n \in Nat \ {0}
    BY <1>1, FrameFields
  <2>2. /\ r.next_lsn = s.next_lsn + f.n /\ r.durable_lsn = s.next_lsn + f.n - 1
        /\ r.commit_lsn = s.next_lsn + f.n - 1 /\ r.pages = s.pages
    BY <1>1, RecoveredFields
  <2> HIDE DEF r
  <2>3. /\ r.next_lsn = r.durable_lsn + 1 /\ r.commit_lsn <= r.durable_lsn
        /\ s.durable_lsn <= r.durable_lsn /\ s.commit_lsn <= r.commit_lsn
        /\ r.durable_lsn \in Nat
    <3>1. \A d \in Nat, n \in Nat \ {0}, c \in Nat :
             /\ d + 1 + n = (d + 1 + n - 1) + 1 /\ d <= d + 1 + n - 1
             /\ d + 1 + n - 1 \in Nat /\ (c <= d => c <= d + 1 + n - 1)
             /\ d + 1 + n - 1 <= d + 1 + n - 1
      OBVIOUS
    <3>2. s.durable_lsn \in Nat /\ f.n \in Nat \ {0} /\ s.commit_lsn \in Nat
      BY <1>0, <2>1
    <3> QED BY <1>a, <2>2, <3>1, <3>2
  <2>4. ASSUME NEW p \in Pages, NEW v \in Range(r.pages[p]) PROVE v \in 1 .. r.durable_lsn
    <3>1. v \in 1 .. s.durable_lsn
      BY <1>c, <2>2
    <3> QED BY <1>0, <2>3, <3>1
  <2>5. Counted(r)
    BY <2>3, <2>4 DEF Counted
  <2>6. Extends(s, r)
    BY <1>b, <2>2, <2>3 DEF Extends
  <2> QED BY <2>5, <2>6 DEF r
<1>2. CASE f.tag = "page"
  <2>1. f.page \in Pages
    BY <1>2, FrameFields
  <2>2. /\ r.next_lsn = s.next_lsn + 1 /\ r.durable_lsn = s.next_lsn
        /\ r.commit_lsn = s.commit_lsn
        /\ r.pages = [s.pages EXCEPT ![f.page] = Append(@, s.next_lsn)]
    BY <1>2, RecoveredFields
  <2> HIDE DEF r
  <2>3. /\ r.next_lsn = r.durable_lsn + 1 /\ r.commit_lsn <= r.durable_lsn
        /\ s.durable_lsn <= r.durable_lsn /\ s.commit_lsn <= r.commit_lsn
        /\ r.durable_lsn \in Nat /\ s.next_lsn \in 1..r.durable_lsn
        /\ s.next_lsn > s.durable_lsn
    BY <1>0, <1>a, <2>2
  <2>4. ASSUME NEW p \in Pages
        PROVE  \/ Range(r.pages[p]) = Range(s.pages[p])
               \/ Range(r.pages[p]) = Range(s.pages[p]) \cup {s.next_lsn}
    <3>1. CASE p = f.page
      <4>1. r.pages[p] = Append(s.pages[p], s.next_lsn) /\ s.pages[p] \in Seq(Nat)
        BY <1>0, <2>1, <2>2, <3>1
      <4> QED BY <1>0, <4>1, RangeOfAppend
    <3>2. CASE p # f.page
      BY <1>0, <2>1, <2>2, <3>2
    <3> QED BY <3>1, <3>2
  <2>5. ASSUME NEW p \in Pages, NEW v \in Range(r.pages[p])
        PROVE  v \in 1 .. r.durable_lsn /\ (v \in Range(s.pages[p]) \/ v > s.durable_lsn)
    <3>1. CASE v \in Range(s.pages[p])
      <4>1. v \in 1 .. s.durable_lsn
        BY <1>c, <3>1
      <4> QED BY <1>0, <2>3, <3>1, <4>1
    <3>2. CASE v = s.next_lsn
      BY <2>3, <3>2
    <3> QED BY <2>4, <2>5, <3>1, <3>2
  <2>6. Counted(r)
    BY <2>3, <2>5 DEF Counted
  <2>7. Extends(s, r)
    BY <1>b, <2>3, <2>4, <2>5 DEF Extends
  <2> QED BY <2>6, <2>7 DEF r
<1>3. CASE f.tag \notin {"wal", "page"}
  <2>1. /\ r.next_lsn = s.next_lsn /\ r.durable_lsn = s.durable_lsn
        /\ r.commit_lsn = s.commit_lsn /\ r.pages = s.pages
    BY <1>3, RecoveredFields
  <2> HIDE DEF r
  <2>2. Counted(r)
    BY <1>a, <1>c, <2>1 DEF Counted
  <2>3. Extends(s, r)
    BY <1>0, <1>b, <2>1 DEF Extends
  <2> QED BY <2>2, <2>3 DEF r
<1> QED BY <1>1, <1>2, <1>3

\* ... and so does every prefix of a file.
LEMMA AtCounted ==
    ASSUME NEW s \in Seq(Frame), NEW k \in 0..Len(s)
    PROVE  Counted(At(s, k))
<1> DEFINE T == {i \in Nat : i <= Len(s) => Counted(At(s, i))}
<1>0. Len(s) \in Nat
  OBVIOUS
<1>1. 0 \in T
  <2>1. \A p \in Pages : Fresh.pages[p] = <<>>
    BY DEF Fresh
  <2>2. Range(<<>>) = {}
    BY DEF Range
  <2>3. Fresh.next_lsn = 1 /\ Fresh.durable_lsn = 0 /\ Fresh.commit_lsn = 0
    BY DEF Fresh
  <2>4. Counted(Fresh)
    BY <2>1, <2>2, <2>3 DEF Counted
  <2> QED BY <2>4, AtSteps
<1>2. ASSUME NEW i \in Nat, i \in T PROVE i + 1 \in T
  <2> SUFFICES ASSUME i + 1 <= Len(s) PROVE Counted(At(s, i + 1))
    OBVIOUS
  <2>1. i + 1 \in 1..Len(s) /\ (i + 1) - 1 = i /\ i \in 0..Len(s)
    BY <1>0
  <2>2. s[i + 1] \in Frame /\ At(s, i + 1) = Recovered(At(s, i), s[i + 1])
        /\ At(s, i) \in Inner
    BY <2>1, AtSteps
  <2>3. Counted(At(s, i))
    BY <1>2, <2>1
  <2> QED BY <2>2, <2>3, RecoveredCounted
<1>3. k \in T
  <2> HIDE DEF T
  <2> QED BY <1>1, <1>2, NatInductionSet
<1> QED BY <1>3

\* Extending is transitive.
LEMMA ExtendsTransitive ==
    ASSUME NEW a \in Inner, NEW b \in Inner, NEW c \in Inner, Extends(a, b), Extends(b, c),
           Counted(c)
    PROVE  Extends(a, c)
<1>0. /\ a.durable_lsn \in Nat /\ b.durable_lsn \in Nat /\ c.durable_lsn \in Nat
      /\ a.commit_lsn \in Nat /\ b.commit_lsn \in Nat /\ c.commit_lsn \in Nat
      /\ a.floor \in Nat /\ b.floor \in Nat /\ c.floor \in Nat
  BY InnerFields
<1>1. a.durable_lsn <= c.durable_lsn /\ a.commit_lsn <= c.commit_lsn /\ a.floor <= c.floor
  BY <1>0 DEF Extends
<1>2. ASSUME NEW p \in Pages
      PROVE  Range(a.pages[p]) \subseteq Range(c.pages[p])
  BY DEF Extends
<1>3. ASSUME NEW p \in Pages, NEW v \in Range(c.pages[p])
      PROVE  v \in Range(a.pages[p]) \/ v > a.durable_lsn
  <2>1. v \in Nat
    BY <1>0 DEF Counted
  <2>2. CASE v \in Range(b.pages[p])
    BY <2>2 DEF Extends
  <2>3. CASE v > b.durable_lsn
    <3>1. a.durable_lsn <= b.durable_lsn
      BY DEF Extends
    <3> QED BY <1>0, <2>1, <2>3, <3>1
  <2> QED BY <2>2, <2>3 DEF Extends
<1> QED BY <1>1, <1>2, <1>3 DEF Extends

\* The memory of a longer prefix extends that of a shorter one.
LEMMA AtExtends ==
    ASSUME NEW s \in Seq(Frame), NEW j \in 0..Len(s), NEW k \in 0..Len(s), j <= k
    PROVE  Extends(At(s, j), At(s, k))
<1> DEFINE T == {i \in Nat : j <= i /\ i <= Len(s) => Extends(At(s, j), At(s, i))}
<1>0. Len(s) \in Nat /\ j \in Nat
  OBVIOUS
<1>a. Extends(At(s, j), At(s, j))
  <2>1. At(s, j) \in Inner
    BY AtSteps
  <2>2. /\ At(s, j).durable_lsn \in Nat /\ At(s, j).commit_lsn \in Nat
        /\ At(s, j).floor \in Nat
    BY <2>1, InnerFields
  <2> QED BY <2>2 DEF Extends
<1>1. 0 \in T
  <2> SUFFICES ASSUME j <= 0 PROVE Extends(At(s, j), At(s, 0))
    OBVIOUS
  <2>1. j = 0
    BY <1>0
  <2> QED BY <1>a, <2>1
<1>2. ASSUME NEW i \in Nat, i \in T PROVE i + 1 \in T
  <2> SUFFICES ASSUME j <= i + 1, i + 1 <= Len(s) PROVE Extends(At(s, j), At(s, i + 1))
    OBVIOUS
  <2>1. i + 1 \in 1..Len(s) /\ (i + 1) - 1 = i /\ i \in 0..Len(s) /\ i + 1 \in 0..Len(s)
    BY <1>0
  <2>2. s[i + 1] \in Frame /\ At(s, i + 1) = Recovered(At(s, i), s[i + 1])
        /\ At(s, i) \in Inner /\ At(s, i + 1) \in Inner /\ At(s, j) \in Inner
    BY <2>1, AtSteps
  <2>3. Counted(At(s, i)) /\ Counted(At(s, i + 1))
    BY <2>1, AtCounted
  <2>4. Extends(At(s, i), At(s, i + 1))
    BY <2>2, <2>3, RecoveredCounted
  <2>5. CASE j = i + 1
    BY <1>a, <2>5
  <2>6. CASE j <= i
    <3>1. Extends(At(s, j), At(s, i))
      BY <1>2, <2>1, <2>6
    <3> QED BY <2>2, <2>3, <2>4, <3>1, ExtendsTransitive
  <2> QED BY <1>0, <2>5, <2>6
<1>3. k \in T
  <2> HIDE DEF T
  <2> QED BY <1>1, <1>2, NatInductionSet
<1> QED BY <1>3

-----------------------------------------------------------------------------
(* A file continued by another.                                             *)

\* y is b continued by x: the same LSNs from base on, the page versions of both.
Continues(b, base, x, y) ==
    /\ y.next_lsn = base + x.next_lsn
    /\ y.durable_lsn = base + x.durable_lsn
    /\ y.commit_lsn = base + x.commit_lsn
    /\ y.floor = b.floor /\ x.floor = 0
    /\ \A p \in Pages :
          Range(y.pages[p]) = Range(b.pages[p]) \cup {base + v : v \in Range(x.pages[p])}

\* One more frame of the log continues it.
LEMMA ContinuesStep ==
    ASSUME NEW b \in Inner, NEW base \in Nat, NEW x \in Inner, NEW y \in Inner,
           Continues(b, base, x, y), NEW f \in Frame, f.tag \in {"wal", "page"}
    PROVE  Continues(b, base, Recovered(x, f), Recovered(y, f))
<1> DEFINE u == Recovered(x, f)
           w == Recovered(y, f)
<1>0. /\ x.next_lsn \in Nat /\ x.durable_lsn \in Nat /\ x.commit_lsn \in Nat
      /\ x.pages \in [Pages -> Seq(Nat)] /\ y.pages \in [Pages -> Seq(Nat)]
      /\ y.next_lsn \in Nat
  BY InnerFields
<1>a. /\ y.next_lsn = base + x.next_lsn /\ y.durable_lsn = base + x.durable_lsn
      /\ y.commit_lsn = base + x.commit_lsn /\ y.floor = b.floor /\ x.floor = 0
  BY DEF Continues
<1>b. \A p \in Pages :
         Range(y.pages[p]) = Range(b.pages[p]) \cup {base + v : v \in Range(x.pages[p])}
  BY DEF Continues
<1>c. u.floor = x.floor /\ w.floor = y.floor
  BY RecoveredFields
<1>1. CASE f.tag = "wal"
  <2>1. f.n \in Nat
    BY <1>1, FrameFields
  <2>2. /\ u.next_lsn = x.next_lsn + f.n /\ u.durable_lsn = x.next_lsn + f.n - 1
        /\ u.commit_lsn = x.next_lsn + f.n - 1 /\ u.pages = x.pages
        /\ w.next_lsn = y.next_lsn + f.n /\ w.durable_lsn = y.next_lsn + f.n - 1
        /\ w.commit_lsn = y.next_lsn + f.n - 1 /\ w.pages = y.pages
    BY <1>1, RecoveredFields
  <2> HIDE DEF u, w
  <2>3. \A m, n \in Nat : base + m + n = base + (m + n) /\ base + m + n - 1 = base + (m + n - 1)
    OBVIOUS
  <2>4. /\ w.next_lsn = base + u.next_lsn /\ w.durable_lsn = base + u.durable_lsn
        /\ w.commit_lsn = base + u.commit_lsn
    BY SMTT(30), <1>0, <1>a, <2>1, <2>2, <2>3
  <2>5. Continues(b, base, u, w)
    BY <1>a, <1>b, <1>c, <2>2, <2>4 DEF Continues
  <2> QED BY <2>5 DEF u, w
<1>2. CASE f.tag = "page"
  <2>1. f.page \in Pages
    BY <1>2, FrameFields
  <2>2. /\ u.next_lsn = x.next_lsn + 1 /\ u.durable_lsn = x.next_lsn
        /\ u.commit_lsn = x.commit_lsn
        /\ u.pages = [x.pages EXCEPT ![f.page] = Append(@, x.next_lsn)]
    BY <1>2, RecoveredFields
  <2>3. /\ w.next_lsn = y.next_lsn + 1 /\ w.durable_lsn = y.next_lsn
        /\ w.commit_lsn = y.commit_lsn
        /\ w.pages = [y.pages EXCEPT ![f.page] = Append(@, y.next_lsn)]
    BY <1>2, RecoveredFields
  <2> HIDE DEF u, w
  <2>4. \A m \in Nat : base + m + 1 = base + (m + 1)
    OBVIOUS
  <2>5. /\ w.next_lsn = base + u.next_lsn /\ w.durable_lsn = base + u.durable_lsn
        /\ w.commit_lsn = base + u.commit_lsn
    BY <1>0, <1>a, <2>2, <2>3, <2>4
  <2>6. ASSUME NEW p \in Pages
        PROVE  Range(w.pages[p]) = Range(b.pages[p]) \cup {base + v : v \in Range(u.pages[p])}
    <3>1. CASE p = f.page
      <4>1. w.pages[p] = Append(y.pages[p], y.next_lsn) /\ y.pages[p] \in Seq(Nat)
        BY <1>0, <2>1, <2>3, <3>1
      <4>2. u.pages[p] = Append(x.pages[p], x.next_lsn) /\ x.pages[p] \in Seq(Nat)
        BY <1>0, <2>1, <2>2, <3>1
      <4>3. Range(w.pages[p]) = Range(y.pages[p]) \cup {base + x.next_lsn}
        BY <1>0, <1>a, <4>1, RangeOfAppend
      <4>4. Range(u.pages[p]) = Range(x.pages[p]) \cup {x.next_lsn}
        BY <1>0, <4>2, RangeOfAppend
      <4> QED BY <1>b, <4>3, <4>4
    <3>2. CASE p # f.page
      <4>1. w.pages[p] = y.pages[p] /\ u.pages[p] = x.pages[p]
        BY <1>0, <2>1, <2>2, <2>3, <3>2
      <4> QED BY <1>b, <4>1
    <3> QED BY <3>1, <3>2
  <2>7. Continues(b, base, u, w)
    BY <1>a, <1>c, <2>5, <2>6 DEF Continues
  <2> QED BY <2>7 DEF u, w
<1> QED BY <1>1, <1>2

\* A file of WAL and page frames only.
Plain(g) == g \in Seq(Frame) /\ \A i \in 1..Len(g) : g[i].tag \in {"wal", "page"}

\* One file behind another.
LEMMA Concatenated ==
    ASSUME NEW f \in Seq(Frame), NEW g \in Seq(Frame)
    PROVE  /\ f \o g \in Seq(Frame) /\ Len(f \o g) = Len(f) + Len(g)
           /\ \A i \in 1..Len(f) : (f \o g)[i] = f[i]
           /\ \A j \in 1..Len(g) : (f \o g)[Len(f) + j] = g[j]
           /\ \A k \in 0..Len(f) : At(f \o g, k) = At(f, k)
<1>1. /\ f \o g \in Seq(Frame) /\ Len(f \o g) = Len(f) + Len(g)
      /\ \A i \in 1..Len(f) : (f \o g)[i] = f[i]
      /\ \A j \in 1..Len(g) : (f \o g)[Len(f) + j] = g[j]
      /\ Len(f) \in Nat /\ Len(g) \in Nat
  OBVIOUS
<1> DEFINE c == f \o g
<1> HIDE DEF c
<1>2. c \in Seq(Frame) /\ Len(c) = Len(f) + Len(g) /\ \A i \in 1..Len(f) : c[i] = f[i]
  BY <1>1 DEF c
<1>3. ASSUME NEW k \in 0..Len(f) PROVE At(c, k) = At(f, k)
  <2>1. k \in 0..Len(c) /\ k <= Len(f)
    BY <1>1, <1>2
  <2>2. ASSUME NEW i \in 1..k PROVE c[i] = f[i]
    <3>1. i \in 1..Len(f)
      OBVIOUS
    <3> QED BY <1>2, <3>1
  <2> QED BY <1>2, <2>1, <2>2, AtOfPrefix
<1> QED BY <1>1, <1>3 DEF c

\* Recovering a file and then an overlay's frames continues the one by the other.
LEMMA CopyContinues ==
    ASSUME NEW f \in Seq(Frame), NEW g, Plain(g), NEW base \in Nat,
           Recover(f).durable_lsn = base, Recover(f).commit_lsn = base, NEW k \in 0..Len(g)
    PROVE  Continues(Recover(f), base, At(g, k), At(f \o g, Len(f) + k))
<1> DEFINE c == f \o g
           Ok(i) == Continues(Recover(f), base, At(g, i), At(c, Len(f) + i))
           T == {i \in Nat : i <= Len(g) => Ok(i)}
<1>0. g \in Seq(Frame) /\ \A i \in 1..Len(g) : g[i].tag \in {"wal", "page"}
  BY DEF Plain
<1>a. /\ c \in Seq(Frame) /\ Len(c) = Len(f) + Len(g)
      /\ \A j \in 1..Len(g) : c[Len(f) + j] = g[j]
      /\ \A i \in 0..Len(f) : At(c, i) = At(f, i)
      /\ Len(f) \in Nat /\ Len(g) \in Nat
  BY <1>0, Concatenated
<1> HIDE DEF c
<1>b. Recover(f) \in Inner /\ At(f, Len(f)) = Recover(f)
  BY RecoverType, AtSteps
<1>1. 0 \in T
  <2>1. At(g, 0) = Fresh
    BY <1>0, AtSteps
  <2>2. Len(f) + 0 \in 0..Len(f) /\ Len(f) + 0 = Len(f)
    BY <1>a
  <2>3. At(c, Len(f) + 0) = Recover(f)
    BY <1>a, <1>b, <2>2
  <2>4. /\ Fresh.next_lsn = 1 /\ Fresh.durable_lsn = 0 /\ Fresh.commit_lsn = 0
        /\ Fresh.floor = 0
    BY DEF Fresh
  <2>5. Recover(f).next_lsn = base + 1
    <3>1. Len(f) \in 0..Len(f)
      BY <1>a
    <3>2. Counted(Recover(f))
      BY <1>b, <3>1, AtCounted
    <3> QED BY <3>2 DEF Counted
  <2>6. ASSUME NEW p \in Pages
        PROVE  Range(Recover(f).pages[p])
                 = Range(Recover(f).pages[p]) \cup {base + v : v \in Range(Fresh.pages[p])}
    <3>1. Fresh.pages[p] = <<>>
      BY DEF Fresh
    <3>2. Range(<<>>) = {}
      BY DEF Range
    <3> QED BY <3>1, <3>2
  <2>7. base = base + 0
    OBVIOUS
  <2>8. Continues(Recover(f), base, Fresh, Recover(f))
    BY <2>4, <2>5, <2>6, <2>7 DEF Continues
  <2> QED BY <2>1, <2>3, <2>8
<1>2. ASSUME NEW i \in Nat, i \in T PROVE i + 1 \in T
  <2> SUFFICES ASSUME i + 1 <= Len(g) PROVE Ok(i + 1)
    OBVIOUS
  <2>1. /\ i + 1 \in 1..Len(g) /\ (i + 1) - 1 = i /\ i \in 0..Len(g)
        /\ Len(f) + (i + 1) \in 1..Len(c) /\ (Len(f) + (i + 1)) - 1 = Len(f) + i
        /\ Len(f) + i \in 0..Len(c)
    BY <1>a
  <2>2. /\ g[i + 1] \in Frame /\ g[i + 1].tag \in {"wal", "page"}
        /\ At(g, i + 1) = Recovered(At(g, i), g[i + 1]) /\ At(g, i) \in Inner
    BY <1>0, <2>1, AtSteps
  <2>3. /\ At(c, Len(f) + (i + 1)) = Recovered(At(c, Len(f) + i), c[Len(f) + (i + 1)])
        /\ At(c, Len(f) + i) \in Inner
    BY <1>a, <2>1, AtSteps
  <2>4. c[Len(f) + (i + 1)] = g[i + 1]
    BY <1>a, <2>1
  <2>5. Continues(Recover(f), base, At(g, i), At(c, Len(f) + i))
    BY <1>2, <2>1
  <2> QED BY <1>b, <2>2, <2>3, <2>4, <2>5, ContinuesStep
<1>3. k \in T
  <2> HIDE DEF T
  <2> QED BY <1>1, <1>2, NatInductionSet
<1> QED BY <1>3 DEF c

\* Where the log's end first reached base, nothing else had followed.
LEMMA ForkPoint ==
    ASSUME NEW s \in Seq(Frame), NEW n \in 0..Len(s), NEW base,
           At(s, n).commit_lsn = base,
           \A k \in 0..Len(s) : At(s, k).commit_lsn = base => n <= k
    PROVE  At(s, n).durable_lsn = base
<1>1. CASE n = 0
  BY <1>1, AtSteps DEF Fresh
<1>2. CASE n # 0
  <2>1. n \in 1..Len(s) /\ n - 1 \in 0..Len(s) /\ ~(n <= n - 1)
    BY <1>2
  <2>2. At(s, n - 1).commit_lsn # base
    BY <2>1
  <2>3. s[n] \in Frame /\ At(s, n - 1) \in Inner /\ At(s, n) = Recovered(At(s, n - 1), s[n])
    BY <2>1, AtSteps
  <2> DEFINE a == At(s, n - 1)
             f == s[n]
  <2> HIDE DEF a, f
  <2>4. a \in Inner /\ f \in Frame /\ At(s, n) = Recovered(a, f) /\ a.commit_lsn # base
    BY <2>2, <2>3 DEF a, f
  <2> DEFINE r == Recovered(a, f)
  <2>a. /\ f.tag = "page" => r.commit_lsn = a.commit_lsn
        /\ f.tag \notin {"wal", "page"} => r.commit_lsn = a.commit_lsn
        /\ f.tag = "wal" => /\ r.durable_lsn = a.next_lsn + f.n - 1
                            /\ r.commit_lsn = a.next_lsn + f.n - 1
    BY <2>4, RecoveredFields
  <2> HIDE DEF r
  <2>5. /\ f.tag # "wal" => r.commit_lsn = a.commit_lsn
        /\ f.tag = "wal" => r.durable_lsn = r.commit_lsn
    BY <2>a
  <2> QED BY <2>4, <2>5 DEF r
<1> QED BY <1>1, <1>2

-----------------------------------------------------------------------------
(* scan_wal.                                                                *)

\* LSN x is one of those the i-th frame was given.
Logged(s, i, x) ==
    /\ s[i].tag = "wal"
    /\ x \in At(s, i - 1).next_lsn .. At(s, i - 1).next_lsn + s[i].n - 1

\* The log holds a record with LSN x; with LSN x once shifted by base.
Holds(s, x) == \E i \in 1..Len(s) : Logged(s, i, x)
HoldsShifted(s, base, x) == \E j \in 1..Len(s) : \E y : Logged(s, j, y) /\ x = base + y

\* scan_wal returns the LSNs of WAL frames past `after`.
LEMMA ScanWalIs ==
    ASSUME NEW s, NEW after, NEW x
    PROVE  x \in ScanWal(s, after) <=> x > after /\ \E i \in 1..Len(s) : Logged(s, i, x)
  BY DEF ScanWal, Logged, At

\* They lie between the durable marks before and after the frame.
LEMMA LoggedBounds ==
    ASSUME NEW s \in Seq(Frame), NEW i \in 1..Len(s), NEW x, Logged(s, i, x)
    PROVE  /\ x \in Nat /\ i - 1 \in 0..Len(s) /\ i \in 0..Len(s)
           /\ At(s, i - 1).durable_lsn < x /\ x <= At(s, i).durable_lsn
           /\ At(s, i - 1).durable_lsn \in Nat /\ At(s, i).durable_lsn \in Nat
<1> DEFINE a == At(s, i - 1)
           b == At(s, i)
<1>1. /\ i - 1 \in 0..Len(s) /\ i \in 0..Len(s) /\ s[i] \in Frame
      /\ a \in Inner /\ b \in Inner /\ b = Recovered(a, s[i])
  BY AtSteps
<1>2. s[i].tag = "wal" /\ x \in a.next_lsn .. a.next_lsn + s[i].n - 1
  BY DEF Logged
<1>3. Counted(a)
  BY <1>1, AtCounted
<1> HIDE DEF a, b
<1>4. s[i].n \in Nat
  BY <1>1, <1>2, FrameFields
<1>5. b.durable_lsn = a.next_lsn + s[i].n - 1
  BY <1>1, <1>2, RecoveredFields
<1>6. a.durable_lsn \in Nat /\ b.durable_lsn \in Nat /\ a.next_lsn \in Nat
  BY <1>1, InnerFields
<1>7. a.next_lsn = a.durable_lsn + 1
  BY <1>3 DEF Counted
<1>8. x \in Nat /\ a.durable_lsn < x /\ x <= b.durable_lsn
  <2>1. \A d, m \in Nat : \A y \in d + 1 .. d + 1 + m - 1 :
           y \in Nat /\ d < y /\ y <= d + 1 + m - 1
    OBVIOUS
  <2> QED BY <1>2, <1>4, <1>5, <1>6, <1>7, <2>1
<1> QED BY <1>1, <1>6, <1>8 DEF a, b

\* The records of a file's first n frames are those at or below its durable mark
\* there.
LEMMA LoggedInPrefix ==
    ASSUME NEW s \in Seq(Frame), NEW n \in 0..Len(s), NEW i \in 1..Len(s), NEW x,
           Logged(s, i, x)
    PROVE  i <= n <=> x <= At(s, n).durable_lsn
<1>1. /\ x \in Nat /\ i - 1 \in 0..Len(s) /\ i \in 0..Len(s)
      /\ At(s, i - 1).durable_lsn < x /\ x <= At(s, i).durable_lsn
      /\ At(s, i - 1).durable_lsn \in Nat /\ At(s, i).durable_lsn \in Nat
  BY LoggedBounds
<1>2. At(s, n).durable_lsn \in Nat
  BY AtSteps, InnerFields
<1>3. CASE i <= n
  <2>1. At(s, i).durable_lsn <= At(s, n).durable_lsn
    BY <1>1, <1>3, AtExtends DEF Extends
  <2> QED BY <1>1, <1>2, <1>3, <2>1
<1>4. CASE ~(i <= n)
  <2>1. n <= i - 1
    BY <1>4
  <2>2. At(s, n).durable_lsn <= At(s, i - 1).durable_lsn
    BY <1>1, <2>1, AtExtends DEF Extends
  <2> QED BY <1>1, <1>2, <1>4, <2>2
<1> QED BY <1>3, <1>4

\* The records of a file and an overlay behind it: the file's, then the overlay's
\* shifted.
LEMMA LoggedInCopy ==
    ASSUME NEW f \in Seq(Frame), NEW g, Plain(g), NEW base \in Nat,
           Recover(f).durable_lsn = base, Recover(f).commit_lsn = base, NEW x
    PROVE  Holds(f \o g, x) <=> Holds(f, x) \/ HoldsShifted(g, base, x)
<1> DEFINE c == f \o g
           n == Len(f)
<1>0. g \in Seq(Frame)
  BY DEF Plain
<1>a. /\ c \in Seq(Frame) /\ Len(c) = n + Len(g) /\ n \in Nat /\ Len(g) \in Nat
      /\ \A i \in 1..n : c[i] = f[i]
      /\ \A j \in 1..Len(g) : c[n + j] = g[j]
      /\ \A i \in 0..n : At(c, i) = At(f, i)
  BY <1>0, Concatenated
<1>b. \A j \in 0..Len(g) : At(c, n + j).next_lsn = base + At(g, j).next_lsn
  BY CopyContinues DEF Continues
<1> HIDE DEF c, n
<1>1. ASSUME NEW i \in 1..n PROVE i \in 1..Len(c) /\ (Logged(c, i, x) <=> Logged(f, i, x))
  <2>1. c[i] = f[i] /\ i - 1 \in 0..n /\ i \in 1..Len(c)
    BY <1>a
  <2> QED BY <1>a, <2>1 DEF Logged
<1>2. ASSUME NEW j \in 1..Len(g)
      PROVE  n + j \in 1..Len(c)
             /\ (Logged(c, n + j, x) <=> \E y : Logged(g, j, y) /\ x = base + y)
  <2>1. /\ c[n + j] = g[j] /\ j - 1 \in 0..Len(g) /\ n + j \in 1..Len(c)
        /\ (n + j) - 1 = n + (j - 1)
    BY <1>a
  <2>2. At(c, (n + j) - 1).next_lsn = base + At(g, j - 1).next_lsn
    BY <1>b, <2>1
  <2>3. At(g, j - 1).next_lsn \in Nat /\ g[j] \in Frame
    BY <1>0, <2>1, AtSteps, InnerFields
  <2>4. CASE g[j].tag = "wal"
    <3>1. g[j].n \in Nat
      BY <2>3, <2>4, FrameFields
    <3> DEFINE a == At(g, j - 1).next_lsn
               m == g[j].n
    <3>2. \A p, q \in Nat : \A z : z \in base + p .. base + p + q - 1
             <=> \E y \in p .. p + q - 1 : z = base + y
      <4> SUFFICES ASSUME NEW p \in Nat, NEW q \in Nat, NEW z
                   PROVE  z \in base + p .. base + p + q - 1
                             <=> \E y \in p .. p + q - 1 : z = base + y
        OBVIOUS
      <4>1. ASSUME z \in base + p .. base + p + q - 1
            PROVE  z - base \in p .. p + q - 1 /\ z = base + (z - base)
        BY <4>1
      <4>2. ASSUME NEW y \in p .. p + q - 1, z = base + y
            PROVE  z \in base + p .. base + p + q - 1
        BY <4>2
      <4> QED BY <4>1, <4>2
    <3>3. a \in Nat /\ m \in Nat
      BY <2>3, <3>1
    <3>4. /\ Logged(c, n + j, x) <=> x \in base + a .. base + a + m - 1
          /\ \A y : Logged(g, j, y) <=> y \in a .. a + m - 1
      BY <2>1, <2>2, <2>4 DEF Logged
    <3> HIDE DEF a, m
    <3>5. x \in base + a .. base + a + m - 1 <=> \E y \in a .. a + m - 1 : x = base + y
      BY <3>2, <3>3
    <3> QED BY <2>1, <3>4, <3>5
  <2>5. CASE g[j].tag # "wal"
    BY <2>1, <2>5 DEF Logged
  <2> QED BY <2>1, <2>4, <2>5
<1>3. \A i \in 1..Len(c) : i \in 1..n \/ (i - n \in 1..Len(g) /\ i = n + (i - n))
  BY <1>a
<1>4. ASSUME NEW i \in 1..Len(c), Logged(c, i, x)
      PROVE  \/ \E k \in 1..n : Logged(f, k, x)
             \/ \E j \in 1..Len(g) : \E y : Logged(g, j, y) /\ x = base + y
  <2>1. CASE i \in 1..n
    BY <1>1, <1>4, <2>1
  <2>2. CASE i - n \in 1..Len(g) /\ i = n + (i - n)
    BY <1>2, <1>4, <2>2
  <2> QED BY <1>3, <2>1, <2>2
<1>5. (\E i \in 1..Len(c) : Logged(c, i, x))
        <=> \/ \E i \in 1..n : Logged(f, i, x)
            \/ \E j \in 1..Len(g) : \E y : Logged(g, j, y) /\ x = base + y
  BY <1>1, <1>2, <1>4
<1> QED BY <1>5 DEF c, n, Holds, HoldsShifted

\* scan_wal of a branch is that of the copy.
LEMMA CopyScans ==
    ASSUME NEW s \in Seq(Frame), NEW n \in 0..Len(s), NEW g, Plain(g), NEW base \in Nat,
           At(s, n).durable_lsn = base, At(s, n).commit_lsn = base, NEW l \in Nat
    PROVE  /\ l < base => ScanWal(SubSeq(s, 1, n) \o g, l)
                            = {x \in ScanWal(s, l) : x <= base}
                                 \cup {to_global(base, x) : x \in ScanWal(g, 0)}
           /\ ~(l < base) => ScanWal(SubSeq(s, 1, n) \o g, l)
                               = {to_global(base, x) : x \in ScanWal(g, to_local(base, l))}
<1> DEFINE f == SubSeq(s, 1, n)
           c == f \o g
           Own(x) == \E j \in 1..Len(g) : \E y : Logged(g, j, y) /\ x = base + y
           Old(x) == \E i \in 1..Len(f) : Logged(f, i, x)
<1>0. g \in Seq(Frame)
  BY DEF Plain
<1>1. /\ f \in Seq(Frame) /\ Len(f) = n /\ \A i \in 1..n : f[i] = s[i]
      /\ Recover(f).durable_lsn = base /\ Recover(f).commit_lsn = base
  BY PrefixType DEF At
<1> HIDE DEF f
<1>2. ASSUME NEW x PROVE x \in ScanWal(c, l) <=> x > l /\ (Old(x) \/ Own(x))
  <2>0. f \in Seq(Frame) /\ Recover(f).durable_lsn = base /\ Recover(f).commit_lsn = base
    BY <1>1
  <2>1. (\E i \in 1..Len(c) : Logged(c, i, x)) <=> Old(x) \/ Own(x)
    <3>1. Holds(c, x) <=> Holds(f, x) \/ HoldsShifted(g, base, x)
      BY <2>0, LoggedInCopy
    <3> HIDE DEF c
    <3> QED BY <3>1 DEF Holds, HoldsShifted
  <2> HIDE DEF c, Old, Own
  <2> QED BY <2>1, ScanWalIs
<1> HIDE DEF c
\* The parent's records in the copy are those at or below the fork.
<1>3. ASSUME NEW x
      PROVE  Old(x) <=> x <= base /\ \E i \in 1..Len(s) : Logged(s, i, x)
  <2>1. ASSUME NEW i \in 1..n PROVE Logged(f, i, x) <=> Logged(s, i, x)
    <3>1. i - 1 \in 0..n
      OBVIOUS
    <3>2. At(f, i - 1) = At(s, i - 1)
      BY <3>1, AtOfSubSeq DEF f
    <3> QED BY <1>1, <3>2 DEF Logged
  <2>2. ASSUME NEW i \in 1..Len(s), Logged(s, i, x)
        PROVE  i <= n <=> x <= base
    BY <2>2, LoggedInPrefix
  <2>3. \A i \in 1..n : i \in 1..Len(s) /\ i <= n
    OBVIOUS
  <2>4. \A i \in 1..Len(s) : i <= n => i \in 1..n
    OBVIOUS
  <2>5. ASSUME Old(x) PROVE x <= base /\ \E i \in 1..Len(s) : Logged(s, i, x)
    <3>1. PICK i \in 1..n : Logged(f, i, x)
      BY <1>1, <2>5
    <3>2. Logged(s, i, x) /\ i \in 1..Len(s) /\ i <= n
      BY <2>1, <2>3, <3>1
    <3> QED BY <2>2, <3>2
  <2>6. ASSUME x <= base, NEW i \in 1..Len(s), Logged(s, i, x) PROVE Old(x)
    <3>1. i \in 1..n
      BY <2>2, <2>4, <2>6
    <3> QED BY <1>1, <2>1, <2>6, <3>1
  <2> QED BY <2>5, <2>6
<1>4. ASSUME NEW j \in 1..Len(g), NEW y, Logged(g, j, y) PROVE y \in Nat /\ y > 0
  <2>1. /\ y \in Nat /\ At(g, j - 1).durable_lsn < y
        /\ At(g, j - 1).durable_lsn \in Nat
    BY <1>0, <1>4, LoggedBounds
  <2> QED BY <2>1
<1>a. \A a \in Nat : \A y \in ScanWal(g, a) :
         y \in Nat /\ y > a /\ \E j \in 1..Len(g) : Logged(g, j, y)
  BY <1>4, ScanWalIs
<1>b. ASSUME NEW i \in 1..Len(s), NEW x, Logged(s, i, x) PROVE x \in Nat
  BY <1>b, LoggedBounds
<1>5. ASSUME l < base
      PROVE  ScanWal(c, l) = {x \in ScanWal(s, l) : x <= base}
                                \cup {to_global(base, x) : x \in ScanWal(g, 0)}
  <2>1. ASSUME NEW x \in ScanWal(c, l)
        PROVE  \/ x \in ScanWal(s, l) /\ x <= base
               \/ \E y \in ScanWal(g, 0) : x = to_global(base, y)
    <3>1. x > l /\ (Old(x) \/ Own(x))
      BY <1>2
    <3>2. CASE Old(x)
      BY <1>3, <3>1, <3>2, ScanWalIs
    <3>3. CASE Own(x)
      <4>1. PICK j \in 1..Len(g) : \E y : Logged(g, j, y) /\ x = base + y
        BY <3>3
      <4>2. PICK y : Logged(g, j, y) /\ x = base + y
        BY <4>1
      <4>3. y > 0
        BY <1>4, <4>2
      <4>4. y \in ScanWal(g, 0)
        BY <4>2, <4>3, ScanWalIs
      <4> QED BY <4>2, <4>4 DEF to_global
    <3> QED BY <3>1, <3>2, <3>3
  <2>2. ASSUME NEW x \in ScanWal(s, l), x <= base PROVE x \in ScanWal(c, l)
    <3>1. x > l /\ \E i \in 1..Len(s) : Logged(s, i, x)
      BY ScanWalIs
    <3>2. Old(x)
      BY <1>3, <2>2, <3>1
    <3> HIDE DEF Old, Own
    <3> QED BY <1>2, <3>1, <3>2
  <2>3. ASSUME NEW y \in ScanWal(g, 0) PROVE to_global(base, y) \in ScanWal(c, l)
    <3>1. y \in Nat /\ y > 0 /\ \E j \in 1..Len(g) : Logged(g, j, y)
      BY <1>a
    <3>2. base + y > l
      BY <1>5, <3>1
    <3>3. Own(base + y)
      BY <3>1
    <3> HIDE DEF Old, Own
    <3> QED BY <1>2, <3>2, <3>3 DEF to_global
  <2> QED BY <2>1, <2>2, <2>3
<1>6. ASSUME ~(l < base)
      PROVE  ScanWal(c, l) = {to_global(base, x) : x \in ScanWal(g, to_local(base, l))}
  <2>0. to_local(base, l) = l - base /\ l - base \in Nat
    BY <1>6 DEF to_local
  <2>1. ASSUME NEW x \in ScanWal(c, l)
        PROVE  \E y \in ScanWal(g, l - base) : x = to_global(base, y)
    <3>1. x > l /\ (Old(x) \/ Own(x))
      BY <1>2
    <3>2. ~Old(x)
      <4> SUFFICES ASSUME Old(x) PROVE FALSE
        OBVIOUS
      <4>1. PICK i \in 1..Len(s) : Logged(s, i, x)
        BY <1>3
      <4>2. x <= base /\ x \in Nat
        BY <1>3, <1>b, <4>1
      <4> QED BY <1>6, <3>1, <4>2
    <3>3. PICK j \in 1..Len(g) : \E y : Logged(g, j, y) /\ x = base + y
      BY <3>1, <3>2
    <3>4. PICK y : Logged(g, j, y) /\ x = base + y
      BY <3>3
    <3>5. y \in Nat
      BY <1>4, <3>4
    <3>6. y > l - base
      BY <3>1, <3>4, <3>5
    <3>7. y \in ScanWal(g, l - base)
      BY <3>4, <3>6, ScanWalIs
    <3> QED BY <3>4, <3>7 DEF to_global
  <2>2. ASSUME NEW y \in ScanWal(g, l - base) PROVE to_global(base, y) \in ScanWal(c, l)
    <3>1. y \in Nat /\ y > l - base /\ \E j \in 1..Len(g) : Logged(g, j, y)
      BY <1>a, <2>0
    <3>2. base + y > l
      BY <2>0, <3>1
    <3>3. Own(base + y)
      BY <3>1
    <3> HIDE DEF Old, Own
    <3> QED BY <1>2, <3>2, <3>3 DEF to_global
  <2> QED BY <2>0, <2>1, <2>2
<1> QED BY <1>5, <1>6 DEF c, f

-----------------------------------------------------------------------------
(* get_page.                                                                *)

\* Versions of a page up to l.
UpTo(m, p, l) == {v \in Range(m.pages[p]) : v <= l}

\* get_page above the floor: the greatest of them.
LEMMA GetPageIs ==
    ASSUME NEW m \in Inner, Counted(m), NEW p \in Pages, NEW l \in Nat, m.floor <= l
    PROVE  /\ GetPage(m, p, l) = Max({0} \cup UpTo(m, p, l))
           /\ GetPage(m, p, l) \in {0} \cup UpTo(m, p, l) /\ GetPage(m, p, l) \in Nat
           /\ \A v \in UpTo(m, p, l) : v <= GetPage(m, p, l) /\ v \in Nat /\ v > 0
<1>0. m.floor \in Nat /\ m.durable_lsn \in Nat
  BY InnerFields
<1>1. GetPage(m, p, l) = Max({0} \cup UpTo(m, p, l))
  <2>1. ~(l < m.floor)
    BY <1>0
  <2> QED BY <2>1 DEF GetPage, NotFound, UpTo
<1>2. \A v \in UpTo(m, p, l) : v \in Nat /\ v > 0 /\ v <= l
  <2>1. \A v \in Range(m.pages[p]) : v \in 1 .. m.durable_lsn
    BY DEF Counted
  <2> QED BY <1>0, <2>1 DEF UpTo
<1> DEFINE T == {0} \cup UpTo(m, p, l)
<1>3. T \subseteq Nat /\ T # {} /\ \A x \in T : x <= l
  BY <1>2
<1>4. Max(T) \in T /\ \A y \in T : y <= Max(T)
  <2> HIDE DEF T
  <2> QED BY <1>3, MaxOfBounded
<1> QED BY <1>1, <1>2, <1>3, <1>4

\* get_page of a branch is that of the copy.
LEMMA CopyReads ==
    ASSUME NEW b \in Inner, NEW m \in Inner, NEW x \in Inner, NEW y \in Inner,
           NEW base \in Nat, b.durable_lsn = base, Counted(b), Counted(m), Counted(x), Counted(y),
           Extends(b, m), Continues(b, base, x, y), m.floor <= base,
           NEW l \in Nat, m.floor <= l, NEW p \in Pages
    PROVE  /\ l <= base => GetPage(y, p, l) = GetPage(m, p, l)
           /\ ~(l <= base) =>
                 GetPage(y, p, l)
                   = LET own == GetPage(x, p, to_local(base, l))
                     IN  IF own # NotFound THEN to_global(base, own) ELSE GetPage(m, p, base)
<1>0. /\ b.floor \in Nat /\ m.floor \in Nat /\ x.floor = 0 /\ y.floor = b.floor
      /\ b.floor <= m.floor
  BY InnerFields DEF Continues, Extends
<1>1. y.floor <= l
  BY <1>0
<1>2. \A v \in Range(b.pages[p]) : v \in Nat /\ 0 < v /\ v <= base
  BY DEF Counted
<1>3. \A v \in Range(x.pages[p]) : v \in Nat /\ 0 < v
  <2>1. x.durable_lsn \in Nat
    BY InnerFields
  <2> QED BY <2>1 DEF Counted
<1>4. /\ Range(b.pages[p]) \subseteq Range(m.pages[p])
      /\ \A v \in Range(m.pages[p]) : v \in Range(b.pages[p]) \/ v > base
  BY DEF Extends
<1>5. Range(y.pages[p]) = Range(b.pages[p]) \cup {base + v : v \in Range(x.pages[p])}
  BY DEF Continues
<1>m. \A v \in Range(m.pages[p]) : v \in Nat
  <2>1. m.durable_lsn \in Nat
    BY InnerFields
  <2> QED BY <2>1 DEF Counted
\* Up to the fork, parent and copy have the same versions: those at the fork.
<1>6. ASSUME NEW k \in Nat, k <= base
      PROVE  UpTo(m, p, k) = UpTo(b, p, k) /\ UpTo(y, p, k) = UpTo(b, p, k)
  <2>1. \A v \in Range(m.pages[p]) : v <= k => v \in Range(b.pages[p])
    <3> TAKE v \in Range(m.pages[p])
    <3> HAVE v <= k
    <3>1. v \in Nat
      BY <1>m
    <3>2. ~(v > base)
      BY <1>6, <3>1
    <3> QED BY <1>4, <3>2
  <2>2. UpTo(m, p, k) = UpTo(b, p, k)
    BY <1>4, <2>1 DEF UpTo
  <2>3. \A v \in Range(x.pages[p]) : ~(base + v <= k)
    <3> TAKE v \in Range(x.pages[p])
    <3>1. v \in Nat /\ 0 < v
      BY <1>3
    <3> QED BY <1>6, <3>1
  <2>4. UpTo(y, p, k) = UpTo(b, p, k)
    BY <1>5, <2>3 DEF UpTo
  <2> QED BY <2>2, <2>4
<1>7. ASSUME l <= base PROVE GetPage(y, p, l) = GetPage(m, p, l)
  <2>1. GetPage(y, p, l) = Max({0} \cup UpTo(y, p, l))
    BY <1>1, GetPageIs
  <2>2. GetPage(m, p, l) = Max({0} \cup UpTo(m, p, l))
    BY GetPageIs
  <2>3. UpTo(m, p, l) = UpTo(y, p, l)
    BY <1>6, <1>7
  <2> QED BY <2>1, <2>2, <2>3
<1>8. ASSUME ~(l <= base)
      PROVE  GetPage(y, p, l)
               = LET own == GetPage(x, p, to_local(base, l))
                 IN  IF own # NotFound THEN to_global(base, own) ELSE GetPage(m, p, base)
  <2>0. l - base \in Nat /\ to_local(base, l) = l - base
    BY <1>8 DEF to_local
  <2> DEFINE k   == l - base
             own == GetPage(x, p, k)
             got == GetPage(y, p, l)
  <2>1. /\ own \in {0} \cup UpTo(x, p, k) /\ own \in Nat
        /\ \A v \in UpTo(x, p, k) : v <= own /\ v \in Nat /\ v > 0
    <3>1. x.floor <= k
      BY <1>0, <2>0
    <3> QED BY <2>0, <3>1, GetPageIs
  <2>2. /\ got = Max({0} \cup UpTo(y, p, l))
        /\ got \in {0} \cup UpTo(y, p, l) /\ got \in Nat
        /\ \A v \in UpTo(y, p, l) : v <= got /\ v \in Nat /\ v > 0
    BY <1>1, GetPageIs
  <2>3. UpTo(y, p, l) = Range(b.pages[p]) \cup {base + v : v \in UpTo(x, p, k)}
    <3>1. \A v \in Range(b.pages[p]) : v <= l
      <4> TAKE v \in Range(b.pages[p])
      <4>1. v \in Nat /\ v <= base
        BY <1>2
      <4> QED BY <1>8, <4>1
    <3>2. \A v \in Range(x.pages[p]) : base + v <= l <=> v <= k
      <4> TAKE v \in Range(x.pages[p])
      <4>1. v \in Nat
        BY <1>3
      <4> QED BY <1>8, <4>1
    <3> HIDE DEF k
    <3> QED BY <1>5, <3>1, <3>2 DEF UpTo
  <2> HIDE DEF own, got
  <2>4. CASE own # 0
    <3>1. own \in UpTo(x, p, k) /\ own > 0
      BY <2>1, <2>4
    <3> HIDE DEF k
    <3>2. base + own <= got
      BY <2>2, <2>3, <3>1
    <3>3. got <= base + own
      <4>1. CASE got = 0
        BY <2>1, <4>1
      <4>2. CASE got \in Range(b.pages[p])
        <5>1. got <= base
          BY <1>2, <4>2
        <5> QED BY <2>1, <2>2, <5>1
      <4>3. CASE got \in {base + v : v \in UpTo(x, p, k)}
        <5>1. PICK v \in UpTo(x, p, k) : got = base + v
          BY <4>3
        <5>2. v <= own /\ v \in Nat
          BY <2>1
        <5> QED BY <2>1, <5>1, <5>2
      <4> QED BY <2>2, <2>3, <4>1, <4>2, <4>3
    <3>4. got = base + own
      BY <2>1, <2>2, <3>2, <3>3
    <3> QED BY <2>0, <2>4, <3>4 DEF own, got, k, NotFound, to_global
  <2>5. CASE own = 0
    <3>1. UpTo(x, p, k) = {}
      <4> SUFFICES ASSUME NEW v \in UpTo(x, p, k) PROVE FALSE
        OBVIOUS
      <4>1. v <= 0 /\ v \in Nat /\ v > 0
        BY <2>1, <2>5
      <4> QED BY <4>1
    <3> HIDE DEF k
    <3>2. UpTo(y, p, l) = Range(b.pages[p])
      BY <2>3, <3>1
    <3>3. UpTo(m, p, base) = Range(b.pages[p])
      <4>1. base <= base
        OBVIOUS
      <4>2. UpTo(m, p, base) = UpTo(b, p, base)
        BY <1>6, <4>1
      <4> QED BY <1>2, <4>2 DEF UpTo
    <3>4. GetPage(m, p, base) = Max({0} \cup UpTo(m, p, base))
      BY GetPageIs
    <3>5. got = GetPage(m, p, base)
      BY <2>2, <3>2, <3>3, <3>4
    <3> QED BY <2>0, <2>5, <3>5 DEF own, got, k, NotFound
  <2> QED BY <2>4, <2>5
<1> QED BY <1>7, <1>8

-----------------------------------------------------------------------------
(* Every branch forks where a commit ended.                                 *)

\* A branch frame names the end of the log after some frame before it.
Forked(s) ==
    \A i \in 1..Len(s) : s[i].tag = "branch" =>
        \E k \in 0..(i - 1) : s[i].base = At(s, k).commit_lsn

\* What the file holds: the acknowledged frames or bytes torn from them, behind them
\* at most one whole frame, of an operation on memory as it still is, and the rest
\* of a longer one.
Leftover ==
    /\ Len(file) <= end + 2
    /\ \A i \in 1..Len(file) : i <= end => file[i] \in {acked[i], Torn}
    /\ Len(file) > end => file[end + 1] \in Operations \cup {Torn}
    /\ Len(file) = end + 2 => file[end + 2] = Torn
    /\ step = "written" /\ Len(file) > end => file[end + 1] \in {writing, Torn}

ForkInv == LocalInv /\ Leftover /\ Forked(acked)

\* A file that ends in at most one frame more than another, and that a fork of it.
LEMMA ForkedGrows ==
    ASSUME NEW s \in Seq(Frame), NEW t \in Seq(Frame), Forked(t),
           \A i \in 1..Len(s) : i <= Len(t) => s[i] = t[i],
           \A i \in 1..Len(s) : i > Len(t) =>
              i = Len(t) + 1
              /\ (s[i].tag = "branch" => \E k \in 0..Len(t) : s[i].base = At(t, k).commit_lsn)
    PROVE  Forked(s)
<1>0. Len(s) \in Nat /\ Len(t) \in Nat
  OBVIOUS
<1> SUFFICES ASSUME NEW i \in 1..Len(s), s[i].tag = "branch"
             PROVE  \E k \in 0..(i - 1) : s[i].base = At(s, k).commit_lsn
  BY DEF Forked
<1>1. ASSUME NEW k \in 0..(i - 1), k <= Len(t) PROVE At(s, k) = At(t, k)
  <2>1. k \in 0..Len(s)
    OBVIOUS
  <2>2. ASSUME NEW j \in 1..k PROVE s[j] = t[j]
    <3>1. j \in 1..Len(s) /\ j <= Len(t)
      BY <1>0, <1>1
    <3> QED BY <3>1
  <2> QED BY <1>1, <2>1, <2>2, AtOfPrefix
<1>2. CASE i <= Len(t)
  <2>1. s[i] = t[i] /\ i \in 1..Len(t)
    BY <1>2
  <2>2. PICK k \in 0..(i - 1) : t[i].base = At(t, k).commit_lsn
    BY <2>1 DEF Forked
  <2>3. k <= Len(t)
    BY <1>0, <1>2
  <2> QED BY <1>1, <2>1, <2>2, <2>3
<1>3. CASE ~(i <= Len(t))
  <2>1. i > Len(t)
    BY <1>0, <1>3
  <2>2. i = Len(t) + 1
    BY <2>1
  <2>3. PICK k \in 0..Len(t) : s[i].base = At(t, k).commit_lsn
    BY <2>1
  <2>4. k \in 0..(i - 1) /\ k <= Len(t)
    BY <1>0, <2>2
  <2> QED BY <1>1, <2>3, <2>4
<1> QED BY <1>2, <1>3

\* A branch operation forks at a commit mark.
LEMMA OperationsFork ==
    ASSUME TypeOK, NEW f \in Operations, f.tag = "branch"
    PROVE  \E k \in 0..Len(acked) : f.base = At(acked, k).commit_lsn
<1>1. f \in CreateBranch
  BY DEF Operations, AppendWal, PutPage, AcquireFence, SetRetentionFloor, DeleteBranch
<1>2. f.base \in CommitMarks
  BY <1>1 DEF CreateBranch
<1> QED BY <1>2 DEF CommitMarks, At

\* Operations are made of memory and the acknowledged frames.
LEMMA OperationsSame ==
    UNCHANGED <<mem, acked>> => Operations' = Operations
  BY DEF Operations, AcquireFence, SetRetentionFloor, CreateBranch, DeleteBranch, CommitMarks

\* An append keeps what lies before the end.
LEMMA PaddedKeeps ==
    ASSUME LocalInv, Leftover, NEW f, NEW g \in FileSeq,
           g = [i \in 1 .. end |-> IF i \in DOMAIN file THEN file[i] ELSE Torn] \o <<f>>
    PROVE  /\ Len(g) = end + 1 /\ g[end + 1] = f
           /\ \A i \in 1..end : g[i] \in {acked[i], Torn}
<1> DEFINE kept == [i \in 1 .. end |-> IF i \in DOMAIN file THEN file[i] ELSE Torn]
<1>1. file \in FileSeq /\ end \in Nat
  BY DEF LocalInv, TypeOK, FileSeq
<1>2. DOMAIN file = 1..Len(file)
  BY <1>1 DEF FileSeq
<1>3. kept \in FileSeq /\ Len(kept) = end
  BY <1>1, PaddedType DEF FileSeq
<1>4. \A i \in 1..end : kept[i] \in {acked[i], Torn}
  <2> TAKE i \in 1..end
  <2>0. \A j \in 1..Len(file) : j <= end => file[j] \in {acked[j], Torn}
    BY DEF Leftover
  <2>1. i \in DOMAIN file => file[i] \in {acked[i], Torn}
    BY <1>1, <1>2, <2>0
  <2> QED BY <2>1
<1> HIDE DEF kept
<1>5. g = kept \o <<f>>
  BY DEF kept
<1> QED BY <1>1, <1>3, <1>4, <1>5 DEF FileSeq

\* Nothing is left over of an empty file.
LEMMA InitFork == Init => ForkInv
<1> SUFFICES ASSUME Init PROVE ForkInv
  OBVIOUS
<1>1. file = <<>> /\ acked = <<>> /\ end = 0 /\ step = "idle" /\ Len(<<>>) = 0
  BY DEF Init
<1>2. Leftover
  BY <1>1 DEF Leftover
<1>3. Forked(acked)
  BY <1>1 DEF Forked
<1> QED BY <1>2, <1>3, InitLocal DEF ForkInv

\* What each step leaves in the file.
LEMMA NextLeftover == ForkInv /\ [Next]_vars => Leftover'
<1> SUFFICES ASSUME ForkInv, [Next]_vars PROVE Leftover'
  OBVIOUS
<1>0. LocalInv /\ Leftover /\ TypeOK /\ LocalInv'
  BY NextLocal DEF ForkInv, LocalInv
<1>a. /\ file \in FileSeq /\ acked \in Seq(Frame) /\ end \in Nat /\ end = Len(acked)
      /\ file' \in FileSeq /\ Len(file) \in Nat
      /\ step # "idle" => writing \in Operations
  BY <1>0 DEF LocalInv, TypeOK, FileSeq
<1>l. /\ Len(file) <= end + 2
      /\ \A i \in 1..Len(file) : i <= end => file[i] \in {acked[i], Torn}
      /\ Len(file) > end => file[end + 1] \in Operations \cup {Torn}
      /\ Len(file) = end + 2 => file[end + 2] = Torn
      /\ step = "written" /\ Len(file) > end => file[end + 1] \in {writing, Torn}
  BY <1>0 DEF Leftover
<1>1. CASE UNCHANGED vars
  <2>1. Operations' = Operations /\ UNCHANGED <<file, end, acked, step, writing>>
    BY <1>1, OperationsSame DEF vars
  <2> QED BY <1>l, <2>1 DEF Leftover
<1>2. ASSUME NEW f \in Operations, StartAppend(f)
      PROVE  Leftover'
  <2>1. /\ Len(file') = end + 1 /\ file'[end + 1] = Torn
        /\ \A i \in 1..end : file'[i] \in {acked[i], Torn}
    <3>1. file' = [i \in 1 .. end |-> IF i \in DOMAIN file THEN file[i] ELSE Torn] \o <<Torn>>
      BY <1>2 DEF StartAppend
    <3> QED BY <1>0, <1>a, <3>1, PaddedKeeps
  <2>2. end' = end /\ acked' = acked /\ step' = "writing"
    BY <1>2 DEF StartAppend
  <2>3. end + 1 <= end + 2 /\ end + 1 # end + 2
    BY <1>a
  <2>4. \A i \in 1..(end + 1) : i <= end => i \in 1..end
    BY <1>a
  <2> QED BY <2>1, <2>2, <2>3, <2>4 DEF Leftover
<1>3. CASE WriteAll
  <2> DEFINE whole == [i \in 1 .. end |-> IF i \in DOMAIN file THEN file[i] ELSE Torn]
                        \o <<writing>>
  <2>0. whole \in FileSeq
    <3>1. [i \in 1 .. end |-> IF i \in DOMAIN file THEN file[i] ELSE Torn] \in FileSeq
      BY <1>a, PaddedType
    <3>2. <<writing>> \in FileSeq
      BY <1>0, <1>3 DEF WriteAll, TypeOK, FileSeq
    <3>3. \A s, t \in FileSeq : s \o t \in FileSeq
      BY DEF FileSeq
    <3> QED BY <3>1, <3>2, <3>3
  <2>1. /\ Len(whole) = end + 1 /\ whole[end + 1] = writing
        /\ \A i \in 1..end : whole[i] \in {acked[i], Torn}
    BY <1>0, <2>0, PaddedKeeps
  <2>2. file' = whole \/ file' = Append(whole, Torn)
    BY <1>3 DEF WriteAll
  <2> HIDE DEF whole
  <2>3. /\ Append(whole, Torn) \in FileSeq /\ Len(Append(whole, Torn)) = end + 2
        /\ Append(whole, Torn)[end + 2] = Torn
        /\ \A i \in 1..(end + 1) : Append(whole, Torn)[i] = whole[i]
    BY <1>a, <2>0, <2>1 DEF FileSeq
  <2>4. /\ Len(file') \in {end + 1, end + 2} /\ file'[end + 1] = writing
        /\ Len(file') = end + 2 => file'[end + 2] = Torn
        /\ \A i \in 1..end : file'[i] \in {acked[i], Torn}
    BY <1>a, <2>1, <2>2, <2>3
  <2>5. /\ end' = end /\ acked' = acked /\ writing' = writing /\ mem' = mem
        /\ writing \in Operations
    BY <1>a, <1>3 DEF WriteAll
  <2>6. Operations' = Operations
    BY <2>5, OperationsSame
  <2>7. Len(file') <= end + 2 /\ \A i \in 1..Len(file') : i <= end => i \in 1..end
    BY <1>a, <2>4
  <2> QED BY <2>4, <2>5, <2>6, <2>7 DEF Leftover
<1>4. CASE AppendFails
  <2>1. UNCHANGED <<file, end, acked, mem>> /\ step' = "idle"
    BY <1>4 DEF AppendFails
  <2>2. Operations' = Operations
    BY <2>1, OperationsSame
  <2> QED BY <1>l, <2>1, <2>2 DEF Leftover
<1>5. CASE AppendOk
  <2>1. /\ acked' = Append(acked, writing) /\ end' = end + 1 /\ step' = "idle"
        /\ file' = file /\ step = "written"
    BY <1>5 DEF AppendOk
  <2>2. writing \in Frame
    BY <1>0, <2>1 DEF TypeOK
  <2>3. acked'[end + 1] = writing /\ \A i \in 1..end : acked'[i] = acked[i]
    BY <1>a, <2>1, <2>2
  <2>4. Len(file) <= (end + 1) + 2 /\ Len(file) # (end + 1) + 2
    BY <1>a, <1>l
  <2>5. ASSUME NEW i \in 1..Len(file), i <= end + 1 PROVE file[i] \in {acked'[i], Torn}
    <3>1. CASE i = end + 1
      <4>1. Len(file) > end
        BY <1>a, <3>1
      <4> QED BY <1>l, <2>1, <2>3, <3>1, <4>1
    <3>2. CASE i # end + 1
      <4>1. i \in 1..end /\ i <= end
        BY <1>a, <2>5, <3>2
      <4> QED BY <1>l, <2>3, <4>1
    <3> QED BY <3>1, <3>2
  <2>6. Len(file) > end + 1 => file[(end + 1) + 1] = Torn
    <3> SUFFICES ASSUME Len(file) > end + 1 PROVE file[(end + 1) + 1] = Torn
      OBVIOUS
    <3>1. Len(file) = end + 2 /\ (end + 1) + 1 = end + 2
      BY <1>a, <1>l
    <3> QED BY <1>l, <3>1
  <2> QED BY <2>1, <2>4, <2>5, <2>6 DEF Leftover
<1>6. CASE OpenRead
  <2>1. UNCHANGED <<file, end, acked, mem, step, writing>>
    BY <1>6 DEF OpenRead
  <2>2. Operations' = Operations
    BY <2>1, OperationsSame
  <2> QED BY <1>l, <2>1, <2>2 DEF Leftover
<1>7. CASE OpenHeal
  <2>1. opener.end \in Nat
    BY <1>0 DEF TypeOK
  <2> DEFINE m == Min({opener.end, Len(file)})
  <2>2. m \in {opener.end, Len(file)} /\ m <= Len(file)
    <3>1. {opener.end, Len(file)} \subseteq Nat /\ {opener.end, Len(file)} # {}
      BY <1>a, <2>1
    <3> QED BY <3>1, MinOfNats
  <2> HIDE DEF m
  <2>3. m \in 0..Len(file)
    BY <1>a, <2>1, <2>2
  <2>4. file' = SubSeq(file, 1, m)
    BY <1>7 DEF OpenHeal, m
  <2>5. Len(file') = m /\ \A i \in 1..m : file'[i] = file[i] /\ i \in 1..Len(file)
    BY <1>a, <2>3, <2>4, PrefixType DEF FileSeq
  <2>6. UNCHANGED <<end, acked, mem, step, writing>>
    BY <1>7 DEF OpenHeal
  <2>7. Operations' = Operations
    BY <2>6, OperationsSame
  <2>8. m <= end + 2 /\ (m = end + 2 => Len(file) = end + 2) /\ (m > end => Len(file) > end)
    BY <1>a, <1>l, <2>3
  <2>9. (m > end => end + 1 \in 1..m) /\ (m = end + 2 => end + 2 \in 1..m)
    BY <1>a, <2>3
  <2> QED BY <1>l, <2>5, <2>6, <2>7, <2>8, <2>9 DEF Leftover
<1>8. CASE CrashAndReopen
  <2>1. /\ file' = acked' /\ end' = Len(file') /\ step' = "idle"
    BY <1>8 DEF CrashAndReopen
  <2>2. Len(file') \in Nat
    BY <1>a DEF FileSeq
  <2>3. /\ Len(file') <= Len(file') + 2 /\ ~(Len(file') > Len(file'))
        /\ Len(file') # Len(file') + 2
    BY <2>2
  <2> QED BY <2>1, <2>3 DEF Leftover
<1> QED
  BY <1>1, <1>2, <1>3, <1>4, <1>5, <1>6, <1>7, <1>8 DEF Next, Rest

\* What a crash leaves to recover: acknowledged frames, and perhaps one more.
LEMMA CrashForks ==
    ASSUME ForkInv, NEW q \in 0..Len(file)
    PROVE  Forked(GoodPrefix(SubSeq(file, 1, q)))
<1>0. /\ file \in FileSeq /\ acked \in Seq(Frame) /\ end = Len(acked) /\ TypeOK
      /\ Len(file) \in Nat /\ end \in Nat /\ Forked(acked)
  BY DEF ForkInv, LocalInv, TypeOK, FileSeq
<1>l. /\ Len(file) <= end + 2
      /\ \A i \in 1..Len(file) : i <= end => file[i] \in {acked[i], Torn}
      /\ Len(file) > end => file[end + 1] \in Operations \cup {Torn}
      /\ Len(file) = end + 2 => file[end + 2] = Torn
  BY DEF ForkInv, Leftover
<1> DEFINE f == SubSeq(file, 1, q)
<1>1. f \in FileSeq /\ Len(f) = q /\ \A i \in 1..q : f[i] = file[i]
  BY <1>0, PrefixType DEF FileSeq
<1> HIDE DEF f
<1>2. PICK n \in 0..Len(f) : GoodPrefix(f) = SubSeq(f, 1, n) /\ \A i \in 1..n : f[i] # Torn
  BY <1>1, GoodPrefixIs
<1> DEFINE good == GoodPrefix(f)
<1>3. good \in Seq(Frame)
  BY <1>1, GoodPrefixType
<1>4. Len(good) = n /\ \A i \in 1..n : good[i] = f[i]
  BY <1>1, <1>2, PrefixType DEF FileSeq
<1> HIDE DEF good
<1>5. ASSUME NEW i \in 1..n PROVE good[i] = file[i] /\ file[i] # Torn /\ i \in 1..Len(file)
  BY <1>1, <1>2, <1>4
<1>6. ASSUME NEW i \in 1..Len(good), i <= Len(acked) PROVE good[i] = acked[i]
  <2>1. i \in 1..n
    BY <1>4
  <2> QED BY <1>0, <1>5, <1>6, <1>l, <2>1
<1>7. ASSUME NEW i \in 1..Len(good), i > Len(acked)
      PROVE  /\ i = Len(acked) + 1
             /\ good[i].tag = "branch" =>
                  \E k \in 0..Len(acked) : good[i].base = At(acked, k).commit_lsn
  <2>1. i \in 1..n
    BY <1>4
  <2>2. good[i] = file[i] /\ file[i] # Torn /\ i \in 1..Len(file)
    BY <1>5, <2>1
  <2>3. i # end + 2
    <3> SUFFICES ASSUME i = end + 2 PROVE FALSE
      OBVIOUS
    <3>1. Len(file) = end + 2
      BY <1>0, <1>l, <2>2
    <3> QED BY <1>l, <2>2, <3>1
  <2>4. i = end + 1 /\ Len(file) > end
    BY <1>0, <1>7, <1>l, <2>2, <2>3
  <2>5. good[i] \in Operations
    BY <1>l, <2>2, <2>4
  <2> QED BY <1>0, <2>4, <2>5, OperationsFork
<1>8. Forked(good)
  BY <1>0, <1>3, <1>6, <1>7, ForkedGrows
<1> QED BY <1>8 DEF good, f

\* Every step keeps the branches' forks.
LEMMA NextFork == ForkInv /\ [Next]_vars => ForkInv'
<1> SUFFICES ASSUME ForkInv, [Next]_vars PROVE ForkInv'
  OBVIOUS
<1>0. LocalInv /\ Leftover /\ TypeOK /\ Forked(acked) /\ LocalInv' /\ Leftover'
  BY NextLocal, NextLeftover DEF ForkInv, LocalInv
<1>a. /\ file \in FileSeq /\ acked \in Seq(Frame) /\ end \in Nat /\ Len(file) \in Nat
      /\ step # "idle" => writing \in Operations
  BY <1>0 DEF LocalInv, TypeOK, FileSeq
<1>1. CASE UNCHANGED acked
  BY <1>0, <1>1 DEF ForkInv
<1>2. CASE AppendOk
  <2>1. acked' = Append(acked, writing) /\ writing \in Operations /\ writing \in Frame
    BY <1>0, <1>2, <1>a DEF AppendOk, TypeOK
  <2> DEFINE s == Append(acked, writing)
  <2>2. /\ s \in Seq(Frame) /\ Len(s) = Len(acked) + 1 /\ s[Len(acked) + 1] = writing
        /\ \A i \in 1..Len(acked) : s[i] = acked[i]
    BY <1>a, <2>1
  <2> HIDE DEF s
  <2>3. ASSUME NEW i \in 1..Len(s), i <= Len(acked) PROVE s[i] = acked[i]
    BY <1>a, <2>2, <2>3
  <2>4. ASSUME NEW i \in 1..Len(s), i > Len(acked)
        PROVE  /\ i = Len(acked) + 1
               /\ s[i].tag = "branch" =>
                    \E k \in 0..Len(acked) : s[i].base = At(acked, k).commit_lsn
    <3>1. i = Len(acked) + 1
      BY <1>a, <2>2, <2>4
    <3> QED BY <1>0, <2>1, <2>2, <3>1, OperationsFork
  <2>5. Forked(s)
    BY <1>0, <1>a, <2>2, <2>3, <2>4, ForkedGrows
  <2>6. acked' = s
    BY <2>1 DEF s
  <2> QED BY <1>0, <2>5, <2>6 DEF ForkInv
<1>3. CASE CrashAndReopen
  <2> DEFINE m == Min({end, Len(file)})
  <2>1. m \in 0..Len(file)
    <3>1. {end, Len(file)} \subseteq Nat /\ {end, Len(file)} # {}
      BY <1>a
    <3>2. m \in {end, Len(file)} /\ m <= Len(file)
      BY <3>1, MinOfNats
    <3> HIDE DEF m
    <3> QED BY <1>a, <3>2
  <2>2. acked' = GoodPrefix(file) \/ acked' = GoodPrefix(SubSeq(file, 1, m))
    BY <1>3 DEF CrashAndReopen
  <2> HIDE DEF m
  <2>3. file = SubSeq(file, 1, Len(file)) /\ Len(file) \in 0..Len(file)
    BY <1>a DEF FileSeq
  <2>4. Forked(GoodPrefix(file)) /\ Forked(GoodPrefix(SubSeq(file, 1, m)))
    BY <2>1, <2>3, CrashForks
  <2>5. Forked(acked')
    BY <2>2, <2>4
  <2> QED BY <1>0, <2>5 DEF ForkInv
<1> QED
  BY <1>1, <1>2, <1>3
  DEF Next, Rest, vars, StartAppend, WriteAll, AppendFails, OpenRead, OpenHeal

\* A branch that memory knows forks where a commit of the log ended.
LEMMA BranchesForked ==
    ASSUME NEW s \in Seq(Frame), Forked(s), NEW b \in Recover(s).branches
    PROVE  \E k \in 0..Len(s) : b.base = At(s, k).commit_lsn
<1> DEFINE Mark(x) == \E k \in 0..Len(s) : x.base = At(s, k).commit_lsn
           T == {i \in Nat : i <= Len(s) => \A x \in At(s, i).branches : Mark(x)}
<1>0. Len(s) \in Nat
  OBVIOUS
<1>1. 0 \in T
  <2>1. At(s, 0).branches = {}
    BY AtSteps DEF Fresh
  <2> QED BY <2>1
<1>2. ASSUME NEW i \in Nat, i \in T PROVE i + 1 \in T
  <2> SUFFICES ASSUME i + 1 <= Len(s), NEW x \in At(s, i + 1).branches PROVE Mark(x)
    OBVIOUS
  <2>1. i + 1 \in 1..Len(s) /\ (i + 1) - 1 = i /\ i \in 0..Len(s)
    BY <1>0
  <2> DEFINE m == At(s, i)
             f == s[i + 1]
             r == Recovered(m, f)
  <2>2. f \in Frame /\ m \in Inner /\ At(s, i + 1) = r
    BY <2>1, AtSteps
  <2>3. \A y \in m.branches : Mark(y)
    BY <1>2, <2>1
  <2>4. /\ f.tag = "branch" => r.branches = m.branches \cup {[id |-> f.id, base |-> f.base]}
        /\ f.tag # "branch" => r.branches \subseteq m.branches
    <3> HIDE DEF m, f
    <3> QED BY <2>2, RecoveredFields
  <2>5. f.tag = "branch" => \E k \in 0..i : f.base = At(s, k).commit_lsn
    BY <2>1 DEF Forked
  <2>6. \A k \in 0..i : k \in 0..Len(s)
    BY <1>0, <2>1
  <2> HIDE DEF m, f, r
  <2>7. CASE x \in m.branches
    BY <2>3, <2>7
  <2>8. CASE x \notin m.branches
    <3>1. f.tag = "branch" /\ x = [id |-> f.id, base |-> f.base]
      BY <2>2, <2>4, <2>8
    <3>2. x.base = f.base
      BY <3>1
    <3>3. PICK k \in 0..i : f.base = At(s, k).commit_lsn
      BY <2>5, <3>1
    <3>4. k \in 0..Len(s)
      BY <2>6
    <3> QED BY <3>2, <3>3, <3>4
  <2> QED BY <2>7, <2>8
<1>3. Len(s) \in T
  <2> HIDE DEF T
  <2> QED BY <1>0, <1>1, <1>2, NatInductionSet
<1>4. At(s, Len(s)) = Recover(s)
  BY AtSteps
<1> QED BY <1>0, <1>3, <1>4

\* An overlay that moves no floor holds WAL and page frames, and shifting leaves
\* them as they are.
LEMMA OverlayPlain ==
    ASSUME ~OverlayFloors, NEW frames \in Overlays, NEW base
    PROVE  Plain(frames) /\ Shifted(base, frames) = frames
<1>1. PICK n \in 0 .. MaxOverlay : frames \in [1 .. n -> OverlayFrames]
  BY DEF Overlays
<1>2. \A f \in OverlayFrames : f \in Frame /\ f.tag \in {"wal", "page"}
  <2> TAKE f \in OverlayFrames
  <2>1. CASE f \in {AppendWal(k) : k \in 1 .. MaxRecords}
    <3>1. PICK k \in 1 .. MaxRecords : f = AppendWal(k)
      BY <2>1
    <3>2. k \in Nat \ {0}
      BY LocalFileBounds
    <3> QED BY <3>1, <3>2 DEF AppendWal, Frame
  <2>2. CASE f \in {PutPage(p) : p \in Pages}
    BY <2>2 DEF PutPage, Frame
  <2> QED BY <2>1, <2>2 DEF OverlayFrames
<1>3. n \in Nat
  BY BranchBounds
<1>4. frames \in Seq(Frame) /\ Len(frames) = n /\ DOMAIN frames = 1..n
  <2>1. frames \in [1..n -> Frame]
    BY <1>1, <1>2
  <2> QED BY <1>3, <2>1
<1>5. \A i \in 1..n : frames[i].tag \in {"wal", "page"}
  BY <1>1, <1>2
<1>6. Shifted(base, frames) = [i \in 1..n |-> frames[i]]
  BY <1>4, <1>5 DEF Shifted
<1>7. [i \in 1..n |-> frames[i]] = frames
  BY <1>1
<1> QED BY <1>4, <1>5, <1>6, <1>7 DEF Plain

\* A branch of a well-forked log is a private copy.
LEMMA ForkedIsCopy == ~OverlayFloors /\ ForkInv => BranchIsPrivateCopy
<1> SUFFICES ASSUME ~OverlayFloors, ForkInv,
                    NEW b \in mem.branches, mem.floor <= b.base, NEW frames \in Overlays
             PROVE  LET ov   == OverlayInner[frames]
                        copy == FileAt(b.base) \o Shifted(b.base, frames)
                        line == Recover(copy)
                    IN  /\ BranchMarks(b.base, ov) = <<line.durable_lsn, line.commit_lsn>>
                        /\ \A l \in mem.floor .. line.durable_lsn :
                              /\ BranchScanWal(b.base, frames, l) = ScanWal(copy, l)
                              /\ \A p \in Pages :
                                    BranchGetPage(b.base, ov, p, l) = GetPage(line, p, l)
  BY DEF BranchIsPrivateCopy
<1>0. /\ acked \in Seq(Frame) /\ mem = Recover(acked) /\ mem \in Inner /\ Forked(acked)
      /\ Len(acked) \in Nat
  BY DEF ForkInv, LocalInv, TypeOK, MemoryIsReplay
<1> DEFINE base == b.base
           D    == {k \in 0 .. Len(acked) : At(acked, k).commit_lsn = base}
           n    == Min(D)
           f    == SubSeq(acked, 1, n)
           c    == f \o frames
           ov   == Recover(frames)
           line == Recover(c)
           fork == At(acked, n)
<1>1. base \in Nat /\ mem.floor \in Nat
  BY <1>0, InnerFields
<1>2. n \in D /\ \A k \in D : n <= k
  <2>1. D # {} /\ D \subseteq Nat
    BY <1>0, BranchesForked
  <2> HIDE DEF D
  <2> QED BY <2>1, MinOfNats
<1>3. FileAt(base) = f
  BY DEF FileAt, At
<1> HIDE DEF n
<1>4. n \in 0..Len(acked) /\ fork.commit_lsn = base
      /\ \A k \in 0..Len(acked) : At(acked, k).commit_lsn = base => n <= k
  BY <1>2
<1> HIDE DEF base, D
<1>5. fork.durable_lsn = base
  BY <1>0, <1>4, ForkPoint
<1>6. Plain(frames) /\ Shifted(base, frames) = frames
  BY OverlayPlain
<1>7. frames \in Seq(Frame)
  BY <1>6 DEF Plain
<1>8. f \in Seq(Frame) /\ Len(f) = n /\ Recover(f) = fork
  BY <1>0, <1>4, PrefixType DEF At
<1>9. OverlayInner[frames] = ov
  BY DEF OverlayInner
<1> HIDE DEF f
<1>10. /\ c \in Seq(Frame) /\ Len(c) = n + Len(frames)
       /\ Len(frames) \in 0..Len(frames) /\ Len(c) \in 0..Len(c)
  <2>1. c \in Seq(Frame) /\ Len(c) = n + Len(frames)
    BY <1>7, <1>8, Concatenated
  <2>2. \A s \in Seq(Frame) : Len(s) \in 0..Len(s)
    OBVIOUS
  <2> QED BY <1>7, <2>1, <2>2
<1>11. Continues(fork, base, ov, line)
  <2>1. Continues(Recover(f), base, At(frames, Len(frames)), At(f \o frames, Len(f) + Len(frames)))
    BY <1>1, <1>4, <1>5, <1>6, <1>8, <1>10, CopyContinues
  <2>2. At(frames, Len(frames)) = ov
    BY <1>7, AtSteps
  <2>3. At(c, Len(c)) = line
    BY <1>10, AtSteps
  <2> QED BY <1>8, <1>10, <2>1, <2>2, <2>3
<1>12. /\ fork \in Inner /\ ov \in Inner /\ line \in Inner
       /\ Counted(fork) /\ Counted(mem) /\ Counted(ov) /\ Counted(line)
  <2>1. /\ At(acked, Len(acked)) = mem /\ At(frames, Len(frames)) = ov /\ At(c, Len(c)) = line
        /\ Len(acked) \in 0..Len(acked) /\ Len(c) \in 0..Len(c)
    <3>1. At(acked, Len(acked)) = mem /\ Len(acked) \in 0..Len(acked)
      BY <1>0, AtSteps
    <3>2. At(frames, Len(frames)) = ov
      BY <1>7, AtSteps
    <3>3. At(c, Len(c)) = line
      BY <1>10, AtSteps
    <3> QED BY <1>10, <3>1, <3>2, <3>3
  <2>2. Counted(fork) /\ Counted(At(acked, Len(acked)))
    BY <1>0, <1>4, <2>1, AtCounted
  <2>3. Counted(At(frames, Len(frames)))
    BY <1>7, <1>10, AtCounted
  <2>4. Counted(At(c, Len(c)))
    BY <1>10, <2>1, AtCounted
  <2>5. fork \in Inner
    BY <1>0, <1>4, AtSteps
  <2>6. ov \in Inner /\ line \in Inner
    BY <1>7, <1>10, RecoverType
  <2> HIDE DEF fork, ov, line
  <2> QED BY <2>1, <2>2, <2>3, <2>4, <2>5, <2>6
<1>13. Extends(fork, mem)
  <2>1. At(acked, Len(acked)) = mem /\ Len(acked) \in 0..Len(acked) /\ n <= Len(acked)
    BY <1>0, <1>4, AtSteps
  <2> QED BY <1>0, <1>4, <2>1, AtExtends
<1>14. BranchMarks(base, ov) = <<line.durable_lsn, line.commit_lsn>>
  <2> HIDE DEF fork, ov, line
  <2> QED BY <1>11 DEF Continues, BranchMarks, to_global
<1>15. ASSUME NEW l \in mem.floor .. line.durable_lsn
       PROVE  /\ BranchScanWal(base, frames, l) = ScanWal(c, l)
              /\ \A p \in Pages : BranchGetPage(base, ov, p, l) = GetPage(line, p, l)
  <2>1. l \in Nat /\ mem.floor <= l
    <3>1. line.durable_lsn \in Nat
      BY <1>12, InnerFields
    <3> HIDE DEF line
    <3> QED BY <1>1, <3>1
  <2>2. /\ l < base => ScanWal(c, l) = {x \in ScanWal(acked, l) : x <= base}
                            \cup {to_global(base, x) : x \in ScanWal(frames, 0)}
        /\ ~(l < base) => ScanWal(c, l)
                            = {to_global(base, x) : x \in ScanWal(frames, to_local(base, l))}
    BY <1>0, <1>1, <1>4, <1>5, <1>6, <2>1, CopyScans DEF f
  <2>3. BranchScanWal(base, frames, l) = ScanWal(c, l)
    <3> HIDE DEF c
    <3> QED BY <2>2 DEF BranchScanWal
  <2>4. ASSUME NEW p \in Pages PROVE BranchGetPage(base, ov, p, l) = GetPage(line, p, l)
    <3>0. mem.floor <= base
      BY DEF base
    <3> HIDE DEF fork, ov, line
    <3>1. /\ l <= base => GetPage(line, p, l) = GetPage(mem, p, l)
          /\ ~(l <= base) =>
                GetPage(line, p, l)
                  = LET own == GetPage(ov, p, to_local(base, l))
                    IN  IF own # NotFound THEN to_global(base, own) ELSE GetPage(mem, p, base)
      BY <1>0, <1>1, <1>5, <1>11, <1>12, <1>13, <2>1, <3>0, CopyReads
    <3> QED BY <3>1 DEF BranchGetPage
  <2> QED BY <2>3, <2>4
<1>16. FileAt(base) \o Shifted(base, frames) = c
  BY <1>3, <1>6
<1>17. /\ BranchMarks(base, OverlayInner[frames]) = <<line.durable_lsn, line.commit_lsn>>
       /\ \A l \in mem.floor .. line.durable_lsn :
             /\ BranchScanWal(base, frames, l) = ScanWal(c, l)
             /\ \A p \in Pages :
                   BranchGetPage(base, OverlayInner[frames], p, l) = GetPage(line, p, l)
  <2> HIDE DEF ov, line, c
  <2> QED BY <1>9, <1>14, <1>15
<1> HIDE DEF c
<1> QED BY <1>16, <1>17 DEF base

\* Whatever the parent does, every branch frame of its log forks where a commit
\* before it ended (create_branch, recover, append_frame) ...
THEOREM ForkInvariance == Spec => []ForkInv
  BY InitFork, NextFork, PTL DEF Spec

\* ... and so a branch whose overlay moves no retention floor reads, scans and
\* reports what one file with the parent's frames up to the fork and the overlay's
\* behind them would (BranchStorage's get_page, scan_wal, durable_lsn,
\* get_commit_lsn), also when branches are opened while appends run.
THEOREM BranchesArePrivate == ~OverlayFloors => (Spec => []BranchIsPrivateCopy)
<1> SUFFICES ASSUME ~OverlayFloors PROVE Spec => []BranchIsPrivateCopy
  OBVIOUS
<1>1. ForkInv => BranchIsPrivateCopy
  BY ForkedIsCopy
<1> QED
  BY <1>1, ForkInvariance, PTL
=============================================================================
