----------------------------- MODULE LocalFile -----------------------------
(***************************************************************************)
(* LocalFileStorage (storage/src/local.rs): one file of frames, appended   *)
(* and fsynced one at a time, from which an open rebuilds everything.      *)
(*                                                                         *)
(* The writing handle is the database's own.  open_branch opens the same   *)
(* file a second time, in the same process and without its lock, to read   *)
(* the parent's history: the Opener.  Its recovery reads the file and then *)
(* truncates what lies past the last good frame it saw.                    *)
(*                                                                         *)
(* A frame is its tag with what recovery takes from it.  Bytes that do not *)
(* parse as a frame (a write cut short, the rest of a longer frame, a      *)
(* hole) are one Torn entry: CRC and length checks reject them.            *)
(***************************************************************************)
EXTENDS Integers, Sequences, FiniteSets, FiniteSetsExt, SequencesExt

CONSTANTS
    Pages,
    MaxRecords,        \* bound: WAL records in one append
    OpenWhileWriting,  \* whether a branch is opened while an append runs
    MaxFrames, MaxFails, MaxOpens, MaxCrashes   \* bounds

ASSUME LocalFileBounds ==
    /\ {MaxRecords, MaxFrames, MaxFails, MaxOpens, MaxCrashes} \subseteq Nat
    /\ OpenWhileWriting \in BOOLEAN

VARIABLES
    file,      \* frames on disk, in order
    end,       \* Inner.end: frames the writer counts as good
    mem,       \* the rest of Inner
    writing,   \* the append in progress: <<>>, or its frame
    step,      \* how far it is: "idle", "writing", "written"
    opener,    \* the second handle: its step and its Inner.end
    acked,     \* history: frames whose append returned Ok, in order
    count

vars == <<file, end, mem, writing, step, opener, acked, count>>

Torn == [tag |-> "torn"]

\* What an empty file stands for.
Fresh == [next_lsn |-> 1, durable_lsn |-> 0, commit_lsn |-> 0, epoch |-> 0, floor |-> 0,
          pages |-> [p \in Pages |-> <<>>], branches |-> {}, next_branch_id |-> 1]

Init ==
    /\ file = <<>> /\ end = 0 /\ mem = Fresh
    /\ writing = Torn /\ step = "idle"
    /\ opener = [pc |-> "idle", end |-> 0]
    /\ acked = <<>>
    /\ count = [fails |-> 0, opens |-> 0, crashes |-> 0]

Count(f, bound) == count[f] < bound /\ count' = [count EXCEPT ![f] = @ + 1]

(* ------------------------------ recovery ------------------------------- *)

\* read_log: the frames up to the first that does not parse.
GoodPrefix(f) ==
    LET n == Max({k \in 0 .. Len(f) : \A i \in 1 .. k : f[i] # Torn})
    IN  SubSeq(f, 1, n)

\* Mutant: recovery gives a metadata frame an LSN of its own.
MetadataTakesLsn(s, f) ==
    CASE f.tag = "wal"   -> LET last == s.next_lsn + f.n - 1
                            IN  [s EXCEPT !.next_lsn = last + 1, !.durable_lsn = last,
                                          !.commit_lsn = last]
      [] f.tag = "page"  -> [s EXCEPT !.next_lsn = @ + 1, !.durable_lsn = s.next_lsn,
                                      !.pages[f.page] = Append(@, s.next_lsn)]
      [] OTHER -> [s EXCEPT !.next_lsn = @ + 1]

\* recover, one frame.
Recovered(s, f) ==
    CASE f.tag = "wal"   -> LET last == s.next_lsn + f.n - 1
                            IN  [s EXCEPT !.next_lsn = last + 1, !.durable_lsn = last,
                                          !.commit_lsn = last]
      [] f.tag = "page"  -> [s EXCEPT !.next_lsn = @ + 1, !.durable_lsn = s.next_lsn,
                                      !.pages[f.page] = Append(@, s.next_lsn)]
      [] f.tag = "fence" -> [s EXCEPT !.epoch = Max({@, f.epoch})]
      [] f.tag = "floor" -> [s EXCEPT !.floor = Max({@, f.floor})]
      [] f.tag = "branch" -> [s EXCEPT !.branches = @ \cup {[id |-> f.id, base |-> f.base]},
                                       !.next_branch_id = Max({@, f.id + 1})]
      [] f.tag = "branch_del" -> [s EXCEPT !.branches = {b \in @ : b.id # f.id}]

\* recover: every frame in turn.
Recover(frames) ==
    LET after[k \in 0 .. Len(frames)] ==
          IF k = 0 THEN Fresh ELSE Recovered(after[k - 1], frames[k])
    IN  after[Len(frames)]

(* ---------------------------- the operations --------------------------- *)

\* The LSNs a database has published: where commits ended.  Connection::branch
\* forks at its committed_lsn, which may trail the log's.
CommitMarks == {Recover(SubSeq(acked, 1, k)).commit_lsn : k \in 0 .. Len(acked)}

\* What each operation puts into its frame: its guard and its contents.
AppendWal(n)      == [tag |-> "wal", n |-> n]
PutPage(p)        == [tag |-> "page", page |-> p]
AcquireFence      == [tag |-> "fence", epoch |-> mem.epoch + 1]
SetRetentionFloor == {[tag |-> "floor", floor |-> l] : l \in mem.floor .. mem.durable_lsn}
CreateBranch      == {[tag |-> "branch", id |-> mem.next_branch_id, base |-> l] :
                         l \in {m \in CommitMarks : m >= mem.floor}}
DeleteBranch      == {[tag |-> "branch_del", id |-> b.id] : b \in mem.branches}

Operations ==
    {AppendWal(n) : n \in 1 .. MaxRecords} \cup {PutPage(p) : p \in Pages}
    \cup {AcquireFence} \cup SetRetentionFloor \cup CreateBranch \cup DeleteBranch

\* append_frame, its first bytes: what lay past the end is overwritten.
StartAppend(f) ==
    /\ step = "idle"
    /\ Len(acked) < MaxFrames
    /\ OpenWhileWriting \/ opener.pc = "idle"
    /\ f \in Operations
    /\ f.tag \in {"wal", "page"} => mem.epoch > 0       \* the token check_fence asks for
    /\ writing' = f
    /\ step' = "writing"
    /\ file' = [i \in 1 .. end |-> IF i \in DOMAIN file THEN file[i] ELSE Torn] \o <<Torn>>
    /\ UNCHANGED <<end, mem, opener, acked, count>>

\* Mutant: the frame goes behind whatever a failed append left.
WriteBehindTorn ==
    /\ step = "writing"
    /\ step' = "written"
    /\ file' = Append(file, writing)
    /\ UNCHANGED <<end, mem, writing, opener, acked, count>>

\* write_all has returned: the frame is whole; the rest of a longer frame
\* that had failed at this place may follow it.
WriteAll ==
    /\ step = "writing"
    /\ step' = "written"
    /\ LET whole == [i \in 1 .. end |-> IF i \in DOMAIN file THEN file[i] ELSE Torn]
                        \o <<writing>>
       IN  file' \in {whole, Append(whole, Torn)}
    /\ UNCHANGED <<end, mem, writing, opener, acked, count>>

\* The write or the fsync fails: nothing is counted, the bytes stay.
AppendFails ==
    /\ step \in {"writing", "written"}
    /\ Count("fails", MaxFails)
    /\ step' = "idle" /\ writing' = Torn
    /\ UNCHANGED <<file, end, mem, opener, acked>>

\* fsync has returned: the operation updates Inner and returns.
AppendOk ==
    /\ step = "written"
    /\ end' = end + 1
    /\ acked' = Append(acked, writing)
    /\ step' = "idle" /\ writing' = Torn
    /\ LET l == mem.next_lsn
       IN  mem' = CASE writing.tag = "wal" ->
                         [mem EXCEPT !.next_lsn = l + writing.n,
                                     !.durable_lsn = l + writing.n - 1,
                                     !.commit_lsn = l + writing.n - 1]
                    [] writing.tag = "page" ->
                         [mem EXCEPT !.next_lsn = l + 1, !.durable_lsn = l,
                                     !.pages[writing.page] = Append(@, l)]
                    [] writing.tag = "fence" -> [mem EXCEPT !.epoch = writing.epoch]
                    [] writing.tag = "floor" -> [mem EXCEPT !.floor = writing.floor]
                    [] writing.tag = "branch" ->
                         [mem EXCEPT !.next_branch_id = @ + 1,
                              !.branches = @ \cup {[id |-> writing.id, base |-> writing.base]}]
                    [] writing.tag = "branch_del" ->
                         [mem EXCEPT !.branches = {b \in @ : b.id # writing.id}]
    /\ UNCHANGED <<file, opener, count>>

(* ----------------------- the second handle, a crash --------------------- *)

\* LocalFileStorage::open: the file is read ...
OpenRead ==
    /\ opener.pc = "idle"
    /\ OpenWhileWriting \/ step = "idle"
    /\ Count("opens", MaxOpens)
    /\ opener' = [pc |-> "heal", end |-> Len(GoodPrefix(file))]
    /\ UNCHANGED <<file, end, mem, writing, step, acked>>

\* ... and cut back to its last good frame.
OpenHeal ==
    /\ opener.pc = "heal"
    /\ opener' = [pc |-> "idle", end |-> 0]
    /\ file' = SubSeq(file, 1, Min({opener.end, Len(file)}))
    /\ UNCHANGED <<end, mem, writing, step, acked, count>>

\* A crash keeps what was fsynced and any part of the append in progress; the
\* next open recovers from it and heals the tail.
CrashAndReopen ==
    /\ Count("crashes", MaxCrashes)
    /\ \E f \in {file} \cup {SubSeq(file, 1, Min({end, Len(file)}))} :
          LET good == GoodPrefix(f)
          IN  /\ file' = good
              /\ end' = Len(good)
              /\ mem' = Recover(good)
              /\ acked' = good
    /\ writing' = Torn /\ step' = "idle"
    /\ opener' = [pc |-> "idle", end |-> 0]

Rest ==
    /\ step = "idle" /\ Len(acked) = MaxFrames /\ opener.pc = "idle"
    /\ UNCHANGED vars

Next ==
    \/ \E f \in Operations : StartAppend(f)
    \/ WriteAll \/ AppendFails \/ AppendOk
    \/ OpenRead \/ OpenHeal \/ CrashAndReopen \/ Rest

Spec == Init /\ [][Next]_vars

(* ----------------------------- properties ------------------------------ *)

Frame ==
    [tag : {"wal"}, n : Nat \ {0}] \cup [tag : {"page"}, page : Pages]
    \cup [tag : {"fence"}, epoch : Nat] \cup [tag : {"floor"}, floor : Nat]
    \cup [tag : {"branch"}, id : Nat, base : Nat] \cup [tag : {"branch_del"}, id : Nat]

Inner ==
    [next_lsn : Nat \ {0}, durable_lsn : Nat, commit_lsn : Nat, epoch : Nat, floor : Nat,
     pages : [Pages -> Seq(Nat)], branches : SUBSET [id : Nat, base : Nat],
     next_branch_id : Nat]

TypeOK ==
    /\ file \in Seq(Frame \cup {Torn})
    /\ end \in Nat
    /\ mem \in Inner
    /\ step \in {"idle", "writing", "written"}
    /\ writing \in IF step = "idle" THEN {Torn} ELSE Frame
    /\ opener \in [pc : {"idle", "heal"}, end : Nat]
    /\ acked \in Seq(Frame)
    /\ count \in [fails : Nat, opens : Nat, crashes : Nat]

\* "An acked mutation always survives a crash" (module documentation): what
\* recovery would find in the file now starts with every acknowledged frame.
AckedSurvives == IsPrefix(acked, GoodPrefix(file))

\* ... and does: no step, a crash least of all, takes an acknowledged frame back.
AcksAccumulate == [][IsPrefix(acked, acked')]_vars

\* What an open rebuilds from the acknowledged frames is what the operations
\* left in memory: LSNs, marks, epoch, floor, page versions and branches.
MemoryIsReplay == mem = Recover(acked)
=============================================================================
