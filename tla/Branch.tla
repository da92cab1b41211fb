------------------------------- MODULE Branch -------------------------------
(***************************************************************************)
(* BranchStorage (storage/src/branch.rs): a branch is a fork point of its  *)
(* parent, read up to that point, and an overlay of its own that takes     *)
(* every write.  The parent is LocalFile's database, which goes on         *)
(* committing, crashing and being opened again; the overlay is a second    *)
(* file of the same format (open_branch in storage/src/lib.rs), here any   *)
(* sequence of at most MaxOverlay frames.                                  *)
(***************************************************************************)
EXTENDS LocalFile

CONSTANTS
    MaxOverlay,      \* bound: frames in a branch's overlay
    OverlayFloors    \* whether a branch moves the retention floor of its overlay

ASSUME BranchBounds == MaxOverlay \in Nat /\ OverlayFloors \in BOOLEAN

NotFound == 0

(* ------------------- what LocalFileStorage answers ---------------------- *)

\* get_page: the newest version at or before l.
GetPage(m, p, l) ==
    IF l < m.floor THEN NotFound
    ELSE Max({NotFound} \cup {v \in Range(m.pages[p]) : v <= l})

\* scan_wal: the LSNs of the WAL records past `after`, as read_log counts them.
ScanWal(frames, after) ==
    UNION {LET first == Recover(SubSeq(frames, 1, i - 1)).next_lsn
           IN  {l \in first .. first + frames[i].n - 1 : l > after} :
             i \in {j \in 1 .. Len(frames) : frames[j].tag = "wal"}}

(* ---------------------------- BranchStorage ----------------------------- *)

to_global(base, local) == base + local
to_local(base, global) == IF global > base THEN global - base ELSE 0

\* Mutant: a page the branch never wrote is read as the parent has it now.
ReadsParentsPresent(base, ov, p, l) ==
    IF l <= base THEN GetPage(mem, p, l)
    ELSE LET own == GetPage(ov, p, to_local(base, l))
         IN  IF own # NotFound THEN to_global(base, own) ELSE GetPage(mem, p, l)

\* get_page: at or below the fork from the parent, above it the overlay's
\* version or, where that has none, the parent's at the fork.  The version a
\* page image carries stands for its bytes.
BranchGetPage(base, ov, p, l) ==
    IF l <= base THEN GetPage(mem, p, l)
    ELSE LET own == GetPage(ov, p, to_local(base, l))
         IN  IF own # NotFound THEN to_global(base, own) ELSE GetPage(mem, p, base)

\* scan_wal: the parent's records up to the fork, then the overlay's, shifted.
BranchScanWal(base, frames, after) ==
    IF after < base
    THEN {l \in ScanWal(acked, after) : l <= base}
            \cup {to_global(base, l) : l \in ScanWal(frames, 0)}
    ELSE {to_global(base, l) : l \in ScanWal(frames, to_local(base, after))}

\* durable_lsn and get_commit_lsn.
BranchMarks(base, ov) ==
    <<to_global(base, ov.durable_lsn), to_global(base, ov.commit_lsn)>>

(* ----------------------------- properties ------------------------------ *)

\* The files an overlay may be, by append_wal, put_page and set_retention_floor.
OverlayFrames ==
    {AppendWal(n) : n \in 1 .. MaxRecords} \cup {PutPage(p) : p \in Pages}
    \cup (IF OverlayFloors THEN {[tag |-> "floor", floor |-> 2]} ELSE {})
Overlays == UNION {[1 .. n -> OverlayFrames] : n \in 0 .. MaxOverlay}
OverlayInner == [frames \in Overlays |-> Recover(frames)]

\* The same frames in a file whose LSNs start at base.
Shifted(base, frames) ==
    [i \in DOMAIN frames |-> IF frames[i].tag = "floor"
                             THEN [frames[i] EXCEPT !.floor = to_global(base, @)]
                             ELSE frames[i]]

\* The parent's file as it was when its last WAL record had LSN base.
FileAt(base) ==
    LET n == Min({k \in 0 .. Len(acked) :
                    Recover(SubSeq(acked, 1, k)).commit_lsn = base})
    IN  SubSeq(acked, 1, n)

\* A branch is a private copy: whatever the parent does after the fork (more
\* commits, page writes, crashes, branches), reading a page, the log or the
\* marks of the branch gives what one file would that held the parent's frames
\* up to the fork and the overlay's behind them, LSNs continuing without a gap
\* ("the engine above sees one gap-free stream").  Only raising the parent's
\* retention floor above the fork takes pages from it.  (The parent's lock lets
\* a read in only between two appends.)
BranchIsPrivateCopy ==
    step = "idle" => \A b \in mem.branches : mem.floor <= b.base =>
        \A frames \in Overlays :
            LET ov   == OverlayInner[frames]
                copy == FileAt(b.base) \o Shifted(b.base, frames)
                line == Recover(copy)
            IN  /\ BranchMarks(b.base, ov) = <<line.durable_lsn, line.commit_lsn>>
                /\ \A l \in mem.floor .. line.durable_lsn :
                      /\ BranchScanWal(b.base, frames, l) = ScanWal(copy, l)
                      /\ \A p \in Pages :
                            BranchGetPage(b.base, ov, p, l) = GetPage(line, p, l)
=============================================================================
