-------------------------- MODULE StorageContract --------------------------
(***************************************************************************)
(* What the trait Storage (storage/src/lib.rs) promises of pages, whatever *)
(* the backend: a history of durable items, one LSN each, of which a page  *)
(* read returns the greatest version at or before the LSN asked for; a     *)
(* floor below which nothing is promised, and which only moves forward.    *)
(*                                                                         *)
(* An item of the history is the page it is a version of, or Wal for a WAL *)
(* record; its LSN is its position.  A version is named by its LSN, 0 is   *)
(* "no version".                                                           *)
(***************************************************************************)
EXTENDS Naturals, Sequences, FiniteSetsExt

CONSTANTS Pages, Readers, Wal, Pending, Failed

VARIABLES
    hist,    \* durable items in LSN order
    floor,   \* retention floor
    reads    \* per reader: what it must be told and what it was told

cvars == <<hist, floor, reads>>

AtOrBefore(h, p, q) == Max({n \in DOMAIN h : n <= q /\ h[n] = p} \cup {0})

Idle == [want |-> 0, got |-> 0]

CInit ==
    /\ hist = <<>>
    /\ floor = 0
    /\ reads = [r \in Readers |-> Idle]

\* append_wal, put_page: durable when they return, or even if they fail.
CAppend ==
    /\ \E i \in Pages \cup {Wal} : hist' = Append(hist, i)
    /\ UNCHANGED <<floor, reads>>

CSetFloor ==
    /\ floor' \in Nat /\ floor' >= floor
    /\ UNCHANGED <<hist, reads>>

\* get_page at an LSN not below the floor fixes the version it must return.
CRead(r) ==
    /\ \E p \in Pages, q \in floor .. Len(hist) + 1 :
          LET v == AtOrBefore(hist, p, q)
          IN  \E g \in {v, Pending} : reads' = [reads EXCEPT ![r] = [want |-> v, got |-> g]]
    /\ UNCHANGED <<hist, floor>>

\* It returns that version or an error, never another version.
CReturn(r) ==
    /\ reads[r].got = Pending
    /\ \E g \in {reads[r].want, Failed} : reads' = [reads EXCEPT ![r].got = g]
    /\ UNCHANGED <<hist, floor>>

\* A crash ends the reads; an append or a move of the floor that had failed may turn
\* out durable.
CCrash ==
    /\ reads' = [r \in Readers |-> Idle]
    /\ \/ UNCHANGED hist
       \/ \E i \in Pages \cup {Wal} : hist' = Append(hist, i)
    /\ floor' \in Nat /\ floor' >= floor

CNext ==
    \/ CAppend \/ CSetFloor \/ CCrash
    \/ \E r \in Readers : CRead(r) \/ CReturn(r)

CSpec == CInit /\ [][CNext]_cvars
=============================================================================
