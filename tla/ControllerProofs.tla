------------------------- MODULE ControllerProofs -------------------------
(***************************************************************************)
(* Proofs about Controller: the phase of an instance tells the truth,      *)
(* leases and permits are counted exactly, and a cold instance is warmed   *)
(* by one caller as long as nobody forces a stop.                          *)
(***************************************************************************)
EXTENDS Controller, FiniteSetTheorems, TLAPS

(* ------------------------- Counting callers ---------------------------- *)

Leased(u) == {c \in Callers : pc[c] = "leased" /\ want[c] = u}
Admitted == {c \in Callers : pc[c] \in {"open", "acquire", "register", "opened"}}

\* A set of callers one of which joined or left.
LEMMA OneMore ==
    ASSUME NEW S \in SUBSET Callers, NEW T \in SUBSET Callers, NEW c \in Callers,
           c \notin S, T = S \cup {c}
    PROVE  /\ Cardinality(S) \in Nat /\ Cardinality(T) \in Nat
           /\ Cardinality(T) = Cardinality(S) + 1
<1>1. IsFiniteSet(Callers)
  BY ControllerAssumption
<1>2. IsFiniteSet(S) /\ IsFiniteSet(T)
  BY <1>1, FS_Subset
<1>3. Cardinality(S) \in Nat /\ Cardinality(T) \in Nat
  BY <1>2, FS_CardinalityType
<1>4. Cardinality(S \cup {c}) = Cardinality(S) + 1
  BY <1>2, FS_AddElement
<1> QED
  BY <1>3, <1>4

\* Nobody counts for nothing.
LEMMA NoCallers ==
    ASSUME NEW S, S = {}
    PROVE  Cardinality(S) = 0
  BY FS_EmptySet

(* ---------------------- The inductive invariant ------------------------ *)

\* Without a forced stop a warmer finds the instance as it left it: Warming and
\* without a handle.  The reaper, which may fence an instance it looked at
\* earlier, is then only ever at one that is still warm.
WarmerAlone ==
    stops = 0 =>
      /\ OneWarm
      /\ \A c \in Callers : pc[c] \in WarmPcs => phase[want[c]] = "Warming"
      /\ \A u \in Urls : phase[u] \in {"Cold", "Warming"} => handle[u] = 0
      /\ reap # Resting => phase[reap.url] \in {"Active", "Idle"}

ControllerInv == TypeOK /\ PhaseSound /\ Counted /\ WarmerAlone

\* Nothing is open, leased or being warmed at first.
LEMMA InitInv == Init => ControllerInv
<1> SUFFICES ASSUME Init PROVE ControllerInv
  OBVIOUS
<1> USE ControllerAssumption DEF Init
<1>1. TypeOK
  BY DEF TypeOK, Resting, Phases, CallerPcs, WarmPcs
<1>2. PhaseSound
  BY DEF PhaseSound
<1>3. Counted
  <2>1. \A u \in Urls : {c \in Callers : pc[c] = "leased" /\ want[c] = u} = {}
    OBVIOUS
  <2>2. {c \in Callers : pc[c] \in {"open", "acquire", "register", "opened"}} = {}
    OBVIOUS
  <2> QED BY <2>1, <2>2, NoCallers DEF Counted
<1>4. WarmerAlone
  BY DEF WarmerAlone, OneWarm, WarmPcs
<1> QED BY <1>1, <1>2, <1>3, <1>4 DEF ControllerInv

-----------------------------------------------------------------------------
(* Types.                                                                   *)

\* Every step of a caller and of the reaper keeps the types.
LEMMA NextType == TypeOK /\ [Next]_vars => TypeOK'
<1> SUFFICES ASSUME TypeOK, [Next]_vars PROVE TypeOK'
  OBVIOUS
<1> USE ControllerAssumption DEF TypeOK, Phases, CallerPcs, WarmPcs, instVars, callVars,
        countVars, Goto, NotifyAll, CountLease
<1>1. CASE UNCHANGED vars
  BY <1>1 DEF vars
<1>2. ASSUME NEW c \in Callers, StartWarm(c) \/ StartCold(c) \/ StartWait(c)
      PROVE  TypeOK'
  BY <1>2 DEF StartWarm, StartCold, StartWait
<1>3. ASSUME NEW c \in Callers, Admit(c) \/ Readmit(c) \/ OpenFails(c)
      PROVE  TypeOK'
  BY <1>3 DEF Admit, Readmit, OpenFails
<1>4. ASSUME NEW c \in Callers, OpenLookup(c) \/ OpenAcquire(c) \/ OpenRegister(c)
      PROVE  TypeOK'
  BY <1>4 DEF OpenLookup, OpenAcquire, OpenRegister
<1>5. ASSUME NEW c \in Callers, SettleOk(c) \/ SettleErr(c) \/ DropLease(c)
      PROVE  TypeOK'
  BY <1>5 DEF SettleOk, SettleErr, DropLease
<1>6. ASSUME NEW c \in Callers, SpuriousWakeup(c) \/ \E u \in Urls : CallStart(c, u)
      PROVE  TypeOK'
  BY <1>6 DEF SpuriousWakeup, CallStart
<1>7. ASSUME NEW u \in Urls, Stop(u) \/ Takeover(u)
      PROVE  TypeOK'
  BY <1>7 DEF Stop, Takeover
<1>8. ASSUME NEW u \in Urls, ReapLook(u)
      PROVE  TypeOK'
  BY <1>8 DEF ReapLook
<1>9. CASE ReapRenew
  <2>1. reap \in [pc : {"renew", "act"}, url : Urls, phase : Phases, db : Nat,
                  fenced : BOOLEAN]
    BY <1>9 DEF ReapRenew, Resting
  <2>2. \A b \in BOOLEAN :
           [reap EXCEPT !.pc = "act", !.fenced = b]
             \in [pc : {"renew", "act"}, url : Urls, phase : Phases, db : Nat,
                  fenced : BOOLEAN]
    BY <2>1
  <2>3. (reap.db # epoch[reap.url]) \in BOOLEAN
    OBVIOUS
  <2>4. reap' \in [pc : {"renew", "act"}, url : Urls, phase : Phases, db : Nat,
                   fenced : BOOLEAN]
    BY <1>9, <2>1, <2>2, <2>3 DEF ReapRenew
  <2> QED BY <1>9, <2>4 DEF ReapRenew
<1>10. CASE ReapAct
  BY <1>10 DEF ReapAct, StepDown, IdleOut, Resting
<1> QED
  BY <1>1, <1>2, <1>3, <1>4, <1>5, <1>6, <1>7, <1>8, <1>9, <1>10
  DEF Next, Caller, Reaper

-----------------------------------------------------------------------------
(* PhaseSound: who warms an instance leaves WarmPcs only in the critical    *)
(* section that sets its phase.                                             *)

\* A stop, a reap or a failed open never leaves a warm phase without a handle, or
\* Warming without a warmer.
LEMMA NextPhaseSound == TypeOK /\ PhaseSound /\ [Next]_vars => PhaseSound'
<1> SUFFICES ASSUME TypeOK, PhaseSound, [Next]_vars PROVE PhaseSound'
  OBVIOUS
<1> USE DEF TypeOK, PhaseSound, WarmPcs, instVars, callVars, countVars, Goto, NotifyAll,
        CountLease
<1>1. CASE UNCHANGED vars
  BY <1>1 DEF vars
<1>2. ASSUME NEW c \in Callers, StartWarm(c) \/ StartCold(c) \/ StartWait(c)
      PROVE  PhaseSound'
  BY <1>2 DEF StartWarm, StartCold, StartWait
<1>3. ASSUME NEW c \in Callers, Admit(c) \/ Readmit(c) \/ OpenFails(c)
      PROVE  PhaseSound'
  BY <1>3 DEF Admit, Readmit, OpenFails
<1>4. ASSUME NEW c \in Callers, OpenLookup(c) \/ OpenAcquire(c) \/ OpenRegister(c)
      PROVE  PhaseSound'
  BY <1>4 DEF OpenLookup, OpenAcquire, OpenRegister
<1>5. ASSUME NEW c \in Callers, SettleOk(c) \/ SettleErr(c) \/ DropLease(c)
      PROVE  PhaseSound'
  BY <1>5 DEF SettleOk, SettleErr, DropLease
<1>6. ASSUME NEW c \in Callers, SpuriousWakeup(c) \/ \E u \in Urls : CallStart(c, u)
      PROVE  PhaseSound'
  BY <1>6 DEF SpuriousWakeup, CallStart
<1>7. ASSUME NEW u \in Urls, Stop(u) \/ Takeover(u) \/ ReapLook(u)
      PROVE  PhaseSound'
  BY <1>7 DEF Stop, Takeover, ReapLook
<1>8. CASE ReapRenew
  BY <1>8 DEF ReapRenew
<1>9. CASE ReapAct
  BY <1>9 DEF ReapAct, StepDown, IdleOut, Resting
<1> QED
  BY <1>1, <1>2, <1>3, <1>4, <1>5, <1>6, <1>7, <1>8, <1>9 DEF Next, Caller, Reaper

-----------------------------------------------------------------------------
(* Counted: one conjunct for the leases, one for the permits.               *)

LeasesCounted ==
    \A u \in Urls : /\ active[u] = Cardinality(Leased(u))
                    /\ phase[u] = "Idle" => active[u] = 0

PermitsCounted == permits + Cardinality(Admitted) = max_concurrent_warms

\* The caller c takes a lease on u; the other leases stay.
LEMMA TakeLease ==
    ASSUME TypeOK, LeasesCounted, NEW c \in Callers, pc[c] # "leased",
           NEW w \in Urls, w = want[c],
           UNCHANGED want, Goto(c, "leased"), CountLease(w)
    PROVE  \A u \in Urls : /\ active'[u] = Cardinality(Leased(u)')
                           /\ u # w => active'[u] = active[u]
<1> USE DEF TypeOK, Goto, CountLease, Leased
<1>1. ASSUME NEW u \in Urls, u # w
      PROVE  Leased(u)' = Leased(u) /\ active'[u] = active[u]
  BY <1>1
<1>2. active'[w] = active[w] + 1
  OBVIOUS
<1>3. Leased(w)' = Leased(w) \cup {c} /\ c \notin Leased(w)
  OBVIOUS
<1>4. Cardinality(Leased(w)') = Cardinality(Leased(w)) + 1
  <2>1. Leased(w) \in SUBSET Callers /\ Leased(w)' \in SUBSET Callers
    OBVIOUS
  <2> HIDE DEF Leased
  <2> QED BY <1>3, <2>1, OneMore
<1> HIDE DEF Leased
<1> QED
  BY <1>1, <1>2, <1>4 DEF LeasesCounted

\* What neither touches leases nor makes an instance Idle keeps them counted.
LEMMA SameLeases ==
    ASSUME TypeOK, LeasesCounted, UNCHANGED active,
           \A u \in Urls : Leased(u)' = Leased(u),
           \A u \in Urls : phase'[u] = "Idle" => active[u] = 0
    PROVE  LeasesCounted'
  BY DEF LeasesCounted

\* A lease is counted when its caller gets it and uncounted when it is dropped.
LEMMA NextLeases == TypeOK /\ LeasesCounted /\ [Next]_vars => LeasesCounted'
<1> SUFFICES ASSUME TypeOK, LeasesCounted, [Next]_vars PROVE LeasesCounted'
  OBVIOUS
<1> USE DEF TypeOK, instVars, callVars, countVars
<1>1. CASE UNCHANGED vars
  BY <1>1 DEF vars, LeasesCounted, Leased
<1>2. ASSUME NEW c \in Callers, StartWarm(c) \/ SettleOk(c)
      PROVE  LeasesCounted'
  <2>1. /\ pc[c] # "leased" /\ UNCHANGED want
        /\ Goto(c, "leased") /\ CountLease(want[c])
        /\ phase' = [phase EXCEPT ![want[c]] = "Active"]
    BY <1>2 DEF StartWarm, SettleOk
  <2>2. \A u \in Urls : /\ active'[u] = Cardinality(Leased(u)')
                        /\ u # want[c] => active'[u] = active[u]
    <3>1. want[c] \in Urls
      OBVIOUS
    <3> QED BY <2>1, <3>1, TakeLease
  <2> QED BY <2>1, <2>2 DEF LeasesCounted
<1>3. ASSUME NEW c \in Callers, DropLease(c)
      PROVE  LeasesCounted'
  <2> USE DEF DropLease, Goto
  <2>0. PICK w \in Urls : w = want[c]
    OBVIOUS
  <2>1. ASSUME NEW u \in Urls, u # w
        PROVE  Leased(u)' = Leased(u) /\ active'[u] = active[u]
    BY <1>3, <2>0, <2>1 DEF Leased
  <2>2. active'[w] = IF active[w] = 0 THEN 0 ELSE active[w] - 1
    BY <1>3, <2>0
  <2>3. Leased(w) = Leased(w)' \cup {c} /\ c \notin Leased(w)'
    BY <1>3, <2>0 DEF Leased
  <2>4. Leased(w) \in SUBSET Callers /\ Leased(w)' \in SUBSET Callers
    BY DEF Leased
  <2>5. /\ Cardinality(Leased(w)) = Cardinality(Leased(w)') + 1
        /\ Cardinality(Leased(w)') \in Nat
    BY <2>3, <2>4, OneMore
  <2>6. active'[w] = Cardinality(Leased(w)')
    BY <2>2, <2>5 DEF LeasesCounted
  <2>7. UNCHANGED phase
    BY <1>3, <2>0
  <2>8. phase[w] = "Idle" => active'[w] = 0
    BY <2>2 DEF LeasesCounted
  <2> QED BY <2>1, <2>6, <2>7, <2>8 DEF LeasesCounted
<1>4. ASSUME NEW c \in Callers,
             \/ StartCold(c) \/ StartWait(c) \/ Admit(c) \/ Readmit(c) \/ OpenFails(c)
             \/ OpenLookup(c) \/ OpenAcquire(c) \/ OpenRegister(c) \/ SettleErr(c)
      PROVE  LeasesCounted'
  <2>1. UNCHANGED <<active, want>>
    BY <1>4 DEF StartCold, StartWait, Admit, Readmit, OpenFails, OpenLookup, OpenAcquire,
                OpenRegister, SettleErr
  <2>2. \E l \in CallerPcs : l # "leased" /\ pc[c] # "leased" /\ Goto(c, l)
    BY <1>4 DEF StartCold, StartWait, Admit, Readmit, OpenFails, OpenLookup, OpenAcquire,
                OpenRegister, SettleErr, CallerPcs, WarmPcs, Goto
  <2>3. \A u \in Urls : Leased(u)' = Leased(u)
    BY <2>1, <2>2 DEF Leased, Goto
  <2>4. \A u \in Urls : phase'[u] \in {phase[u], "Warming", "Cold"}
    BY <1>4 DEF StartCold, StartWait, Admit, Readmit, OpenFails, OpenLookup, OpenAcquire,
                OpenRegister, SettleErr
  <2> QED BY <2>1, <2>3, <2>4, SameLeases DEF LeasesCounted
<1>5. ASSUME NEW c \in Callers, SpuriousWakeup(c) \/ \E u \in Urls : CallStart(c, u)
      PROVE  LeasesCounted'
  <2>1. UNCHANGED <<active, phase>>
    BY <1>5 DEF SpuriousWakeup, CallStart
  <2>2. \A u \in Urls : Leased(u)' = Leased(u)
    BY <1>5 DEF SpuriousWakeup, CallStart, Leased, Goto
  <2> QED BY <2>1, <2>2, SameLeases DEF LeasesCounted
<1>6. ASSUME NEW u \in Urls, Stop(u) \/ Takeover(u) \/ ReapLook(u)
      PROVE  LeasesCounted'
  <2>1. \A v \in Urls : phase'[v] \in {phase[v], "Cold"}
    BY <1>6 DEF Stop, Takeover, ReapLook
  <2>2. UNCHANGED <<active, pc, want>>
    BY <1>6 DEF Stop, Takeover, ReapLook
  <2>3. \A v \in Urls : Leased(v)' = Leased(v)
    BY <2>2 DEF Leased
  <2> QED BY <2>1, <2>2, <2>3, SameLeases DEF LeasesCounted
<1>7. CASE ReapRenew \/ ReapAct
  <2>1. UNCHANGED <<active, pc, want>>
    BY <1>7 DEF ReapRenew, ReapAct
  <2>2. \A v \in Urls : phase'[v] = "Idle" => phase[v] = "Idle" \/ active[v] = 0
    BY <1>7 DEF ReapRenew, ReapAct, StepDown, IdleOut, Resting
  <2>3. \A v \in Urls : Leased(v)' = Leased(v)
    BY <2>1 DEF Leased
  <2> QED BY <2>1, <2>2, <2>3, SameLeases DEF LeasesCounted
<1> QED
  BY <1>1, <1>2, <1>3, <1>4, <1>5, <1>6, <1>7 DEF Next, Caller, Reaper

\* A permit is taken by the open it admits and given back when that returns.
LEMMA NextPermits == TypeOK /\ PermitsCounted /\ [Next]_vars => PermitsCounted'
<1> SUFFICES ASSUME TypeOK, PermitsCounted, [Next]_vars PROVE PermitsCounted'
  OBVIOUS
<1> USE DEF TypeOK, instVars, callVars, countVars, Goto
<1>0. Admitted \in SUBSET Callers /\ Admitted' \in SUBSET Callers
  BY DEF Admitted
<1>1. ASSUME UNCHANGED permits, Admitted' = Admitted
      PROVE  PermitsCounted'
  BY <1>1 DEF PermitsCounted
<1>2. ASSUME NEW c \in Callers, Admit(c)
      PROVE  PermitsCounted'
  <2>1. Admitted' = Admitted \cup {c} /\ c \notin Admitted
    BY <1>2 DEF Admit, Admitted
  <2>2. /\ Cardinality(Admitted') = Cardinality(Admitted) + 1
        /\ Cardinality(Admitted) \in Nat
    BY <1>0, <2>1, OneMore
  <2> QED BY <1>2, <2>2 DEF Admit, PermitsCounted
<1>3. ASSUME NEW c \in Callers, Readmit(c)
      PROVE  PermitsCounted'
  <2>1. Admitted = Admitted' \cup {c} /\ c \notin Admitted'
    BY <1>3 DEF Readmit, Admitted
  <2>2. /\ Cardinality(Admitted) = Cardinality(Admitted') + 1
        /\ Cardinality(Admitted') \in Nat
    BY <1>0, <2>1, OneMore
  <2> QED BY <1>3, <2>2 DEF Readmit, PermitsCounted
<1>4. ASSUME NEW c \in Callers,
             \/ StartWarm(c) \/ StartCold(c) \/ StartWait(c) \/ OpenFails(c)
             \/ OpenLookup(c) \/ OpenAcquire(c) \/ OpenRegister(c)
             \/ SettleOk(c) \/ SettleErr(c) \/ DropLease(c) \/ SpuriousWakeup(c)
             \/ \E u \in Urls : CallStart(c, u)
      PROVE  PermitsCounted'
  <2>1. UNCHANGED permits
    BY <1>4 DEF StartWarm, StartCold, StartWait, OpenFails, OpenLookup, OpenAcquire,
                OpenRegister, SettleOk, SettleErr, DropLease, SpuriousWakeup, CallStart
  <2>2. Admitted' = Admitted
    BY <1>4 DEF StartWarm, StartCold, StartWait, OpenFails, OpenLookup, OpenAcquire,
                OpenRegister, SettleOk, SettleErr, DropLease, SpuriousWakeup, CallStart,
                Admitted
  <2> QED BY <1>1, <2>1, <2>2
<1>5. CASE UNCHANGED vars \/ Reaper \/ \E u \in Urls : Stop(u) \/ Takeover(u)
  <2>1. UNCHANGED <<permits, pc>>
    BY <1>5 DEF vars, Reaper, ReapLook, ReapRenew, ReapAct, Stop, Takeover
  <2> QED BY <1>1, <2>1 DEF Admitted
<1> QED
  BY <1>2, <1>3, <1>4, <1>5 DEF Next, Caller

-----------------------------------------------------------------------------
(* WarmerAlone.                                                             *)

\* Without a forced stop no second warmer starts on an instance.
LEMMA NextWarmerAlone == TypeOK /\ WarmerAlone /\ [Next]_vars => WarmerAlone'
<1> SUFFICES ASSUME TypeOK, WarmerAlone, [Next]_vars, stops' = 0 PROVE WarmerAlone'
  BY DEF WarmerAlone
<1> USE DEF TypeOK, WarmPcs, instVars, callVars, countVars, Goto, NotifyAll, CountLease
<1>0. stops = 0
  BY DEF Next, vars, Caller, Reaper, StartWarm, StartCold, StartWait, Admit, Readmit,
         OpenFails, OpenLookup, OpenAcquire, OpenRegister, SettleOk, SettleErr, DropLease,
         SpuriousWakeup, CallStart, Stop, Takeover, ReapLook, ReapRenew, ReapAct
<1>a. /\ OneWarm
      /\ \A c \in Callers : pc[c] \in WarmPcs => phase[want[c]] = "Warming"
      /\ \A u \in Urls : phase[u] \in {"Cold", "Warming"} => handle[u] = 0
      /\ reap # Resting => phase[reap.url] \in {"Active", "Idle"}
  BY <1>0 DEF WarmerAlone
<1>b. reap # Resting => reap.url \in Urls
  OBVIOUS
<1> SUFFICES /\ OneWarm'
             /\ \A c \in Callers : pc'[c] \in WarmPcs => phase'[want'[c]] = "Warming"
             /\ \A u \in Urls : phase'[u] \in {"Cold", "Warming"} => handle'[u] = 0
             /\ reap' # Resting => phase'[reap'.url] \in {"Active", "Idle"}
  BY DEF WarmerAlone, Resting
<1> USE DEF OneWarm
<1>1. CASE UNCHANGED vars
  BY <1>a, <1>1 DEF vars
<1>2. ASSUME NEW c \in Callers, StartWarm(c) \/ StartCold(c) \/ StartWait(c)
      PROVE  WarmerAlone'
  BY <1>a, <1>b, <1>2 DEF StartWarm, StartCold, StartWait, WarmerAlone
<1>3. ASSUME NEW c \in Callers, Admit(c) \/ Readmit(c) \/ OpenFails(c)
      PROVE  WarmerAlone'
  BY <1>a, <1>3 DEF Admit, Readmit, OpenFails, WarmerAlone
<1>4. ASSUME NEW c \in Callers, OpenLookup(c) \/ OpenAcquire(c) \/ OpenRegister(c)
      PROVE  WarmerAlone'
  BY <1>a, <1>4 DEF OpenLookup, OpenAcquire, OpenRegister, WarmerAlone
<1>5. ASSUME NEW c \in Callers, SettleOk(c) \/ SettleErr(c) \/ DropLease(c)
      PROVE  WarmerAlone'
  BY <1>a, <1>b, <1>5 DEF SettleOk, SettleErr, DropLease, WarmerAlone
<1>6. ASSUME NEW c \in Callers, SpuriousWakeup(c) \/ \E u \in Urls : CallStart(c, u)
      PROVE  WarmerAlone'
  BY <1>a, <1>6 DEF SpuriousWakeup, CallStart, WarmerAlone
<1>7. ASSUME NEW u \in Urls, Stop(u) \/ Takeover(u) \/ ReapLook(u)
      PROVE  WarmerAlone'
  BY <1>a, <1>0, <1>7 DEF Stop, Takeover, ReapLook, WarmerAlone, Phases
<1>8. CASE ReapRenew
  <2>1. reap # Resting /\ UNCHANGED <<phase, handle, pc, want, stops>>
    BY <1>8 DEF ReapRenew, Resting
  <2>2. reap'.url = reap.url
    BY <1>8, <2>1 DEF ReapRenew
  <2> QED BY <1>a, <2>1, <2>2 DEF WarmerAlone
<1>9. CASE ReapAct
  <2>1. reap # Resting /\ reap' = Resting /\ UNCHANGED <<pc, want, stops>>
    BY <1>9 DEF ReapAct, Resting
  <2>2. phase[reap.url] \in {"Active", "Idle"} /\ reap.url \in Urls
    BY <1>a, <1>b, <2>1
  <2>3. \A c \in Callers : pc[c] \in WarmPcs => want[c] # reap.url
    BY <1>a, <2>2
  <2>4. \A u \in Urls : u # reap.url => phase'[u] = phase[u] /\ handle'[u] = handle[u]
    BY <1>9, <2>2 DEF ReapAct, StepDown, IdleOut
  <2>5. phase'[reap.url] \in {"Cold", "Warming"} => handle'[reap.url] = 0
    BY <1>9, <2>2 DEF ReapAct, StepDown, IdleOut
  <2> QED BY <1>a, <2>1, <2>3, <2>4, <2>5 DEF WarmerAlone
<1> QED
  BY <1>1, <1>2, <1>3, <1>4, <1>5, <1>6, <1>7, <1>8, <1>9, <1>0
  DEF Next, Caller, Reaper, WarmerAlone

-----------------------------------------------------------------------------
(* The theorems.                                                            *)

\* The two counts together are the invariant.
LEMMA CountedParts == Counted <=> LeasesCounted /\ PermitsCounted
  BY DEF Counted, LeasesCounted, PermitsCounted, Leased, Admitted

\* Every step preserves the inductive invariant.
LEMMA NextInv == ControllerInv /\ [Next]_vars => ControllerInv'
<1> SUFFICES ASSUME ControllerInv, [Next]_vars PROVE ControllerInv'
  OBVIOUS
<1>1. TypeOK' /\ PhaseSound' /\ WarmerAlone'
  BY NextType, NextPhaseSound, NextWarmerAlone DEF ControllerInv
<1>2. LeasesCounted' /\ PermitsCounted'
  BY CountedParts, NextLeases, NextPermits DEF ControllerInv
<1>3. Counted'
  BY <1>2 DEF Counted, LeasesCounted, PermitsCounted, Leased, Admitted
<1> QED
  BY <1>1, <1>3 DEF ControllerInv

\* The inductive invariant holds in every state, for any callers, databases and
\* configuration.
THEOREM ControllerInvariance == Spec => []ControllerInv
  BY InitInv, NextInv, PTL DEF Spec

\* A warm instance has a handle and a Warming one has a warmer, whatever stops,
\* the reaper and failed opens do between a warmer's critical sections (start's
\* expect("active instance has a handle") never panics).
THEOREM PhaseTellsTheTruth == Spec => []PhaseSound
<1>1. ControllerInv => PhaseSound
  BY DEF ControllerInv
<1> QED
  BY <1>1, ControllerInvariance, PTL

\* InstState.active is the number of live leases and warm_sem the number of free
\* permits, in every interleaving (LeaseGuard, Semaphore).
THEOREM NothingLeaks == Spec => []Counted
<1>1. ControllerInv => Counted
  BY DEF ControllerInv
<1> QED
  BY <1>1, ControllerInvariance, PTL

\* As long as nobody forces a stop a cold URL is warmed by exactly one of the
\* callers that want it, whatever fails, is fenced or idles out meanwhile (start).
THEOREM OneCallerWarms == Spec => []OneWarmUnlessStopped
<1>1. ControllerInv => OneWarmUnlessStopped
  BY DEF ControllerInv, WarmerAlone, OneWarmUnlessStopped
<1> QED
  BY <1>1, ControllerInvariance, PTL
=============================================================================
