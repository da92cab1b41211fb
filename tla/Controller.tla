---------------------------- MODULE Controller ----------------------------
(***************************************************************************)
(* The scale-to-zero lifecycle controller (controller/src/lib.rs) and the  *)
(* open/share/drop protocol of the engine's database registry              *)
(* (engine/src/db.rs) that it drives.  Callers are threads inside          *)
(* Controller::start or holding a Lease; the reaper is one more thread.    *)
(* Each step is one critical section, or one call made outside of them.    *)
(*                                                                         *)
(* A Database is named by the fence epoch it acquired; it lives as long as *)
(* somebody holds a reference.  Time is abstracted: an idle instance may   *)
(* have reached its idle_timeout whenever the reaper looks.                *)
(***************************************************************************)
EXTENDS Naturals, FiniteSets

CONSTANTS
    Callers,               \* threads that start and lease instances
    Urls,                  \* databases
    max_concurrent_warms,  \* ControllerConfig.max_concurrent_warms
    keep_warm,             \* ControllerConfig.keep_warm
    MaxStarts,             \* bound: calls of start
    MaxStops,              \* bound: calls of stop
    MaxTakeovers,          \* bound: other processes acquiring the fence
    MaxFailures            \* bound: failed opens and renewals

ASSUME ControllerAssumption ==
    /\ IsFiniteSet(Callers)
    /\ max_concurrent_warms \in Nat \ {0}
    /\ keep_warm \in BOOLEAN
    /\ MaxStarts \in Nat /\ MaxStops \in Nat
    /\ MaxTakeovers \in Nat /\ MaxFailures \in Nat

VARIABLES
    phase,     \* InstState.phase
    handle,    \* InstState.handle: the database's epoch, 0 for None
    active,    \* InstState.active
    cvWait,    \* callers parked on Instance.cv
    permits,   \* warm_sem
    registry,  \* the engine's Weak reference per URL, 0 for none
    epoch,     \* the durable fence epoch per URL
    pc,        \* what each caller does next
    want,      \* the URL of a caller's start
    db,        \* the Database a caller holds: its lease, or its open in progress
    since,     \* history: the epoch when the caller's open began
    reap,      \* the reaper: its instance, the phase and handle it saw, the verdict
    starts, stops, takeovers, failures   \* counters for the bounds

instVars  == <<phase, handle, active>>
callVars  == <<pc, want, db, since>>
countVars == <<starts, stops, takeovers, failures>>
vars == <<instVars, cvWait, permits, registry, epoch, callVars, reap, countVars>>

Resting == [pc |-> "rest"]

Init ==
    /\ phase = [u \in Urls |-> "Cold"]
    /\ handle = [u \in Urls |-> 0]
    /\ active = [u \in Urls |-> 0]
    /\ cvWait = {}
    /\ permits = max_concurrent_warms
    /\ registry = [u \in Urls |-> 0]
    /\ epoch = [u \in Urls |-> 0]
    /\ pc = [c \in Callers |-> "idle"]
    /\ want \in [Callers -> Urls]
    /\ db = [c \in Callers |-> 0]
    /\ since = [c \in Callers |-> 0]
    /\ reap = Resting
    /\ starts = 0 /\ stops = 0 /\ takeovers = 0 /\ failures = 0

Goto(c, l) == pc' = [pc EXCEPT ![c] = l]
NotifyAll(u) == cvWait' = {c \in cvWait : want[c] # u}

\* Somebody holds a reference to the database of u with epoch e: the instance, a
\* lease, an open in progress, or the reaper's clone.
Alive(u, e) ==
    \/ handle[u] = e
    \/ \E c \in Callers : want[c] = u /\ db[c] = e
    \/ reap.pc # "rest" /\ reap.url = u /\ reap.db = e

\* registry().get(key).and_then(Weak::upgrade)
Registered(u) == registry[u] # 0 /\ Alive(u, registry[u])

(* ------------------------- Controller::start --------------------------- *)

CallStart(c, u) ==
    /\ pc[c] = "idle"
    /\ starts < MaxStarts
    /\ starts' = starts + 1
    /\ want' = [want EXCEPT ![c] = u]
    /\ Goto(c, "start")
    /\ UNCHANGED <<instVars, cvWait, permits, registry, epoch, db, since, reap,
                   stops, takeovers, failures>>

CountLease(u) == active' = [active EXCEPT ![u] = @ + 1]

\* A warm instance: take a lease on it.
StartWarm(c) ==
    LET u == want[c] IN
    /\ pc[c] = "start" /\ c \notin cvWait
    /\ phase[u] \in {"Active", "Idle"}
    /\ phase' = [phase EXCEPT ![u] = "Active"]
    /\ CountLease(u)
    /\ db' = [db EXCEPT ![c] = handle[u]]
    /\ Goto(c, "leased")
    /\ UNCHANGED <<handle, cvWait, permits, registry, epoch, want, since, reap,
                   countVars>>

\* Mutant: the caller warms without marking the instance Warming.
StartColdUnmarked(c) ==
    /\ pc[c] = "start" /\ c \notin cvWait
    /\ phase[want[c]] = "Cold"
    /\ Goto(c, "admission")
    /\ UNCHANGED <<instVars, cvWait, permits, registry, epoch, want, db, since, reap,
                   countVars>>

\* A cold one: win the right to warm it.
StartCold(c) ==
    LET u == want[c] IN
    /\ pc[c] = "start" /\ c \notin cvWait
    /\ phase[u] = "Cold"
    /\ phase' = [phase EXCEPT ![u] = "Warming"]
    /\ Goto(c, "admission")
    /\ UNCHANGED <<handle, active, cvWait, permits, registry, epoch, want, db, since,
                   reap, countVars>>

\* One in transition: wait for it to settle, then look again.
StartWait(c) ==
    /\ pc[c] = "start" /\ c \notin cvWait
    /\ phase[want[c]] = "Warming"
    /\ cvWait' = cvWait \cup {c}
    /\ UNCHANGED <<instVars, permits, registry, epoch, callVars, reap, countVars>>

\* warm: admission control.
Admit(c) ==
    /\ pc[c] = "admission"
    /\ permits > 0
    /\ permits' = permits - 1
    /\ Goto(c, "open")
    /\ UNCHANGED <<instVars, cvWait, registry, epoch, want, db, since, reap, countVars>>

\* Database::open: share the registered database if it is alive ...
OpenLookup(c) ==
    LET u == want[c] IN
    /\ pc[c] = "open"
    /\ since' = [since EXCEPT ![c] = epoch[u]]
    /\ IF Registered(u)
       THEN db' = [db EXCEPT ![c] = registry[u]] /\ Goto(c, "opened")
       ELSE Goto(c, "acquire") /\ UNCHANGED db
    /\ UNCHANGED <<instVars, cvWait, permits, registry, epoch, want, reap, countVars>>

\* ... else acquire the fence and replay ...
OpenAcquire(c) ==
    LET u == want[c] IN
    /\ pc[c] = "acquire"
    /\ epoch' = [epoch EXCEPT ![u] = @ + 1]
    /\ db' = [db EXCEPT ![c] = epoch'[u]]
    /\ Goto(c, "register")
    /\ UNCHANGED <<instVars, cvWait, permits, registry, want, since, reap, countVars>>

\* ... and register, unless another open of the same URL got there first.
OpenRegister(c) ==
    LET u == want[c] IN
    /\ pc[c] = "register"
    /\ IF Registered(u)
       THEN db' = [db EXCEPT ![c] = registry[u]] /\ UNCHANGED registry
       ELSE registry' = [registry EXCEPT ![u] = db[c]] /\ UNCHANGED db
    /\ Goto(c, "opened")
    /\ UNCHANGED <<instVars, cvWait, permits, epoch, want, since, reap, countVars>>

OpenFails(c) ==
    /\ pc[c] \in {"acquire", "register"}
    /\ failures < MaxFailures
    /\ failures' = failures + 1
    /\ db' = [db EXCEPT ![c] = 0]
    /\ Goto(c, "opened")
    /\ UNCHANGED <<instVars, cvWait, permits, registry, epoch, want, since, reap,
                   starts, stops, takeovers>>

\* Mutant: a failed open leaks its permit.
ReadmitOnSuccess(c) ==
    /\ pc[c] = "opened"
    /\ permits' = IF db[c] # 0 THEN permits + 1 ELSE permits
    /\ Goto(c, "settle")
    /\ UNCHANGED <<instVars, cvWait, registry, epoch, want, db, since, reap, countVars>>

\* warm: give the permit back.
Readmit(c) ==
    /\ pc[c] = "opened"
    /\ permits' = permits + 1
    /\ Goto(c, "settle")
    /\ UNCHANGED <<instVars, cvWait, registry, epoch, want, db, since, reap, countVars>>

\* Mutant: the callers that wait for the warm are not told of it.
SettleSilently(c) ==
    LET u == want[c] IN
    /\ pc[c] = "settle" /\ db[c] # 0
    /\ phase' = [phase EXCEPT ![u] = "Active"]
    /\ handle' = [handle EXCEPT ![u] = db[c]]
    /\ CountLease(u)
    /\ since' = [since EXCEPT ![c] = 0]
    /\ Goto(c, "leased")
    /\ UNCHANGED <<cvWait, permits, registry, epoch, want, db, reap, countVars>>

\* start, after warm: the instance is Active under a lease ...
SettleOk(c) ==
    LET u == want[c] IN
    /\ pc[c] = "settle" /\ db[c] # 0
    /\ phase' = [phase EXCEPT ![u] = "Active"]
    /\ handle' = [handle EXCEPT ![u] = db[c]]
    /\ CountLease(u)
    /\ NotifyAll(u)
    /\ since' = [since EXCEPT ![c] = 0]
    /\ Goto(c, "leased")
    /\ UNCHANGED <<permits, registry, epoch, want, db, reap, countVars>>

\* ... or, the open having failed, Cold again.
SettleErr(c) ==
    LET u == want[c] IN
    /\ pc[c] = "settle" /\ db[c] = 0
    /\ phase' = [phase EXCEPT ![u] = "Cold"]
    /\ NotifyAll(u)
    /\ since' = [since EXCEPT ![c] = 0]
    /\ Goto(c, "idle")
    /\ UNCHANGED <<handle, active, permits, registry, epoch, want, db, reap, countVars>>

DropLease(c) ==
    LET u == want[c] IN
    /\ pc[c] = "leased"
    /\ active' = [active EXCEPT ![u] = IF @ = 0 THEN 0 ELSE @ - 1]
    /\ db' = [db EXCEPT ![c] = 0]
    /\ NotifyAll(u)
    /\ Goto(c, "idle")
    /\ UNCHANGED <<phase, handle, permits, registry, epoch, want, since, reap, countVars>>

(* --------------------------- stop and reaper --------------------------- *)

\* Controller::stop: force an instance without leases to Cold.
Stop(u) ==
    /\ stops < MaxStops
    /\ stops' = stops + 1
    /\ active[u] = 0
    /\ handle' = [handle EXCEPT ![u] = 0]
    /\ phase' = [phase EXCEPT ![u] = "Cold"]
    /\ NotifyAll(u)
    /\ UNCHANGED <<active, permits, registry, epoch, callVars, reap, starts, takeovers,
                   failures>>

\* reap_once: look at an instance that has a handle ...
ReapLook(u) ==
    /\ reap = Resting
    /\ handle[u] # 0
    /\ reap' = [pc |-> "renew", url |-> u, phase |-> phase[u], db |-> handle[u],
                fenced |-> FALSE]
    /\ UNCHANGED <<instVars, cvWait, permits, registry, epoch, callVars, countVars>>

\* ... renew the lease of a warm one, holding no lock ...
ReapRenew ==
    /\ reap.pc = "renew"
    /\ \/ /\ reap.phase \notin {"Active", "Idle"}
          /\ reap' = [reap EXCEPT !.pc = "act"]
          /\ UNCHANGED failures
       \/ /\ reap.phase \in {"Active", "Idle"}
          /\ reap' = [reap EXCEPT !.pc = "act", !.fenced = reap.db # epoch[reap.url]]
          /\ UNCHANGED failures
       \/ /\ reap.phase \in {"Active", "Idle"}
          /\ failures < MaxFailures
          /\ failures' = failures + 1
          /\ reap' = [reap EXCEPT !.pc = "act", !.fenced = TRUE]
    /\ UNCHANGED <<instVars, cvWait, permits, registry, epoch, callVars, starts, stops,
                   takeovers>>

\* Mutant: the handle is dropped and the phase left as it was.
DropHandleOnly(u) ==
    /\ handle' = [handle EXCEPT ![u] = 0]
    /\ NotifyAll(u)
    /\ UNCHANGED phase

\* ... and act on the answer: step down, idle out, stop, or re-activate.
StepDown(u) ==
    /\ handle' = [handle EXCEPT ![u] = 0]
    /\ phase' = [phase EXCEPT ![u] = "Cold"]
    /\ NotifyAll(u)

IdleOut(u) ==
    /\ active[u] = 0
    /\ LET p == IF phase[u] = "Active" THEN "Idle" ELSE phase[u] IN
       \/ /\ phase' = [phase EXCEPT ![u] = p]
          /\ UNCHANGED <<handle, cvWait>>
       \/ /\ p = "Idle" /\ ~keep_warm
          /\ StepDown(u)

ReapAct ==
    /\ reap.pc = "act"
    /\ LET u == reap.url IN
       \/ reap.fenced /\ StepDown(u)
       \/ ~reap.fenced /\ IdleOut(u)
       \/ /\ ~reap.fenced /\ active[u] > 0
          /\ phase' = [phase EXCEPT ![u] = IF @ = "Idle" THEN "Active" ELSE @]
          /\ UNCHANGED <<handle, cvWait>>
    /\ reap' = Resting
    /\ UNCHANGED <<active, permits, registry, epoch, callVars, countVars>>

(* ---------------------------- environment ------------------------------ *)

\* A writer in another process takes the fence of u over.
Takeover(u) ==
    /\ takeovers < MaxTakeovers
    /\ epoch[u] > 0
    /\ takeovers' = takeovers + 1
    /\ epoch' = [epoch EXCEPT ![u] = @ + 1]
    /\ UNCHANGED <<instVars, cvWait, permits, registry, callVars, reap, starts, stops,
                   failures>>

SpuriousWakeup(c) ==
    /\ c \in cvWait
    /\ cvWait' = cvWait \ {c}
    /\ UNCHANGED <<instVars, permits, registry, epoch, callVars, reap, countVars>>

Caller(c) ==
    \/ StartWarm(c) \/ StartCold(c) \/ StartWait(c) \/ Admit(c) \/ OpenLookup(c)
    \/ OpenAcquire(c) \/ OpenRegister(c) \/ OpenFails(c) \/ Readmit(c)
    \/ SettleOk(c) \/ SettleErr(c)

Reaper == (\E u \in Urls : ReapLook(u)) \/ ReapRenew \/ ReapAct

Next ==
    \/ \E c \in Callers :
          \/ Caller(c) \/ DropLease(c) \/ SpuriousWakeup(c)
          \/ \E u \in Urls : CallStart(c, u)
    \/ \E u \in Urls : Stop(u) \/ Takeover(u)
    \/ Reaper

Spec == Init /\ [][Next]_vars

\* The scheduler runs every thread inside start, and the reaper.
FairSpec == Spec /\ (\A c \in Callers : WF_vars(Caller(c))) /\ WF_vars(Reaper)

-----------------------------------------------------------------------------
(* Properties.                                                              *)

Phases == {"Cold", "Warming", "Active", "Idle"}
WarmPcs == {"admission", "open", "acquire", "register", "opened", "settle"}
CallerPcs == {"idle", "start", "leased"} \cup WarmPcs

TypeOK ==
    /\ phase \in [Urls -> Phases]
    /\ handle \in [Urls -> Nat]
    /\ active \in [Urls -> Nat]
    /\ cvWait \subseteq Callers
    /\ permits \in Nat
    /\ registry \in [Urls -> Nat]
    /\ epoch \in [Urls -> Nat]
    /\ pc \in [Callers -> CallerPcs]
    /\ want \in [Callers -> Urls]
    /\ db \in [Callers -> Nat]
    /\ since \in [Callers -> Nat]
    /\ reap \in {Resting} \cup [pc : {"renew", "act"}, url : Urls, phase : Phases,
                                db : Nat, fenced : BOOLEAN]
    /\ starts \in Nat /\ stops \in Nat /\ takeovers \in Nat /\ failures \in Nat

\* The phase tells the truth, whatever stops, the reaper and failed or racing
\* warms do between a warmer's two critical sections: a warm instance has a
\* handle (start's expect("active instance has a handle") never panics), and a
\* Warming one has a caller warming it, so that those who wait for it wait for
\* somebody.
PhaseSound ==
    \A u \in Urls :
        /\ phase[u] \in {"Active", "Idle"} => handle[u] # 0
        /\ phase[u] = "Warming" =>
              \E c \in Callers : want[c] = u /\ pc[c] \in WarmPcs

\* Nothing counted is lost or counted twice.  InstState.active is the number of
\* live leases, through fencing, forced stops and racing warms, and only an
\* instance nobody leases is Idle, so that the idle timeout never takes a
\* database from under a lease nor keeps one warm for ever; and at most
\* max_concurrent_warms opens run, every permit being given back, also when an
\* open fails (LeaseGuard, Semaphore).
Counted ==
    /\ \A u \in Urls :
          /\ active[u] = Cardinality({c \in Callers : pc[c] = "leased" /\ want[c] = u})
          /\ phase[u] = "Idle" => active[u] = 0
    /\ permits + Cardinality({c \in Callers :
          pc[c] \in {"open", "acquire", "register", "opened"}}) = max_concurrent_warms

\* start: "a burst of concurrent calls for one cold URL triggers exactly one
\* warm; the rest wait for it".
OneWarm ==
    \A c, d \in Callers :
        pc[c] \in WarmPcs /\ pc[d] \in WarmPcs /\ want[c] = want[d] => c = d

\* It does as long as nobody forces a stop, whatever fails or is fenced meanwhile.
OneWarmUnlessStopped == stops = 0 => OneWarm

\* A warm "acquires the writer fence": it never hands out a database whose epoch
\* was already superseded when the warm began.
WarmIsCurrent ==
    \A c \in Callers : pc[c] \in {"opened", "settle"} /\ db[c] # 0 => db[c] >= since[c]

\* Database::open "acquir[es] the writer fence": once no open is under way, and
\* as long as no other process takes over, the shared database holds the fence.
SharedDbHoldsFence ==
    takeovers = 0 /\ (\A c \in Callers : pc[c] \notin {"acquire", "register"}) =>
        \A u \in Urls : Registered(u) => registry[u] = epoch[u]

\* Every start returns: with a lease or with the open's error.
StartReturns ==
    \A c \in Callers : pc[c] = "start" ~> pc[c] \in {"leased", "idle"}
=============================================================================
