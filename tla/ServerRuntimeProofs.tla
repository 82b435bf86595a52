-------------------------- MODULE ServerRuntimeProofs --------------------------
(***************************************************************************)
(* Theorems about ConcurrencyLimit and ServerRuntime for any finite set of *)
(* requests, any limit and any number of workers.  With a limit, every     *)
(* step of the runtime is a step of the limiter or leaves it alone, so the *)
(* limiter's invariant carries over; a handler that runs holds a permit,   *)
(* so fewer permits than workers leave a worker free.                      *)
(***************************************************************************)
EXTENDS ServerRuntime, FiniteSetTheorems, TLAPS

------------------------------------------------------------------------------
(* The limiter: its four invariants are one inductive invariant together.   *)

\* The inductive invariant of the limiter.
LimiterInv ==
    /\ LimiterTypeOK
    /\ PermitsAreConserved
    /\ NobodyWaitsForAFreePermit
    /\ QueueIsAnOrder

\* A request that takes a permit is one holder more.
LEMMA OneHolderMore ==
    ASSUME NEW r \in Requests, r \notin Holders, Holders' = Holders \cup {r}
    PROVE  Cardinality(Holders') = Cardinality(Holders) + 1
BY FS_Subset, FS_AddElement, LimitAssumption DEF Holders

\* A request that returns its permit is one holder less.
LEMMA OneHolderLess ==
    ASSUME NEW r \in Requests, r \in Holders, Holders' = Holders \ {r}
    PROVE  Cardinality(Holders') = Cardinality(Holders) - 1
BY FS_Subset, FS_RemoveElement, LimitAssumption DEF Holders

\* A permit that is handed on leaves as many holders as before.
LEMMA HandedOn ==
    ASSUME NEW r \in Holders, NEW q \in Requests, q \notin Holders,
           Holders' = (Holders \ {r}) \cup {q}
    PROVE  Cardinality(Holders') = Cardinality(Holders)
<1>1. IsFiniteSet(Holders)
  BY FS_Subset, LimitAssumption DEF Holders
<1>2. /\ IsFiniteSet(Holders \ {r})
      /\ Cardinality(Holders \ {r}) = Cardinality(Holders) - 1
  BY <1>1, FS_RemoveElement
<1>3. Cardinality((Holders \ {r}) \cup {q}) = Cardinality(Holders \ {r}) + 1
  BY <1>2, FS_AddElement
<1>4. Cardinality(Holders) \in Nat
  BY <1>1, FS_CardinalityType
<1> QED
  BY <1>2, <1>3, <1>4

\* The number of holders is a number.
LEMMA HoldersAreFinite == IsFiniteSet(Holders) /\ Cardinality(Holders) \in Nat
BY FS_Subset, FS_CardinalityType, LimitAssumption DEF Holders

THEOREM LimiterInitInv == LimiterInit => LimiterInv
<1> SUFFICES ASSUME LimiterInit PROVE LimiterInv
  OBVIOUS
<1>1. Holders = {} /\ Queued = {}
  BY DEF LimiterInit, Holders, Queued
<1>2. LimiterTypeOK
  BY LimitAssumption DEF LimiterInit, LimiterTypeOK
<1>3. PermitsAreConserved
  BY <1>1, FS_EmptySet, LimitAssumption DEF LimiterInit, PermitsAreConserved
<1>4. NobodyWaitsForAFreePermit /\ QueueIsAnOrder
  BY <1>1 DEF LimiterInit, NobodyWaitsForAFreePermit, QueueIsAnOrder
<1> QED
  BY <1>2, <1>3, <1>4 DEF LimiterInv

\* A step that takes a permit out of the pool keeps the invariant.
LEMMA TakeKeepsInv ==
    ASSUME LimiterInv, NEW r \in Requests, st[r] \in {"idle", "missed"},
           permits > 0, permits' = permits - 1,
           st' = [st EXCEPT ![r] = "running"], UNCHANGED ahead
    PROVE  LimiterInv'
<1> USE DEF LimiterInv, LimiterTypeOK
<1>1. Queued' = Queued
  BY DEF Queued
<1>2. r \notin Holders /\ Holders' = Holders \cup {r}
  BY DEF Holders
<1>3. PermitsAreConserved'
  <2>1. Cardinality(Holders') = Cardinality(Holders) + 1
    BY <1>2, OneHolderMore
  <2>2. permits \in Nat /\ Cardinality(Holders) \in Nat
    BY HoldersAreFinite, LimitAssumption
  <2> QED
    BY <2>1, <2>2, LimitAssumption DEF PermitsAreConserved
<1>4. LimiterTypeOK'
  BY LimitAssumption
<1>5. NobodyWaitsForAFreePermit' /\ QueueIsAnOrder'
  BY <1>1, LimitAssumption DEF NobodyWaitsForAFreePermit, QueueIsAnOrder
<1> QED
  BY <1>3, <1>4, <1>5

\* A queue without one of its waiters is still a queue.
LEMMA ShorterQueue ==
    ASSUME LimiterTypeOK, QueueIsAnOrder, NEW r \in Requests,
           Queued' = Queued \ {r}, ahead' = Without(r)
    PROVE  QueueIsAnOrder'
<1>1. \A q \in Requests : ahead'[q] = IF q = r THEN {} ELSE ahead[q] \ {r}
  BY DEF Without
<1>2. Queued \subseteq Requests
  BY DEF Queued
<1>3. ASSUME NEW s \in Requests PROVE ahead'[s] \subseteq Queued' \ {s}
  <2>1. ahead[s] \subseteq Queued \ {s}
    BY DEF QueueIsAnOrder
  <2>2. ahead'[s] \subseteq ahead[s] \ {r}
    BY <1>1
  <2> QED
    BY <2>1, <2>2
<1>4. ASSUME NEW p \in Queued', NEW q \in Queued', p # q
      PROVE  (p \in ahead'[q]) # (q \in ahead'[p])
  <2>1. ahead'[q] = ahead[q] \ {r} /\ ahead'[p] = ahead[p] \ {r}
    BY <1>1, <1>2
  <2>2. (p \in ahead[q]) # (q \in ahead[p])
    BY <1>4 DEF QueueIsAnOrder
  <2>3. (p \in ahead'[q] <=> p \in ahead[q]) /\ (q \in ahead'[p] <=> q \in ahead[p])
    BY <2>1
  <2> QED
    BY <2>2, <2>3
<1> QED
  BY <1>3, <1>4 DEF QueueIsAnOrder

\* A step that gives up a place without a permit keeps the invariant.
LEMMA LeaveKeepsInv ==
    ASSUME LimiterInv, NEW r \in Requests, st[r] = "queued", Leave(r)
    PROVE  LimiterInv'
<1> USE DEF LimiterInv, LimiterTypeOK, Leave, Without
<1>1. Queued' = Queued \ {r}
  BY DEF Queued
<1>2. Holders' = Holders
  BY DEF Holders
<1>3. LimiterTypeOK' /\ PermitsAreConserved'
  BY <1>2 DEF PermitsAreConserved
<1>4. NobodyWaitsForAFreePermit'
  BY <1>1 DEF NobodyWaitsForAFreePermit
<1>5. QueueIsAnOrder'
  BY <1>1, ShorterQueue
<1> QED
  BY <1>3, <1>4, <1>5

\* A step that returns a permit keeps the invariant.
LEMMA ReleaseKeepsInv ==
    ASSUME LimiterInv, NEW r \in Requests, r \in Holders, Release(r)
    PROVE  LimiterInv'
<1> USE DEF LimiterInv, LimiterTypeOK
<1>1. CASE /\ Queued = {}
           /\ st' = [st EXCEPT ![r] = "idle"]
           /\ permits' = permits + 1
           /\ UNCHANGED ahead
  <2>1. Holders' = Holders \ {r} /\ Queued' = {}
    BY <1>1 DEF Holders, Queued
  <2>2. PermitsAreConserved' /\ Cardinality(Holders') \in Nat
    <3>1. Cardinality(Holders') = Cardinality(Holders) - 1
      BY <2>1, OneHolderLess
    <3>2. Cardinality(Holders') \in Nat
      BY <2>1, HoldersAreFinite, FS_RemoveElement, FS_CardinalityType
    <3>3. permits \in Nat /\ Cardinality(Holders) \in Nat
      BY HoldersAreFinite, LimitAssumption
    <3> QED
      BY <1>1, <3>1, <3>2, <3>3, LimitAssumption DEF PermitsAreConserved
  <2>3. LimiterTypeOK'
    BY <1>1, <2>2, LimitAssumption DEF PermitsAreConserved
  <2>4. NobodyWaitsForAFreePermit' /\ QueueIsAnOrder'
    BY <1>1, <2>1 DEF NobodyWaitsForAFreePermit, QueueIsAnOrder
  <2> QED
    BY <2>2, <2>3, <2>4
<1>2. ASSUME NEW q \in Queued, First(q),
             st' = [st EXCEPT ![r] = "idle", ![q] = "granted"],
             ahead' = Without(q), UNCHANGED permits
      PROVE  LimiterInv'
  <2> USE DEF Without
  <2>1. q \in Requests /\ q \notin Holders /\ q # r
    BY DEF Queued, Holders
  <2>2. Queued' = Queued \ {q}
    BY <1>2, <2>1 DEF Queued, Holders
  <2>3. Holders' = (Holders \ {r}) \cup {q}
    BY <1>2, <2>1 DEF Holders
  <2>4. PermitsAreConserved'
    BY <1>2, <2>1, <2>3, HandedOn DEF PermitsAreConserved
  <2>5. LimiterTypeOK'
    BY <1>2, <2>1
  <2>6. NobodyWaitsForAFreePermit'
    BY <1>2, <2>2 DEF NobodyWaitsForAFreePermit
  <2>7. QueueIsAnOrder'
    BY <1>2, <2>1, <2>2, ShorterQueue
  <2> QED
    BY <2>4, <2>5, <2>6, <2>7
<1> QED
  BY <1>1, <1>2 DEF Release

\* Every step of call keeps the invariant.
THEOREM LimiterNextInv == LimiterInv /\ [LimiterNext]_limiterVars => LimiterInv'
<1> SUFFICES ASSUME LimiterInv, [LimiterNext]_limiterVars PROVE LimiterInv'
  OBVIOUS
<1> USE DEF LimiterInv, LimiterTypeOK
<1>1. ASSUME NEW r \in Requests, TryAcquire(r) PROVE LimiterInv'
  <2>1. CASE permits > 0
    BY <1>1, <2>1, TakeKeepsInv DEF TryAcquire
  <2>2. CASE permits = 0
    <3>1. Queued' = Queued /\ Holders' = Holders
      BY <1>1, <2>2 DEF TryAcquire, Queued, Holders
    <3> QED
      BY <1>1, <2>2, <3>1 DEF TryAcquire, PermitsAreConserved,
         NobodyWaitsForAFreePermit, QueueIsAnOrder
  <2> QED
    BY <1>1, <2>1, <2>2 DEF TryAcquire
<1>2. ASSUME NEW r \in Requests, Acquire(r) PROVE LimiterInv'
  <2>1. CASE permits > 0
    BY <1>2, <2>1, TakeKeepsInv DEF Acquire
  <2>2. CASE permits = 0
    <3>1. Queued' = Queued \cup {r} /\ Holders' = Holders /\ r \notin Queued
      BY <1>2, <2>2 DEF Acquire, Queued, Holders
    <3>2. ahead' = [ahead EXCEPT ![r] = Queued] /\ Queued \subseteq Requests
      BY <1>2, <2>2 DEF Acquire, Queued
    <3>3. LimiterTypeOK' /\ PermitsAreConserved' /\ NobodyWaitsForAFreePermit'
      BY <1>2, <2>2, <3>1, <3>2 DEF Acquire, PermitsAreConserved,
         NobodyWaitsForAFreePermit
    <3>4. QueueIsAnOrder'
      BY <3>1, <3>2 DEF QueueIsAnOrder
    <3> QED
      BY <3>3, <3>4
  <2> QED
    BY <1>2, <2>1, <2>2 DEF Acquire
<1>3. ASSUME NEW r \in Requests, Resume(r) PROVE LimiterInv'
  <2>1. Queued' = Queued /\ Holders' = Holders
    BY <1>3 DEF Resume, Queued, Holders
  <2> QED
    BY <1>3, <2>1 DEF Resume, PermitsAreConserved, NobodyWaitsForAFreePermit,
       QueueIsAnOrder
<1>4. ASSUME NEW r \in Requests, GiveUp(r) PROVE LimiterInv'
  BY <1>4, LeaveKeepsInv, ReleaseKeepsInv DEF GiveUp, Holders
<1>5. ASSUME NEW r \in Requests, Finish(r) \/ Abort(r) PROVE LimiterInv'
  BY <1>5, ReleaseKeepsInv DEF Finish, Abort, Holders
<1>6. CASE UNCHANGED limiterVars
  BY <1>6 DEF limiterVars, PermitsAreConserved, NobodyWaitsForAFreePermit,
     QueueIsAnOrder, Queued, Holders
<1> QED
  BY <1>1, <1>2, <1>3, <1>4, <1>5, <1>6 DEF LimiterNext, Elapse, Disconnect

\* The invariant holds always.
THEOREM LimiterIsSound == LimiterSpec => []LimiterInv
<1> QED
  BY LimiterInitInv, LimiterNextInv, PTL DEF LimiterSpec

\* No permit is ever lost or made up (concurrency_limit.rs, call), for any
\* number of requests and any limit.
THEOREM PermitsAreConservedAlways == LimiterSpec => []PermitsAreConserved
<1>1. LimiterInv => PermitsAreConserved
  BY DEF LimiterInv
<1> QED
  BY <1>1, LimiterIsSound, PTL

\* Nobody ever waits in acquire_owned while a permit is free.
THEOREM NobodyWaitsAlways == LimiterSpec => []NobodyWaitsForAFreePermit
<1>1. LimiterInv => NobodyWaitsForAFreePermit
  BY DEF LimiterInv
<1> QED
  BY <1>1, LimiterIsSound, PTL

\* The waiters form one order, whoever leaves it and from which place.
THEOREM QueueIsAlwaysAnOrder == LimiterSpec => []QueueIsAnOrder
<1>1. LimiterInv => QueueIsAnOrder
  BY DEF LimiterInv
<1> QED
  BY <1>1, LimiterIsSound, PTL

\* A new request never overtakes a queued one: try_acquire_owned succeeds
\* only when nobody waits.
THEOREM NobodyOvertakes == LimiterSpec => NoOvertaking
<1> DEFINE Fair ==
      \A r \in Requests :
          st[r] \in {"idle", "missed"} /\ st'[r] = "running" => Queued = {}
<1>1. LimiterInv /\ [LimiterNext]_limiterVars => [Fair]_limiterVars
  <2> SUFFICES ASSUME LimiterInv, LimiterNext, NEW r \in Requests,
                      st[r] \in {"idle", "missed"}, st'[r] = "running"
               PROVE  Queued = {}
    BY DEF limiterVars
  <2> USE DEF LimiterInv, LimiterTypeOK
  <2>1. PICK s \in Requests :
            \/ TryAcquire(s) \/ Acquire(s) \/ Resume(s)
            \/ Elapse(s) \/ Disconnect(s) \/ Finish(s) \/ Abort(s)
    BY DEF LimiterNext
  <2>2. CASE TryAcquire(s) \/ Acquire(s)
    BY <2>2, LimitAssumption DEF TryAcquire, Acquire, NobodyWaitsForAFreePermit
  <2>3. CASE Resume(s)
    BY <2>3 DEF Resume
  <2>4. ASSUME Leave(s) \/ Release(s) PROVE FALSE
    BY <2>4 DEF Leave, Release, Queued
  <2> QED
    BY <2>1, <2>2, <2>3, <2>4 DEF Elapse, Disconnect, GiveUp, Finish, Abort
<1> QED
  BY <1>1, LimiterIsSound, PTL DEF LimiterSpec, NoOvertaking

------------------------------------------------------------------------------
(* The runtime.                                                             *)

\* The types of the handlers and their tasks.
HandlerTypes ==
    /\ step \in [Requests -> {"none", "lockWait", "reading", "awaiting"}]
    /\ task \in [Requests -> {"none", "lockWait", "loading"}]

\* The inductive invariant of the lock.
LockInv == HandlerTypes /\ RefreshExcludesReads

\* The inductive invariant with a limiter: who has a handler has a permit.
HandlersHold == \A r \in Requests : step[r] # "none" => st[r] = "running"
LimitedInv == LimiterInv /\ HandlerTypes /\ HandlersHold

\* The inductive invariant without one: the limiter's state is never used.
UnlimitedInv ==
    /\ st \in [Requests -> {"idle", "running"}]
    /\ permits = MaxConcurrency
    /\ ahead \in [Requests -> SUBSET Requests]
    /\ HandlerTypes

LEMMA InitHandlerTypes == RuntimeInit => HandlerTypes
BY DEF RuntimeInit, HandlerTypes

LEMMA NextHandlerTypes ==
    HandlerTypes /\ [RuntimeNext]_runtimeVars => HandlerTypes'
<1> SUFFICES ASSUME HandlerTypes, [RuntimeNext]_runtimeVars PROVE HandlerTypes'
  OBVIOUS
<1> USE DEF HandlerTypes
<1>1. ASSUME NEW r \in Requests, RunHandler(r) PROVE HandlerTypes'
  BY <1>1 DEF RunHandler
<1>2. ASSUME NEW r \in Requests,
             \/ Arrive(r) \/ PollAcquire(r) \/ PollGranted(r) \/ LeaveQueue(r)
      PROVE  HandlerTypes'
  BY <1>1, <1>2 DEF Arrive, PollAcquire, PollGranted, LeaveQueue
<1>3. ASSUME NEW r \in Requests,
             \/ TakeRead(r) \/ EndQuery(r) \/ TakeWrite(r) \/ EndLoad(r)
             \/ FinishRefresh(r) \/ DropRefresh(r)
      PROVE  HandlerTypes'
  BY <1>3 DEF TakeRead, EndQuery, TakeWrite, EndLoad, FinishRefresh, DropRefresh
<1>4. CASE UNCHANGED runtimeVars
  BY <1>4 DEF runtimeVars
<1> QED
  BY <1>2, <1>3, <1>4 DEF RuntimeNext

\* Every step of the runtime keeps refreshes and queries apart.
LEMMA NextLockInv == LockInv /\ [RuntimeNext]_runtimeVars => LockInv'
<1> SUFFICES ASSUME LockInv, [RuntimeNext]_runtimeVars PROVE RefreshExcludesReads'
  BY NextHandlerTypes DEF LockInv
<1> USE DEF LockInv, HandlerTypes, RefreshExcludesReads, Reading, Loading
<1>1. ASSUME NEW r \in Requests, RunHandler(r) PROVE RefreshExcludesReads'
  BY <1>1 DEF RunHandler
<1>2. ASSUME NEW r \in Requests,
             \/ Arrive(r) \/ PollAcquire(r) \/ PollGranted(r) \/ LeaveQueue(r)
      PROVE  RefreshExcludesReads'
  BY <1>1, <1>2 DEF Arrive, PollAcquire, PollGranted, LeaveQueue
<1>3. ASSUME NEW r \in Requests, TakeRead(r) PROVE RefreshExcludesReads'
  BY <1>3 DEF TakeRead
<1>4. ASSUME NEW r \in Requests, TakeWrite(r) PROVE RefreshExcludesReads'
  BY <1>4 DEF TakeWrite
<1>5. ASSUME NEW r \in Requests,
             EndQuery(r) \/ EndLoad(r) \/ FinishRefresh(r) \/ DropRefresh(r)
      PROVE  RefreshExcludesReads'
  BY <1>5 DEF EndQuery, EndLoad, FinishRefresh, DropRefresh
<1>6. CASE UNCHANGED runtimeVars
  BY <1>6 DEF runtimeVars
<1> QED
  BY <1>2, <1>3, <1>4, <1>5, <1>6 DEF RuntimeNext

\* No refresh ever runs beside a query or another refresh on the engine,
\* with or without a limiter, whatever clients come and go.
THEOREM RefreshExcludesReadsAlways == RuntimeSpec => []RefreshExcludesReads
<1>1. RuntimeInit => LockInv
  BY InitHandlerTypes DEF LockInv, RuntimeInit, RefreshExcludesReads, Reading
<1>2. LockInv => RefreshExcludesReads
  BY DEF LockInv
<1> QED
  BY <1>1, <1>2, NextLockInv, PTL DEF RuntimeSpec

------------------------------------------------------------------------------
\* Behind a limiter, the runtime moves the limiter only as call does.
LEMMA RuntimeStepsAreLimiterSteps ==
    HasLimiter /\ [RuntimeNext]_runtimeVars => [LimiterNext]_limiterVars
<1> SUFFICES ASSUME HasLimiter, [RuntimeNext]_runtimeVars
             PROVE  [LimiterNext]_limiterVars
  OBVIOUS
<1>1. ASSUME NEW r \in Requests, Arrive(r) \/ PollAcquire(r) \/ PollGranted(r)
      PROVE  LimiterNext
  BY <1>1 DEF Arrive, Enter, PollAcquire, PollGranted, LimiterNext
<1>2. ASSUME NEW r \in Requests, LeaveQueue(r) PROVE LimiterNext
  BY <1>2 DEF LeaveQueue, LimiterNext, Elapse
<1>3. ASSUME NEW r \in Requests, EndQuery(r) \/ FinishRefresh(r) \/ DropRefresh(r)
      PROVE  LimiterNext
  BY <1>3 DEF EndQuery, FinishRefresh, DropRefresh, Exit, LimiterNext
<1>4. ASSUME NEW r \in Requests, TakeRead(r) \/ TakeWrite(r) \/ EndLoad(r)
      PROVE  UNCHANGED limiterVars
  BY <1>4 DEF TakeRead, TakeWrite, EndLoad, limiterVars
<1>5. CASE UNCHANGED runtimeVars
  BY <1>5 DEF runtimeVars, limiterVars
<1> QED
  BY <1>1, <1>2, <1>3, <1>4, <1>5 DEF RuntimeNext

\* A handler keeps its permit until it ends.
LEMMA NextHandlersHold ==
    LimitedInv /\ HasLimiter /\ [RuntimeNext]_runtimeVars => HandlersHold'
<1> SUFFICES ASSUME LimitedInv, HasLimiter, [RuntimeNext]_runtimeVars
             PROVE  HandlersHold'
  OBVIOUS
<1> USE DEF LimitedInv, LimiterInv, LimiterTypeOK, HandlerTypes, HandlersHold
<1>1. ASSUME NEW r \in Requests, RunHandler(r),
             TryAcquire(r) \/ Acquire(r) \/ Resume(r)
      PROVE  HandlersHold'
  BY <1>1 DEF RunHandler, TryAcquire, Acquire, Resume
<1>2. ASSUME NEW r \in Requests, Arrive(r) \/ PollAcquire(r) \/ PollGranted(r)
      PROVE  HandlersHold'
  BY <1>1, <1>2 DEF Arrive, Enter, PollAcquire, PollGranted
<1>3. ASSUME NEW r \in Requests, LeaveQueue(r) PROVE HandlersHold'
  BY <1>3 DEF LeaveQueue, GiveUp, Leave, Release, Queued
<1>4. ASSUME NEW r \in Requests, Release(r), step' = [step EXCEPT ![r] = "none"]
      PROVE  HandlersHold'
  BY <1>4 DEF Release, Queued
<1>5. ASSUME NEW r \in Requests, EndQuery(r) \/ FinishRefresh(r) \/ DropRefresh(r)
      PROVE  HandlersHold'
  BY <1>4, <1>5 DEF EndQuery, FinishRefresh, DropRefresh, Exit, Finish
<1>6. ASSUME NEW r \in Requests, TakeRead(r) \/ TakeWrite(r) \/ EndLoad(r)
      PROVE  HandlersHold'
  BY <1>6 DEF TakeRead, TakeWrite, EndLoad
<1>7. CASE UNCHANGED runtimeVars
  BY <1>7 DEF runtimeVars
<1> QED
  BY <1>2, <1>3, <1>5, <1>6, <1>7 DEF RuntimeNext

\* The invariant of a runtime behind a limiter.
THEOREM LimitedInvAlways == HasLimiter => (RuntimeSpec => []LimitedInv)
<1> SUFFICES ASSUME HasLimiter PROVE RuntimeSpec => []LimitedInv
  OBVIOUS
<1>1. RuntimeInit => LimitedInv
  BY InitHandlerTypes, LimiterInitInv DEF LimitedInv, HandlersHold, RuntimeInit
<1>2. LimitedInv /\ [RuntimeNext]_runtimeVars => LimitedInv'
  BY RuntimeStepsAreLimiterSteps, LimiterNextInv, NextHandlerTypes,
     NextHandlersHold DEF LimitedInv
<1> QED
  BY <1>1, <1>2, PTL DEF RuntimeSpec

\* With 0 < max_concurrency < worker threads a worker is always free: the
\* handlers that wait for the lock never stop the refresh that holds it.
THEOREM SomeWorkerIsFreeAlways ==
    HasLimiter /\ MaxConcurrency < Workers => (RuntimeSpec => []SomeWorkerIsFree)
<1> SUFFICES ASSUME HasLimiter, MaxConcurrency < Workers
             PROVE  RuntimeSpec => []SomeWorkerIsFree
  OBVIOUS
<1>1. LimitedInv => SomeWorkerIsFree
  <2> SUFFICES ASSUME LimitedInv PROVE Cardinality(Busy) < Workers
    BY DEF SomeWorkerIsFree, FreeWorker
  <2>1. Busy \subseteq Holders
    BY DEF Busy, Holders, LimitedInv, HandlersHold
  <2>2. Cardinality(Busy) \in Nat /\ Cardinality(Busy) <= Cardinality(Holders)
    BY <2>1, HoldersAreFinite, FS_Subset, FS_CardinalityType
  <2>3. Cardinality(Holders) \in Nat /\ permits \in Nat
    BY HoldersAreFinite, LimitAssumption DEF LimitedInv, LimiterInv, LimiterTypeOK
  <2>4. permits + Cardinality(Holders) = MaxConcurrency
    BY DEF LimitedInv, LimiterInv, PermitsAreConserved
  <2> QED
    BY <2>2, <2>3, <2>4, LimitAssumption, RuntimeAssumption
<1> QED
  BY <1>1, LimitedInvAlways, PTL

\* Hence a refresh that holds the lock can go on (docs/models_api.md: "Safe
\* to call while queries are in-flight"), which a server with the default
\* max_concurrency = 0 does not guarantee.
THEOREM RefreshCanGoOnAlways ==
    HasLimiter /\ MaxConcurrency < Workers => (RuntimeSpec => []RefreshCanGoOn)
<1>1. SomeWorkerIsFree => RefreshCanGoOn
  BY DEF SomeWorkerIsFree, RefreshCanGoOn
<1> QED
  BY <1>1, SomeWorkerIsFreeAlways, PTL

\* Without a limiter every request runs at once, and nothing queues.
LEMMA NextUnlimited ==
    UnlimitedInv /\ ~HasLimiter /\ [RuntimeNext]_runtimeVars => UnlimitedInv'
<1> SUFFICES ASSUME UnlimitedInv, ~HasLimiter, [RuntimeNext]_runtimeVars
             PROVE  UnlimitedInv'
  OBVIOUS
<1>1. HandlerTypes'
  BY NextHandlerTypes DEF UnlimitedInv
<1> USE DEF UnlimitedInv
<1>2. ASSUME NEW r \in Requests, Enter(r) \/ Exit(r) PROVE UnlimitedInv'
  BY <1>1, <1>2 DEF Enter, Exit
<1>3. ASSUME NEW r \in Requests,
             \/ Arrive(r) \/ EndQuery(r) \/ FinishRefresh(r) \/ DropRefresh(r)
      PROVE  UnlimitedInv'
  BY <1>2, <1>3 DEF Arrive, EndQuery, FinishRefresh, DropRefresh
<1>4. ASSUME NEW r \in Requests, PollAcquire(r) \/ PollGranted(r) \/ LeaveQueue(r)
      PROVE  FALSE
  BY <1>4 DEF PollAcquire, Acquire, PollGranted, Resume, LeaveQueue, GiveUp
<1>5. ASSUME NEW r \in Requests, TakeRead(r) \/ TakeWrite(r) \/ EndLoad(r)
      PROVE  UnlimitedInv'
  BY <1>1, <1>5 DEF TakeRead, TakeWrite, EndLoad
<1>6. CASE UNCHANGED runtimeVars
  BY <1>1, <1>6 DEF runtimeVars
<1> QED
  BY <1>3, <1>4, <1>5, <1>6 DEF RuntimeNext

\* Type correctness, with and without a limiter.
THEOREM RuntimeTypesAlways == RuntimeSpec => []RuntimeTypeOK
<1>1. CASE HasLimiter
  <2>1. LimitedInv => RuntimeTypeOK
    BY DEF LimitedInv, LimiterInv, RuntimeTypeOK, HandlerTypes
  <2> QED
    BY <1>1, <2>1, LimitedInvAlways, PTL
<1>2. CASE ~HasLimiter
  <2>1. RuntimeInit => UnlimitedInv
    BY InitHandlerTypes DEF RuntimeInit, LimiterInit, UnlimitedInv
  <2>2. UnlimitedInv /\ [RuntimeNext]_runtimeVars => UnlimitedInv'
    BY <1>2, NextUnlimited
  <2>3. UnlimitedInv => RuntimeTypeOK
    BY LimitAssumption DEF UnlimitedInv, RuntimeTypeOK, LimiterTypeOK, HandlerTypes
  <2> QED
    BY <2>1, <2>2, <2>3, PTL DEF RuntimeSpec
<1> QED
  BY <1>1, <1>2
==============================================================================
