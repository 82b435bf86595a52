----------------------------- MODULE ServerRuntime -----------------------------
(***************************************************************************)
(* Requests on the tokio runtime (server/mod.rs, server/models/mod.rs).    *)
(*                                                                         *)
(* A query handler is an async fn without an await: it keeps its worker    *)
(* thread while it waits for the engine's std RwLock and while it          *)
(* evaluates.  refresh_data runs on the blocking pool, so its handler only *)
(* awaits; but it takes the write lock first and then reads the data files *)
(* through opendal's blocking operator.  For an object store that is a     *)
(* block_on whose socket only a worker thread can poll, for a local disk   *)
(* it is not.  In front of the handlers is ConcurrencyLimit, installed     *)
(* only if max_concurrency > 0.                                            *)
(***************************************************************************)
EXTENDS ConcurrencyLimit

CONSTANTS Queries, Refreshes,  \* what a request slot is used for
          Workers,             \* worker threads of the runtime
          RemoteIO             \* the data files are in an object store

ASSUME RuntimeAssumption ==
    /\ Queries \cup Refreshes = Requests /\ Queries \cap Refreshes = {}
    /\ Workers \in Nat \ {0} /\ RemoteIO \in BOOLEAN

VARIABLES
    step,   \* step[r] : what the handler of r does
    task    \* task[r] : what the blocking task of r does; it may outlive r

runtimeVars == <<st, permits, ahead, step, task>>

HasLimiter == MaxConcurrency > 0

\* The handlers that keep a worker thread.
Busy == {r \in Requests : step[r] \in {"lockWait", "reading"}}

FreeWorker == Cardinality(Busy) < Workers

Loading == \E f \in Requests : task[f] = "loading"
Reading == \E q \in Requests : step[q] = "reading"

------------------------------------------------------------------------------
(* Into and out of the handler.                                             *)

\* The poll that lets r through the limiter runs the handler up to its first
\* await: a query up to the lock, a refresh up to its spawned task.
RunHandler(r) ==
    IF st'[r] # "running" THEN UNCHANGED <<step, task>>
    ELSE IF r \in Queries
    THEN step' = [step EXCEPT ![r] = "lockWait"] /\ UNCHANGED task
    ELSE /\ step' = [step EXCEPT ![r] = "awaiting"]
         /\ task' = [task EXCEPT ![r] = "lockWait"]

\* Mutant of Enter: the routes are not behind the layer.
EnterUnlimited(r) ==
    /\ st[r] = "idle"
    /\ st' = [st EXCEPT ![r] = "running"]
    /\ UNCHANGED <<permits, ahead>>

\* run installs the layer only for a limit above zero.
Enter(r) ==
    \/ HasLimiter /\ TryAcquire(r)
    \/ /\ ~HasLimiter /\ st[r] = "idle"
       /\ st' = [st EXCEPT ![r] = "running"]
       /\ UNCHANGED <<permits, ahead>>

\* The request's future ends, or is dropped, with its permit.
Exit(r) ==
    \/ HasLimiter /\ Finish(r)
    \/ /\ ~HasLimiter /\ st[r] = "running"
       /\ st' = [st EXCEPT ![r] = "idle"]
       /\ UNCHANGED <<permits, ahead>>

Arrive(r) == FreeWorker /\ task[r] = "none" /\ Enter(r) /\ RunHandler(r)

\* The futures in the limiter need a worker to be polled, and so does the
\* timer of max_wait.
PollAcquire(r) == FreeWorker /\ Acquire(r) /\ RunHandler(r)
PollGranted(r) == FreeWorker /\ Resume(r) /\ RunHandler(r)
LeaveQueue(r)  == FreeWorker /\ GiveUp(r) /\ UNCHANGED <<step, task>>

------------------------------------------------------------------------------
(* Queries.                                                                 *)

TakeRead(r) ==
    /\ step[r] = "lockWait" /\ ~Loading
    /\ step' = [step EXCEPT ![r] = "reading"]
    /\ UNCHANGED <<st, permits, ahead, task>>

EndQuery(r) ==
    /\ step[r] = "reading"
    /\ step' = [step EXCEPT ![r] = "none"]
    /\ Exit(r)
    /\ UNCHANGED task

------------------------------------------------------------------------------
(* refresh_data.                                                            *)

\* Mutant of TakeWrite: the engine is taken from under the queries.
TakeWriteIgnoringReaders(r) ==
    /\ task[r] = "lockWait" /\ ~Loading
    /\ task' = [task EXCEPT ![r] = "loading"]
    /\ UNCHANGED <<st, permits, ahead, step>>

TakeWrite(r) ==
    /\ task[r] = "lockWait" /\ ~Loading /\ ~Reading
    /\ task' = [task EXCEPT ![r] = "loading"]
    /\ UNCHANGED <<st, permits, ahead, step>>

\* Mutant of EndLoad: the task returns a permit its request has not given it.
EndLoadReturningPermit(r) ==
    /\ task[r] = "loading" /\ (RemoteIO => FreeWorker)
    /\ task' = [task EXCEPT ![r] = "none"]
    /\ permits' = permits + 1
    /\ UNCHANGED <<st, ahead, step>>

\* The files are loaded, which for an object store takes a worker that polls
\* the sockets, and the write lock is released.
EndLoad(r) ==
    /\ task[r] = "loading" /\ (RemoteIO => FreeWorker)
    /\ task' = [task EXCEPT ![r] = "none"]
    /\ UNCHANGED <<st, permits, ahead, step>>

FinishRefresh(r) ==
    /\ FreeWorker
    /\ step[r] = "awaiting" /\ task[r] = "none"
    /\ step' = [step EXCEPT ![r] = "none"]
    /\ Exit(r)
    /\ UNCHANGED task

\* The client goes away while the handler awaits its task: the permit comes
\* back at once, and the task runs on.
DropRefresh(r) ==
    /\ FreeWorker
    /\ step[r] = "awaiting"
    /\ step' = [step EXCEPT ![r] = "none"]
    /\ Exit(r)
    /\ UNCHANGED task

------------------------------------------------------------------------------
RuntimeInit ==
    /\ LimiterInit
    /\ step = [r \in Requests |-> "none"]
    /\ task = [r \in Requests |-> "none"]

RuntimeNext ==
    \E r \in Requests :
        \/ Arrive(r) \/ PollAcquire(r) \/ PollGranted(r) \/ LeaveQueue(r)
        \/ TakeRead(r) \/ EndQuery(r)
        \/ TakeWrite(r) \/ EndLoad(r) \/ FinishRefresh(r) \/ DropRefresh(r)

\* Threads and woken futures go on.  The lock is taken and released by others
\* meanwhile, so whoever waits for it needs strong fairness: the RwLock wakes
\* its waiters.  No client has to call, to give up or to go away.
RuntimeFairness ==
    \A r \in Requests :
        /\ SF_runtimeVars(TakeRead(r) \/ TakeWrite(r))
        /\ WF_runtimeVars(PollAcquire(r)) /\ WF_runtimeVars(PollGranted(r))
        /\ WF_runtimeVars(EndQuery(r)) /\ WF_runtimeVars(EndLoad(r))
        /\ WF_runtimeVars(FinishRefresh(r))

RuntimeSpec == RuntimeInit /\ [][RuntimeNext]_runtimeVars

FairRuntimeSpec == RuntimeSpec /\ RuntimeFairness

------------------------------------------------------------------------------
(* Properties.                                                              *)

\* The values the variables take.
RuntimeTypeOK ==
    /\ LimiterTypeOK
    /\ step \in [Requests -> {"none", "lockWait", "reading", "awaiting"}]
    /\ task \in [Requests -> {"none", "lockWait", "loading"}]

\* With a limit below the number of worker threads the handlers that block
\* can never take the last one: health checks, timers and sockets always
\* have a thread, however long a refresh keeps the lock.
SomeWorkerIsFree == FreeWorker

\* A refresh never runs beside a query or another refresh on the engine,
\* whoever of their clients is still there.
RefreshExcludesReads ==
    \A f \in Requests :
        task[f] = "loading" =>
            ~Reading /\ \A g \in Requests : task[g] = "loading" => g = f

\* Every request is answered: it passes the queue, gets the lock and ends,
\* although others keep coming and a refresh holds the lock for its I/O.
EveryRequestIsAnswered ==
    \A r \in Requests : st[r] # "idle" ~> st[r] = "idle"

\* A refresh that holds the lock can go on while queries are in flight
\* (docs/models_api.md: refreshdata is "Safe to call while queries are
\* in-flight").
RefreshCanGoOn == Loading => (RemoteIO => FreeWorker)
==============================================================================
