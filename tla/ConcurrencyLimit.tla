--------------------------- MODULE ConcurrencyLimit ---------------------------
(***************************************************************************)
(* ConcurrencyLimitService::call (server/concurrency_limit.rs): a request  *)
(* takes a permit of a tokio semaphore, at once if there is one, otherwise *)
(* by queueing for at most max_wait, and holds it while the inner service  *)
(* runs.  The future may be dropped wherever it awaits: hyper drops it     *)
(* when the client goes away.                                              *)
(*                                                                         *)
(* The semaphore is external and modelled by what call relies on: waiters  *)
(* are served in the order they came, and a released permit goes to the    *)
(* first waiter before anyone else can take it.                            *)
(***************************************************************************)
EXTENDS Integers, FiniteSets

CONSTANTS Requests,        \* request slots; a slot is reused when its call ends
          MaxConcurrency   \* ServerConfig.concurrency.max_concurrency

ASSUME LimitAssumption == IsFiniteSet(Requests) /\ MaxConcurrency \in Nat

VARIABLES
    st,       \* st[r] : where call is
    permits,  \* permits left in the semaphore
    ahead     \* ahead[r] : the waiters in front of r

limiterVars == <<st, permits, ahead>>

Queued  == {r \in Requests : st[r] = "queued"}
Holders == {r \in Requests : st[r] \in {"granted", "running"}}

\* The queue once r has left it.
Without(r) == [q \in Requests |-> IF q = r THEN {} ELSE ahead[q] \ {r}]

First(r) == r \in Queued /\ ahead[r] = {}

------------------------------------------------------------------------------
\* try_acquire_owned.  On a miss call goes on to acquire_owned: between the
\* two a permit may come back.
TryAcquire(r) ==
    /\ st[r] = "idle"
    /\ \/ /\ permits > 0
          /\ permits' = permits - 1
          /\ st' = [st EXCEPT ![r] = "running"]
       \/ /\ permits = 0
          /\ st' = [st EXCEPT ![r] = "missed"]
          /\ UNCHANGED permits
    /\ UNCHANGED ahead

\* The first poll of acquire_owned takes a permit or joins the queue.
Acquire(r) ==
    /\ st[r] = "missed"
    /\ \/ /\ permits > 0
          /\ permits' = permits - 1
          /\ st' = [st EXCEPT ![r] = "running"]
          /\ UNCHANGED ahead
       \/ /\ permits = 0
          /\ st' = [st EXCEPT ![r] = "queued"]
          /\ ahead' = [ahead EXCEPT ![r] = Queued]
          /\ UNCHANGED permits

\* The queued future is polled again and finds its permit.
Resume(r) ==
    /\ st[r] = "granted"
    /\ st' = [st EXCEPT ![r] = "running"]
    /\ UNCHANGED <<permits, ahead>>

\* Mutant of Release: the permit goes back to the pool although some wait.
ReleaseToPool(r) ==
    /\ st' = [st EXCEPT ![r] = "idle"]
    /\ permits' = permits + 1
    /\ UNCHANGED ahead

\* A permit is dropped: to the first waiter if there is one.
Release(r) ==
    \/ /\ Queued = {}
       /\ st' = [st EXCEPT ![r] = "idle"]
       /\ permits' = permits + 1
       /\ UNCHANGED ahead
    \/ \E q \in Queued :
          /\ First(q)
          /\ st' = [st EXCEPT ![r] = "idle", ![q] = "granted"]
          /\ ahead' = Without(q)
          /\ UNCHANGED permits

\* r gives up a place it has no permit for.
Leave(r) ==
    /\ st' = [st EXCEPT ![r] = "idle"]
    /\ ahead' = Without(r)
    /\ UNCHANGED permits

\* Mutant of GiveUp: a permit assigned to a waiter that gives up is lost.
GiveUpLosingPermit(r) == st[r] \in {"queued", "granted"} /\ Leave(r)

\* The acquire_owned future is dropped; a permit assigned to it meanwhile is
\* handed on.
GiveUp(r) ==
    \/ st[r] = "queued" /\ Leave(r)
    \/ st[r] = "granted" /\ Release(r)

\* max_wait is over and the answer is 429.  The permit may have been assigned
\* between the last poll of acquire_owned and the poll of the timer.
Elapse(r) == GiveUp(r)

\* The client is gone and the future is dropped at its await.
Disconnect(r) == GiveUp(r)

\* inner.call has returned: drop(permit).
Finish(r) == st[r] = "running" /\ Release(r)

\* The future is dropped while inner.call awaits.
Abort(r) == st[r] = "running" /\ Release(r)

------------------------------------------------------------------------------
LimiterInit ==
    /\ st = [r \in Requests |-> "idle"]
    /\ permits = MaxConcurrency
    /\ ahead = [r \in Requests |-> {}]

LimiterNext ==
    \E r \in Requests :
        \/ TryAcquire(r) \/ Acquire(r) \/ Resume(r)
        \/ Elapse(r) \/ Disconnect(r)
        \/ Finish(r) \/ Abort(r)

\* The runtime polls every woken future, and the inner service always
\* returns.  Nobody has to time out, to disconnect or to call.
LimiterFairness ==
    \A r \in Requests :
        WF_limiterVars(Acquire(r)) /\ WF_limiterVars(Resume(r))
        /\ WF_limiterVars(Finish(r))

LimiterSpec == LimiterInit /\ [][LimiterNext]_limiterVars /\ LimiterFairness

------------------------------------------------------------------------------
(* Properties.                                                              *)

\* The values the variables take.
LimiterTypeOK ==
    /\ st \in [Requests -> {"idle", "missed", "queued", "granted", "running"}]
    /\ permits \in 0..MaxConcurrency
    /\ ahead \in [Requests -> SUBSET Requests]

\* No permit is lost or made up, whatever times out, disconnects or finishes
\* in whatever order: max_concurrency stays what it was configured to be.
PermitsAreConserved == permits + Cardinality(Holders) = MaxConcurrency

\* Nobody waits while a permit is free.
NobodyWaitsForAFreePermit == Queued # {} => permits = 0

\* The queue is a queue: of two waiters exactly one is in front of the other,
\* and nobody who has left it is in front of anyone.
QueueIsAnOrder ==
    /\ \A r \in Requests : ahead[r] \subseteq Queued \ {r}
    /\ \A p, q \in Queued : p # q => ((p \in ahead[q]) # (q \in ahead[p]))

\* A request that has just arrived never overtakes one that waits.
NoOvertaking ==
    [][\A r \in Requests :
          st[r] \in {"idle", "missed"} /\ st'[r] = "running" => Queued = {}
      ]_limiterVars

\* Every queued request gets a permit or gives up, even if no timer ever
\* fires and new requests keep coming.
QueuedIsServed ==
    \A r \in Requests : st[r] = "queued" ~> st[r] # "queued"
==============================================================================
