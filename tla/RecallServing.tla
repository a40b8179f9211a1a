---------------------------- MODULE RecallServing ----------------------------
(***************************************************************************)
(* memory.Server serving recall_facts: the cache (RecallCache) and the     *)
(* recall counter (RecallCounter) wired together as NewServer and Start    *)
(* wire them.                                                              *)
(*                                                                         *)
(*   cache -> counter   a hit (under the entry's mutex) and a leader       *)
(*                      (before FinishRecall) call countRecalls, which     *)
(*                      may block in enqueueBatch on a full channel        *)
(*   counter -> cache   after every SetPayload the worker calls            *)
(*                      Cache.Invalidate, which waits for the mutexes of   *)
(*                      the entries it removed                             *)
(*                                                                         *)
(* The counter's worker is thus a mutator of the cache, here the only one  *)
(* that moves: RecallCache covers any number of them.  Its calls are the   *)
(* counter's calls.                                                        *)
(***************************************************************************)
EXTENDS RecallCache, Sequences

CONSTANTS
    Facts,       \* point IDs
    Worker,      \* the recall counter's worker, as a mutator of the cache
    QueueSize,   \* capacity of the counter's channel
    Faults,      \* may the worker's Qdrant calls fail?
    Rewrites     \* RecallCounter: may other tools rewrite the points?

VARIABLES
    epc, batch, queue, accepting, cancelled, wpc, final, pending, todo,
    current, seen, stored, rewriting, spc

Counter == INSTANCE RecallCounter

ASSUME ServingAssumption == Worker \in Mutators /\ Counter!CounterAssumption

counterVars == <<epc, batch, queue, accepting, cancelled, wpc, final, pending,
                 todo, current, seen, stored, rewriting, spc>>
servingVars == <<vars, counterVars>>

ServingInit == Init /\ Counter!Init

------------------------------------------------------------------------------
(* recall_facts. *)

\* The steps of a call outside countRecalls.
CacheStep(r) ==
    /\ \/ Begin(r)
       \/ Lookup(r)
       \/ LockEntry(r)
       \/ CheckEntry(r)
       \/ Wake(r)
       \/ Search(r)
       \/ rpc[r] = "search" /\ Abort(r)
    /\ UNCHANGED counterVars

StopWaiting(r) == CancelWait(r) /\ UNCHANGED counterVars

\* countRecalls runs in updateHit, or between the search and FinishRecall.
InCountRecalls(r) == rpc[r] \in {"hit", "count"}

Enqueue(r) ==
    /\ InCountRecalls(r)
    /\ Counter!SenderStep(r)
    /\ UNCHANGED vars

GiveUp(r) ==
    /\ InCountRecalls(r)
    /\ Counter!GiveUp(r)
    /\ UNCHANGED vars

\* countRecalls returned: only now is the entry's mutex, or the lease, given
\* up.
Counted(r) ==
    /\ epc[r] = "sent"
    /\ HitReturn(r) \/ Publish(r)
    /\ UNCHANGED counterVars

CountFailed(r) ==
    /\ epc[r] = "refused"
    /\ HitFail(r) \/ (rpc[r] = "count" /\ Abort(r))
    /\ UNCHANGED counterVars

CallStep(r) ==
    CacheStep(r) \/ Enqueue(r) \/ Counted(r) \/ CountFailed(r)

------------------------------------------------------------------------------
(* The worker. *)

\* SetPayload: the point's new count is a write to the store the cache
\* answers from.
WorkerSet ==
    /\ Counter!FlushSet
    /\ Dispatch(Worker)
    /\ (store' # store) <=> (stored' # stored)

\* invalidateCache.
WorkerInvalidate ==
    /\ wpc = "invalidate"
    /\ Invalidate(Worker) \/ AwaitEntry(Worker)
    /\ UNCHANGED counterVars

\* Mutant: the worker forgets invalidateCache.
WorkerSkipsInvalidate ==
    /\ Counter!FlushNext
    /\ UNCHANGED vars

WorkerNext == Counter!FlushNext /\ Return(Worker)

WorkerLoop ==
    /\ \/ Counter!Receive
       \/ Counter!Tick
       \/ Counter!FinalFlush
       \/ \E f \in Facts : Counter!FlushGet(f)
       \/ Counter!FlushEnd
    /\ UNCHANGED vars

NoticeCancel == Counter!NoticeCancel /\ UNCHANGED vars

Abandon == Counter!Abandon /\ UNCHANGED vars

WorkerStep ==
    WorkerLoop \/ WorkerSet \/ WorkerInvalidate \/ WorkerNext \/ NoticeCancel

------------------------------------------------------------------------------
StopBegin == Counter!StopBegin /\ UNCHANGED vars

StopStep == Counter!StopStep /\ UNCHANGED vars

StopExpire == Counter!StopExpire /\ UNCHANGED vars

ServingNext ==
    \/ \E r \in Requests : CallStep(r) \/ StopWaiting(r) \/ GiveUp(r)
    \/ WorkerStep
    \/ Abandon
    \/ StopBegin
    \/ StopStep
    \/ StopExpire

ServingSpec == ServingInit /\ [][ServingNext]_servingVars

\* The goroutines that can run do; no client has to give up and nobody has
\* to stop the server.
Fairness ==
    /\ \A r \in Requests : WF_servingVars(rpc[r] # "idle" /\ CallStep(r))
    /\ WF_servingVars(WorkerStep)
    /\ SF_servingVars(NoticeCancel)
    /\ SF_servingVars(Abandon)
    /\ WF_servingVars(StopStep)

FairSpec == ServingSpec /\ Fairness

------------------------------------------------------------------------------
(* Properties. *)

\* Accepted recalls count once at most, refused ones not at all, and none is
\* accepted that the final flush does not see (RecallCounter).
CountsAreTrue == Counter!CountsAreTrue

\* Once Shutdown has begun the counter's worker exits (RecallCounter).
WorkerExits == Counter!WorkerExits

\* Recall counts are written behind the cache's back, yet outside the short
\* window in which the worker has written and not yet invalidated, every
\* published entry was read from the store as it is (the increments a hit
\* adds to its own entry in advance apart).
CacheShowsPersistedCounts ==
    wpc # "invalidate" =>
        \A k \in Keys : recalls[k] # None => result[recalls[k]] = store

\* Shutdown breaks every wait: the worker exits and no call stays behind,
\* although hits may be blocked on the worker's full channel while the
\* worker waits for the mutexes of their entries.
ShutdownReleases ==
    spc = "waiting" ~>
        /\ wpc = "done"
        /\ \A r \in Requests : rpc[r] \in {"idle", "answered", "failed"}

\* "Let hit updates that started before invalidation finish before the
\* mutating request returns" (Cache.Invalidate): the worker's invalidation
\* ends.
InvalidateReturns == wpc = "invalidate" ~> wpc # "invalidate"
=============================================================================
